----------------------------- MODULE LlamaBackend -----------------------------
(***************************************************************************)
(* The process-wide life cycle of the llama.cpp runtime, as                *)
(* crates/localmt-engine-llama drives it: the write-once dylib path        *)
(* override, the dlopen handle every translator owns, the mutex-guarded    *)
(* backend reference count, the native model and context handles, and the  *)
(* order in which a failed load or a dropped translator gives them back.   *)
(*                                                                         *)
(* A client is one caller of the engine (a thread of the host): it loads a *)
(* translator, holds it and drops it, over and over, or it configures the  *)
(* dylib path.  What the model files contain and what is translated is     *)
(* left to other modules.                                                  *)
(***************************************************************************)
EXTENDS Integers, FiniteSets

CONSTANTS
  Clients,   \* concurrent callers of the engine
  Libs,      \* llama.cpp dynamic libraries (absolute paths to files)
  NoLib,     \* no path: an unset override, an unset variable
  NoClient,  \* the refcount mutex is free
  UsizeMax   \* usize::MAX, where saturating_add stops

ASSUME ClientsAssumption ==
  /\ IsFiniteSet(Clients)
  /\ NoClient \notin Clients
  /\ UsizeMax \in Nat
  /\ Cardinality(Clients) <= UsizeMax

ASSUME LibsAssumption == NoLib \notin Libs

VARIABLES
  env,         \* LLAMA_CPP_DYLIB_PATH of the process, fixed when it starts
  override,    \* LLAMA_CPP_DYLIB_PATH_OVERRIDE: OnceLock<PathBuf>
  configured,  \* paths some configure call answered Ok for
  refcount,    \* the usize inside LLAMA_BACKEND_REFCOUNT
  lockHolder,  \* the client inside the LLAMA_BACKEND_REFCOUNT mutex
  pc,          \* where each client is in load, drop or configure
  lib,         \* the path a client resolved, then the library it has opened
  handles,     \* live native objects of a client's model/context pair
  dlHandles,   \* the loader's open count of each library
  up           \* libraries whose process-level backend is initialised

vars == <<env, override, configured, refcount, lockHolder, pc, lib, handles,
          dlHandles, up>>

-------------------------------------------------------------------------------
\* Phases.

\* The phases in which the refcount mutex is held.
LockedPhases == {"acquiring", "initialised", "releasing", "freeing"}

\* The phases in which a LlamaBackendLease exists and is counted.
LeasedPhases == {"leased", "model", "context", "ready",
                 "free_context", "free_model", "drop_lease", "releasing"}

\* The phases of a load or drop that own the opened native library.
NativePhases ==
  LeasedPhases \cup {"native", "acquiring", "initialised", "freeing",
                     "drop_native"}

\* The phases of a configure call, which opens the library as a preflight.
ConfigurePhases == {"configuring", "drop_preflight"}

Phases == {"idle", "resolved"} \cup NativePhases \cup ConfigurePhases

LeaseHolders == {c \in Clients : pc[c] \in LeasedPhases}

\* The clients that own an open handle of library l.
Openers(l) ==
  {c \in Clients : pc[c] \in NativePhases \cup ConfigurePhases /\ lib[c] = l}

TypeOK ==
  /\ env \in Libs \cup {NoLib}
  /\ override \in Libs \cup {NoLib}
  /\ configured \in SUBSET Libs
  /\ refcount \in 0..UsizeMax
  /\ lockHolder \in Clients \cup {NoClient}
  /\ pc \in [Clients -> Phases]
  /\ lib \in [Clients -> Libs \cup {NoLib}]
  /\ handles \in [Clients -> SUBSET {"model", "context"}]
  /\ dlHandles \in [Libs -> Nat]
  /\ up \in SUBSET Libs

Init ==
  /\ env \in Libs \cup {NoLib}
  /\ override = NoLib
  /\ configured = {}
  /\ refcount = 0
  /\ lockHolder = NoClient
  /\ pc = [c \in Clients |-> "idle"]
  /\ lib = [c \in Clients |-> NoLib]
  /\ handles = [c \in Clients |-> {}]
  /\ dlHandles = [l \in Libs |-> 0]
  /\ up = {}

-------------------------------------------------------------------------------
\* Helpers.

Goto(c, to) == pc' = [pc EXCEPT ![c] = to]

\* The mutex is taken by moving into a locked phase, and left by moving on.
LockAndGoto(c, from, to) ==
  /\ pc[c] = from
  /\ lockHolder = NoClient
  /\ lockHolder' = c
  /\ Goto(c, to)

\* dlopen by client c of library l, with every required symbol resolved.
OpenHandle(l) == dlHandles' = [dlHandles EXCEPT ![l] = @ + 1]

\* dlclose: the last handle unmaps the image, and its globals go with it.
CloseHandle(c) ==
  /\ dlHandles' = [dlHandles EXCEPT ![lib[c]] = @ - 1]
  /\ up' = IF dlHandles[lib[c]] = 1 THEN up \ {lib[c]} ELSE up
  /\ lib' = [lib EXCEPT ![c] = NoLib]
  /\ Goto(c, "idle")

\* resolve_llama_cpp_dylib_path: the override wins over the environment.
ResolvedPath == IF override # NoLib THEN override ELSE env

SaturatingInc(n) == IF n = UsizeMax THEN UsizeMax ELSE n + 1

-------------------------------------------------------------------------------
\* configure_llama_cpp_dylib_path.

\* The path is validated and the library opened; a failure returns at once
\* and leaves nothing behind.
BeginConfigure(c, l) ==
  /\ pc[c] = "idle"
  /\ lib' = [lib EXCEPT ![c] = l]
  /\ OpenHandle(l)
  /\ Goto(c, "configuring")
  /\ UNCHANGED <<env, override, configured, refcount, lockHolder, handles, up>>

\* Mutant: the last configured path wins.
SetOverrideLastWins(c) ==
  /\ pc[c] = "configuring"
  /\ override' = lib[c]
  /\ configured' = configured \cup {lib[c]}
  /\ Goto(c, "drop_preflight")
  /\ UNCHANGED <<env, refcount, lockHolder, lib, handles, dlHandles, up>>

\* OnceLock::set: the first path stays.  A later call is Ok only for an equal
\* path.
SetOverride(c) ==
  /\ pc[c] = "configuring"
  /\ override' = IF override = NoLib THEN lib[c] ELSE override
  /\ configured' = IF override \in {NoLib, lib[c]}
                   THEN configured \cup {lib[c]} ELSE configured
  /\ Goto(c, "drop_preflight")
  /\ UNCHANGED <<env, refcount, lockHolder, lib, handles, dlHandles, up>>

DropPreflight(c) ==
  /\ pc[c] = "drop_preflight"
  /\ CloseHandle(c)
  /\ UNCHANGED <<env, override, configured, refcount, lockHolder, handles>>

-------------------------------------------------------------------------------
\* LlamaTranslator::load.

\* The runtime configuration parses and a dylib path resolves; otherwise load
\* returns before it owns anything.
BeginLoad(c) ==
  /\ pc[c] = "idle"
  /\ ResolvedPath # NoLib
  /\ lib' = [lib EXCEPT ![c] = ResolvedPath]
  /\ Goto(c, "resolved")
  /\ UNCHANGED <<env, override, configured, refcount, lockHolder, handles,
                 dlHandles, up>>

\* LlamaNativeLibrary::load: dlopen may fail, a symbol may be missing.
OpenLibrary(c) ==
  /\ pc[c] = "resolved"
  /\ OpenHandle(lib[c])
  /\ Goto(c, "native")
  /\ UNCHANGED <<env, override, configured, refcount, lockHolder, lib, handles,
                 up>>

\* Mutant: a missing symbol closes the library and its owner closes it again.
OpenLibraryFailsClosingTwice(c) ==
  /\ pc[c] = "resolved"
  /\ dlHandles' = [dlHandles EXCEPT ![lib[c]] = @ - 1]
  /\ lib' = [lib EXCEPT ![c] = NoLib]
  /\ Goto(c, "idle")
  /\ UNCHANGED <<env, override, configured, refcount, lockHolder, handles, up>>

OpenLibraryFails(c) ==
  /\ pc[c] = "resolved"
  /\ lib' = [lib EXCEPT ![c] = NoLib]
  /\ Goto(c, "idle")
  /\ UNCHANGED <<env, override, configured, refcount, lockHolder, handles,
                 dlHandles, up>>

\* LlamaBackendLease::acquire takes the mutex, ...
LockForAcquire(c) ==
  /\ LockAndGoto(c, "native", "acquiring")
  /\ UNCHANGED <<env, override, configured, refcount, lib, handles, dlHandles,
                 up>>

\* ... calls this library's llama_backend_init when the count is zero, ...
InitBackend(c) ==
  /\ pc[c] = "acquiring"
  /\ refcount = 0
  /\ up' = up \cup {lib[c]}
  /\ Goto(c, "initialised")
  /\ UNCHANGED <<env, override, configured, refcount, lockHolder, lib, handles,
                 dlHandles>>

\* ... and counts the lease before the guard is dropped.
TakeLease(c) ==
  /\ \/ pc[c] = "initialised"
     \/ pc[c] = "acquiring" /\ refcount # 0
  /\ refcount' = SaturatingInc(refcount)
  /\ lockHolder' = NoClient
  /\ Goto(c, "leased")
  /\ UNCHANGED <<env, override, configured, lib, handles, dlHandles, up>>

\* Mutant: a failed model load is retried with a new lease.
LoadModelRetrying(c) ==
  /\ pc[c] = "leased"
  /\ \/ /\ handles' = [handles EXCEPT ![c] = @ \cup {"model"}]
        /\ Goto(c, "model")
     \/ /\ Goto(c, "native")
        /\ UNCHANGED handles
  /\ UNCHANGED <<env, override, configured, refcount, lockHolder, lib,
                 dlHandles, up>>

\* LlamaModelContext::load: a path or parameter that does not fit the ABI, or a
\* null model, drops the lease and the library.
LoadModel(c) ==
  /\ pc[c] = "leased"
  /\ \/ /\ handles' = [handles EXCEPT ![c] = @ \cup {"model"}]
        /\ Goto(c, "model")
     \/ /\ Goto(c, "drop_lease")
        /\ UNCHANGED handles
  /\ UNCHANGED <<env, override, configured, refcount, lockHolder, lib,
                 dlHandles, up>>

\* Mutant: a null context returns without freeing the model.
CreateContextLeakingModel(c) ==
  /\ pc[c] = "model"
  /\ \/ /\ handles' = [handles EXCEPT ![c] = @ \cup {"context"}]
        /\ Goto(c, "context")
     \/ /\ Goto(c, "drop_lease")
        /\ UNCHANGED handles
  /\ UNCHANGED <<env, override, configured, refcount, lockHolder, lib,
                 dlHandles, up>>

\* A null context frees the model; a null vocabulary frees both.
CreateContext(c) ==
  /\ pc[c] = "model"
  /\ \/ /\ handles' = [handles EXCEPT ![c] = @ \cup {"context"}]
        /\ Goto(c, "context")
     \/ /\ Goto(c, "free_model")
        /\ UNCHANGED handles
  /\ UNCHANGED <<env, override, configured, refcount, lockHolder, lib,
                 dlHandles, up>>

GetVocab(c) ==
  /\ pc[c] = "context"
  /\ \/ Goto(c, "ready")
     \/ Goto(c, "free_context")
  /\ UNCHANGED <<env, override, configured, refcount, lockHolder, lib, handles,
                 dlHandles, up>>

-------------------------------------------------------------------------------
\* Dropping a translator: its fields are dropped in declaration order, the
\* model context first, then the lease, then the native library.

Close(c) ==
  /\ pc[c] = "ready"
  /\ Goto(c, "free_context")
  /\ UNCHANGED <<env, override, configured, refcount, lockHolder, lib, handles,
                 dlHandles, up>>

FreeContext(c) ==
  /\ pc[c] = "free_context"
  /\ handles' = [handles EXCEPT ![c] = @ \ {"context"}]
  /\ Goto(c, "free_model")
  /\ UNCHANGED <<env, override, configured, refcount, lockHolder, lib,
                 dlHandles, up>>

\* Mutant: the native library is declared, and dropped, before the lease.
FreeModelThenLibrary(c) ==
  /\ pc[c] = "free_model"
  /\ handles' = [handles EXCEPT ![c] = @ \ {"model"}]
  /\ dlHandles' = [dlHandles EXCEPT ![lib[c]] = @ - 1]
  /\ Goto(c, "drop_lease")
  /\ UNCHANGED <<env, override, configured, refcount, lockHolder, lib, up>>

FreeModel(c) ==
  /\ pc[c] = "free_model"
  /\ handles' = [handles EXCEPT ![c] = @ \ {"model"}]
  /\ Goto(c, "drop_lease")
  /\ UNCHANGED <<env, override, configured, refcount, lockHolder, lib,
                 dlHandles, up>>

\* Drop for LlamaBackendLease.
LockForRelease(c) ==
  /\ LockAndGoto(c, "drop_lease", "releasing")
  /\ UNCHANGED <<env, override, configured, refcount, lib, handles, dlHandles,
                 up>>

\* Mutant: the count is compared before it is decremented.
ReleaseFreesEarly(c) ==
  /\ pc[c] = "releasing"
  /\ refcount' = IF refcount = 0 THEN 0 ELSE refcount - 1
  /\ lockHolder' = IF refcount <= 2 THEN c ELSE NoClient
  /\ Goto(c, IF refcount <= 2 THEN "freeing" ELSE "drop_native")
  /\ UNCHANGED <<env, override, configured, lib, handles, dlHandles, up>>

\* Mutant: the last lease never frees the backend.
ReleaseNeverFrees(c) ==
  /\ pc[c] = "releasing"
  /\ refcount' = IF refcount = 0 THEN 0 ELSE refcount - 1
  /\ lockHolder' = NoClient
  /\ Goto(c, "drop_native")
  /\ UNCHANGED <<env, override, configured, lib, handles, dlHandles, up>>

\* A zero count returns early; the last lease keeps the mutex for the free.
Release(c) ==
  /\ pc[c] = "releasing"
  /\ refcount' = IF refcount = 0 THEN 0 ELSE refcount - 1
  /\ lockHolder' = IF refcount = 1 THEN c ELSE NoClient
  /\ Goto(c, IF refcount = 1 THEN "freeing" ELSE "drop_native")
  /\ UNCHANGED <<env, override, configured, lib, handles, dlHandles, up>>

FreeBackend(c) ==
  /\ pc[c] = "freeing"
  /\ up' = up \ {lib[c]}
  /\ lockHolder' = NoClient
  /\ Goto(c, "drop_native")
  /\ UNCHANGED <<env, override, configured, refcount, lib, handles, dlHandles>>

CloseLibrary(c) ==
  /\ pc[c] = "drop_native"
  /\ CloseHandle(c)
  /\ UNCHANGED <<env, override, configured, refcount, lockHolder, handles>>

-------------------------------------------------------------------------------
\* A call that has begun runs to its end: everything a client does except
\* beginning a load or a configure call, and closing a translator.
Continue(c) ==
  \/ SetOverride(c) \/ DropPreflight(c)
  \/ OpenLibrary(c) \/ OpenLibraryFails(c)
  \/ LockForAcquire(c) \/ InitBackend(c) \/ TakeLease(c)
  \/ LoadModel(c) \/ CreateContext(c) \/ GetVocab(c)
  \/ FreeContext(c) \/ FreeModel(c)
  \/ LockForRelease(c) \/ Release(c) \/ FreeBackend(c) \/ CloseLibrary(c)

Next ==
  \E c \in Clients :
    \/ \E l \in Libs : BeginConfigure(c, l)
    \/ BeginLoad(c)
    \/ Close(c)
    \/ Continue(c)

Spec == Init /\ [][Next]_vars

\* A thread that is inside the engine is scheduled, and the native calls it
\* makes return.  The mutex itself is not assumed to be fair.
FairSpec == Spec /\ \A c \in Clients : WF_vars(Continue(c))

-------------------------------------------------------------------------------
\* Safety.

\* One library per process: the environment is unset, or the override agrees
\* with it (or was never set).
OneRuntime == env = NoLib \/ override \in {NoLib, env}

\* The reference count is the number of live leases: no load that fails halfway
\* and no interleaving of acquires and drops loses or doubles a count
\* (LLAMA_BACKEND_REFCOUNT, LlamaBackendLease).
LeasesCounted == refcount = Cardinality(LeaseHolders)

\* As long as a translator holds a lease, the backend of the library it calls
\* is initialised: another translator's drop never takes it down.
BackendUpWhileLeased ==
  OneRuntime => \A c \in LeaseHolders : lib[c] \in up

\* llama_backend_init and llama_backend_free alternate: a client about to call
\* the first finds the backend down, one about to call the second finds it up.
InitFreeBalanced ==
  OneRuntime =>
    \A c \in Clients :
      /\ pc[c] = "acquiring" /\ refcount = 0 => lib[c] \notin up
      /\ pc[c] = "freeing" => lib[c] \in up

\* The same, as the SAFETY comment of LlamaBackendLease::acquire has it, with no
\* word about the dylib path changing between two loads.
InitFreeAlwaysBalanced ==
  \A c \in Clients :
    /\ pc[c] = "acquiring" /\ refcount = 0 => lib[c] \notin up
    /\ pc[c] = "freeing" => lib[c] \in up

\* Function pointers of a library are only ever held, and so called, while the
\* loader keeps its image mapped, whichever client closed it last.
CallsIntoMappedLibrary ==
  \A c \in Clients :
    pc[c] \in NativePhases \cup ConfigurePhases => dlHandles[lib[c]] > 0

\* A context never outlives its model, and neither outlives the lease (drop
\* order of LlamaTranslator, and the three error returns of
\* LlamaModelContext::load).
HandlesInsideLease ==
  \A c \in Clients :
    /\ "context" \in handles[c] => "model" \in handles[c]
    /\ handles[c] # {} => c \in LeaseHolders

\* The count of leases is the state of the backend, whoever loads and drops at
\* the same time and whatever fails: it counts the translators, keeps the
\* backend of each of them up, and is zero exactly around init and free.
BackendMatchesLeases == LeasesCounted /\ BackendUpWhileLeased /\ InitFreeBalanced

\* The drop order, context, model, lease, library: nothing is called that is
\* unmapped and nothing native outlives what it was made from.
DropOrderKept == CallsIntoMappedLibrary /\ HandlesInsideLease

\* Once no call is in progress and no translator is open, everything the loads
\* and configure calls took has been given back, on every error path.
NothingLeaks ==
  (\A c \in Clients : pc[c] \in {"idle", "resolved"}) =>
    /\ refcount = 0
    /\ lockHolder = NoClient
    /\ \A c \in Clients : handles[c] = {}
    /\ \A l \in Libs : dlHandles[l] = 0
    /\ up = {}

\* Once a configure call has answered Ok for a path, every load that begins
\* uses that path, however configure calls raced (OnceLock).
AcknowledgedPathIsUsed ==
  [][\A c \in Clients :
       /\ pc[c] = "idle" /\ pc'[c] = "resolved"
       /\ configured # {}
       => configured = {lib'[c]}]_vars

\* A library image is unmapped only after its backend was freed.
UnmappedOnlyWhenDown ==
  [][OneRuntime =>
       \A l \in Libs : dlHandles[l] > 0 /\ dlHandles'[l] = 0 => l \notin up]_vars

-------------------------------------------------------------------------------
\* Liveness.

\* From some point on nobody begins another load.
LoadsEnd == <>[][\A c \in Clients : ~BeginLoad(c)]_vars

\* Without new loads competing for the mutex, every translator being dropped is
\* dropped completely and every load in progress settles: no client waits
\* forever for the reference count.
EveryCallReturns ==
  LoadsEnd =>
    \A c \in Clients :
      /\ pc[c] = "free_context" ~> pc[c] = "idle"
      /\ pc[c] = "resolved" ~> pc[c] \in {"ready", "idle"}
===============================================================================
