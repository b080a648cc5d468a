------------------------------ MODULE FfiHandles ------------------------------
(***************************************************************************)
(* Translators behind the C ABI and their callers: Rust boxes handed out   *)
(* as raw handles, the Java wrappers that keep a handle in a plain field,  *)
(* C callers that keep it in a local, and the output-buffer contract, by   *)
(* which a caller asks for the length with an empty buffer and calls again *)
(* with one of that length.  An address is used again once it is free.     *)
(*                                                                         *)
(* The engine behind a handle is LlamaTranslate or OrtGenerator; here it   *)
(* answers a number of bytes, or fails.  A panic ends the process: no      *)
(* export unwinds.                                                         *)
(***************************************************************************)
EXTENDS Naturals, Sequences

CONSTANTS
  JavaThreads, CThreads, \* who calls: through LocalmtNative, or the C header
  Wrappers,              \* objects of LocalmtNative.GgufTranslator/Translator
  Boxes,                 \* addresses that Box::into_raw may return
  Packs,                 \* model packs a translator is opened from
  Requests,              \* [source, target, text]: language ids and a text
  Lengths,               \* UTF-8 lengths of translations
  Length(_, _),          \* that of a pack's greedy translation of a request
  Sampled,               \* packs with temperature > 0: any translation may come
  CloseRaces,            \* BOOLEAN: a wrapper may be closed while in use
  Null                   \* the null pointer, a zero byte, no object

Threads == JavaThreads \cup CThreads

\* The texts a caller may hand over: NonEmptyText refuses blank and overlong
\* ones alike, and malformed ones have no UTF-8 form.
Texts == {"good", "blank", "malformed"}

ASSUME HandlesAssumption ==
  /\ JavaThreads \cap CThreads = {}
  /\ Null \notin Threads \cup Wrappers \cup Boxes \cup Packs \cup Requests
  /\ Requests \subseteq [source : Nat, target : Nat, text : Texts]
  /\ Lengths \subseteq Nat \ {0}
  /\ \A p \in Packs, r \in Requests : Length(p, r) \in Lengths
  /\ Sampled \subseteq Packs
  /\ CloseRaces \in BOOLEAN

VARIABLES
  box,     \* the pack of the translator that lives at each address, or Null
  field,   \* nativeHandle of each wrapper
  origin,  \* the pack its wrapper was opened for, Null before it was
  frame    \* what each thread is doing

vars == <<box, field, origin, frame>>

\* A thread outside every call.
Idle == [pc |-> "idle", wrapper |-> Null, handle |-> Null, pack |-> Null,
         request |-> Null, round |-> "probe", status |-> "OK",
         written |-> 0, output |-> <<>>]

Calling == {"call", "running", "returned"}

Frame ==
  [pc : {"idle", "opening", "opened", "checked", "clearing", "closing"}
          \cup Calling,
   wrapper : Wrappers \cup {Null},
   handle : Boxes \cup {Null},
   pack : Packs \cup {Null},
   request : Requests \cup {Null},
   round : {"probe", "retry"},
   status : {"OK", "BUFFER_TOO_SMALL", "NULL_POINTER", "INVALID_LANGUAGE",
             "INVALID_UTF8", "TEXT_ERROR", "INVALID_PAIR", "TRANSLATION_ERROR"},
   written : Lengths \cup {0},
   output : Seq(Packs \cup {Null})]

TypeOK ==
  /\ box \in [Boxes -> Packs \cup {Null}]
  /\ field \in [Wrappers -> Boxes \cup {Null}]
  /\ origin \in [Wrappers -> Packs \cup {Null}]
  /\ frame \in [Threads -> Frame]
  /\ \A t \in Threads : Len(frame[t].output) \in Lengths \cup {0}

Init ==
  /\ box = [b \in Boxes |-> Null]
  /\ field = [w \in Wrappers |-> Null]
  /\ origin = [w \in Wrappers |-> Null]
  /\ frame = [t \in Threads |-> Idle]

-------------------------------------------------------------------------------
\* The requests an export can tell apart.

LanguageCount == 5

FitsU8(id) == id \in 0..255
ToU8(id) == id % 256

\* What the checks of a translate export answer, in their order.
Refusal(source, target, text) ==
  CASE source >= LanguageCount \/ target >= LanguageCount -> "INVALID_LANGUAGE"
    [] OTHER ->
         CASE text = "malformed" -> "INVALID_UTF8"
           [] text = "blank"     -> "TEXT_ERROR"
           [] text = "good" /\ source = target -> "INVALID_PAIR"
           [] OTHER -> "OK"

PairAccepted(source, target) ==
  /\ source < LanguageCount
  /\ target < LanguageCount
  /\ source # target

\* Mutant: the ids are cast as they come.
EnsureLanguageIdsUnchecked(r) == r \in Requests

EnsureLanguageIds(r) == FitsU8(r.source) /\ FitsU8(r.target)

-------------------------------------------------------------------------------
\* Opening.

At(t, pc) == frame[t].pc = pc

Users(w) == {t \in Threads : frame[t].wrapper = w}

\* What the handle contract (a live handle, closed exactly once) takes of the
\* application, and nothing enforces: no wrapper is closed while a thread is in
\* a call on it.
MayUse(w) ==
  CloseRaces \/ \A t \in Users(w) : frame[t].pc \notin {"clearing", "closing"}
MayClose(w) == CloseRaces \/ Users(w) = {}

\* A new wrapper takes the place of one that is closed and out of use.
OpenJava(t, w, p) ==
  /\ t \in JavaThreads
  /\ At(t, "idle")
  /\ field[w] = Null
  /\ Users(w) = {}
  /\ frame' = [frame EXCEPT ![t] =
                 [Idle EXCEPT !.pc = "opening", !.wrapper = w, !.pack = p]]
  /\ UNCHANGED <<box, field, origin>>

OpenC(t, p) ==
  /\ t \in CThreads
  /\ At(t, "idle")
  /\ frame' = [frame EXCEPT ![t] = [Idle EXCEPT !.pc = "opening", !.pack = p]]
  /\ UNCHANGED <<box, field, origin>>

\* The pack, the tokenizer or the runtime refuses: the out pointer stays null
\* and JNI throws before there is a wrapper.
OpenFails(t) ==
  /\ At(t, "opening")
  /\ frame' = [frame EXCEPT ![t] = Idle]
  /\ UNCHANGED <<box, field, origin>>

OpenSucceeds(t, b) ==
  /\ At(t, "opening")
  /\ box[b] = Null
  /\ box' = [box EXCEPT ![b] = frame[t].pack]
  /\ frame' = [frame EXCEPT ![t].pc = "opened", ![t].handle = b]
  /\ UNCHANGED <<field, origin>>

Construct(t) ==
  /\ t \in JavaThreads
  /\ At(t, "opened")
  /\ field' = [field EXCEPT ![frame[t].wrapper] = frame[t].handle]
  /\ origin' = [origin EXCEPT ![frame[t].wrapper] = frame[t].pack]
  /\ frame' = [frame EXCEPT ![t] = Idle]
  /\ UNCHANGED box

-------------------------------------------------------------------------------
\* Translating.

\* GgufTranslator::translate, up to the native call.  A closed wrapper and a
\* refused pair throw and change nothing.
Translate(t, w, r) ==
  /\ t \in JavaThreads
  /\ At(t, "idle")
  /\ MayUse(w)
  /\ field[w] # Null
  /\ EnsureLanguageIds(r)
  /\ PairAccepted(ToU8(r.source), ToU8(r.target))
  /\ frame' = [frame EXCEPT ![t] =
                 [Idle EXCEPT !.pc = "checked", !.wrapper = w,
                              !.pack = origin[w], !.request = r]]
  /\ UNCHANGED <<box, field, origin>>

\* The field is read again for the native call, whose own checks follow.
EnterNative(t) ==
  /\ At(t, "checked")
  /\ LET h == field[frame[t].wrapper]
         r == frame[t].request
     IN IF h # Null /\ r.text # "malformed" /\ EnsureLanguageIds(r)
        THEN frame' = [frame EXCEPT ![t].pc = "call", ![t].handle = h]
        ELSE frame' = [frame EXCEPT ![t] = Idle]
  /\ UNCHANGED <<box, field, origin>>

\* A C caller's ids are bytes already.
UseC(t, r) ==
  /\ t \in CThreads
  /\ At(t, "opened")
  /\ EnsureLanguageIds(r)
  /\ frame' = [frame EXCEPT ![t].pc = "call", ![t].request = r]
  /\ UNCHANGED <<box, field, origin>>

\* A translate export, up to the engine.
CheckRequest(t) ==
  /\ At(t, "call")
  /\ LET r == frame[t].request
         refusal == Refusal(ToU8(r.source), ToU8(r.target), r.text)
     IN frame' = [frame EXCEPT
                    ![t].pc = IF refusal = "OK" THEN "running" ELSE "returned",
                    ![t].status = refusal,
                    ![t].written = 0]
  /\ UNCHANGED <<box, field, origin>>

EngineFails(t) ==
  /\ At(t, "running")
  /\ frame' = [frame EXCEPT ![t].pc = "returned",
                            ![t].status = "TRANSLATION_ERROR"]
  /\ UNCHANGED <<box, field, origin>>

MayAnswer(pack, request, n) == pack \in Sampled \/ n = Length(pack, request)

\* The n bytes of an answer, named for the translator they come from.
Bytes(t, n) == [i \in 1..n |-> box[frame[t].handle]]

CopyOver(bytes, output) ==
  [i \in DOMAIN output |-> IF i \in DOMAIN bytes THEN bytes[i] ELSE output[i]]

\* The capacity is checked before the pointer; a caller that asks for the
\* length passes no buffer.
BufferStatus(t, n) ==
  CASE Len(frame[t].output) < n  -> "BUFFER_TOO_SMALL"
    [] Len(frame[t].output) >= n -> IF frame[t].round = "probe"
                                    THEN "NULL_POINTER" ELSE "OK"

\* Mutant: written_len is only set when the caller asks for the length.
EngineAnswersProbed(t, n) ==
  /\ At(t, "running")
  /\ MayAnswer(box[frame[t].handle], frame[t].request, n)
  /\ LET fits == Len(frame[t].output) >= n
     IN frame' = [frame EXCEPT
                    ![t].pc = "returned",
                    ![t].status = IF fits THEN "OK" ELSE "BUFFER_TOO_SMALL",
                    ![t].written = IF fits THEN Len(frame[t].output) ELSE n,
                    ![t].output = IF fits THEN CopyOver(Bytes(t, n), @) ELSE @]
  /\ UNCHANGED <<box, field, origin>>

EngineAnswers(t, n) ==
  /\ At(t, "running")
  /\ MayAnswer(box[frame[t].handle], frame[t].request, n)
  /\ frame' = [frame EXCEPT
                 ![t].pc = "returned",
                 ![t].status = BufferStatus(t, n),
                 ![t].written = n,
                 ![t].output = IF BufferStatus(t, n) = "OK"
                               THEN CopyOver(Bytes(t, n), frame[t].output)
                               ELSE frame[t].output]
  /\ UNCHANGED <<box, field, origin>>

\* The caller gives up or has its answer.  A C caller closes its handle now,
\* whatever the outcome was.
Leave(t) ==
  frame' = [frame EXCEPT ![t] =
              IF t \in JavaThreads THEN Idle
              ELSE [Idle EXCEPT !.pc = "closing", !.handle = frame[t].handle]]

\* Mutant: one byte more, for a terminator.
RetryTerminated(t) ==
  /\ At(t, "returned")
  /\ frame[t].round = "probe"
  /\ frame[t].status \in {"BUFFER_TOO_SMALL", "OK"}
  /\ frame' = [frame EXCEPT ![t].pc = "call", ![t].round = "retry",
                            ![t].output = [i \in 1..frame[t].written + 1 |-> Null]]
  /\ UNCHANGED <<box, field, origin>>

\* call_buffer and ffi_bytes: between their two calls, and after the second.
Retry(t) ==
  /\ At(t, "returned")
  /\ frame[t].round = "probe"
  /\ frame[t].status \in {"BUFFER_TOO_SMALL", "OK"}
  /\ frame' = [frame EXCEPT ![t].pc = "call", ![t].round = "retry",
                            ![t].output = [i \in 1..frame[t].written |-> Null]]
  /\ UNCHANGED <<box, field, origin>>

FinishCall(t) ==
  /\ At(t, "returned")
  /\ \/ frame[t].round = "retry"
     \/ frame[t].status \notin {"BUFFER_TOO_SMALL", "OK"}
  /\ Leave(t)
  /\ UNCHANGED <<box, field, origin>>

\* What a caller makes of an OK: the buffer, cut to written_len.
Result(t) == SubSeq(frame[t].output, 1, frame[t].written)

-------------------------------------------------------------------------------
\* Closing.

\* `long handle = nativeHandle;', `nativeHandle = 0;' and the native close.
CloseJava(t, w) ==
  /\ t \in JavaThreads
  /\ At(t, "idle")
  /\ MayClose(w)
  /\ origin[w] # Null
  /\ frame' = [frame EXCEPT ![t] =
                 [Idle EXCEPT !.pc = "clearing", !.wrapper = w,
                              !.handle = field[w]]]
  /\ UNCHANGED <<box, field, origin>>

\* Mutant: the field keeps the handle.
ClearFieldNot(t) ==
  /\ At(t, "clearing")
  /\ frame' = IF frame[t].handle = Null THEN [frame EXCEPT ![t] = Idle]
              ELSE [frame EXCEPT ![t].pc = "closing"]
  /\ UNCHANGED <<box, field, origin>>

ClearField(t) ==
  /\ At(t, "clearing")
  /\ field' = [field EXCEPT ![frame[t].wrapper] = Null]
  /\ frame' = IF frame[t].handle = Null THEN [frame EXCEPT ![t] = Idle]
              ELSE [frame EXCEPT ![t].pc = "closing"]
  /\ UNCHANGED <<box, origin>>

\* A handle may be closed unused: the generator preflight of the doctor is.
CloseUnused(t) ==
  /\ t \in CThreads
  /\ At(t, "opened")
  /\ Leave(t)
  /\ UNCHANGED <<box, field, origin>>

CloseBox(t) ==
  /\ At(t, "closing")
  /\ box' = [box EXCEPT ![frame[t].handle] = Null]
  /\ frame' = [frame EXCEPT ![t] = Idle]
  /\ UNCHANGED <<field, origin>>

-------------------------------------------------------------------------------
Step(t) ==
  \/ OpenFails(t)
  \/ \E b \in Boxes : OpenSucceeds(t, b)
  \/ Construct(t)
  \/ EnterNative(t)
  \/ \E r \in Requests : UseC(t, r)
  \/ CheckRequest(t)
  \/ EngineFails(t)
  \/ \E n \in Lengths : EngineAnswers(t, n)
  \/ Retry(t)
  \/ FinishCall(t)
  \/ ClearField(t)
  \/ CloseUnused(t)
  \/ CloseBox(t)

Start(t) ==
  \/ \E p \in Packs : OpenC(t, p) \/ \E w \in Wrappers : OpenJava(t, w, p)
  \/ \E w \in Wrappers : \/ \E r \in Requests : Translate(t, w, r)
                         \/ CloseJava(t, w)

Next == \E t \in Threads : Start(t) \/ Step(t)

Spec == Init /\ [][Next]_vars

-------------------------------------------------------------------------------
\* Properties.

\* A translate export runs, from its first check to its return, in both the
\* call for the length and the call for the bytes, on a translator that is
\* still open and was opened from the pack its caller named: not on a freed
\* one, and not on another that took over its address.
LiveWhileUsed ==
  \A t \in Threads :
    frame[t].pc \in Calling => /\ frame[t].pack # Null
                               /\ box[frame[t].handle] = frame[t].pack

\* A close export gets a handle that is still open and that no other thread is
\* about to close too.
ClosedOnce ==
  \A t \in Threads :
    At(t, "closing") =>
      /\ frame[t].handle # Null
      /\ box[frame[t].handle] # Null
      /\ \A u \in Threads \ {t} :
           At(u, "closing") => frame[u].handle # frame[t].handle

\* A thread that still has to wrap, to close, or (a C caller) to use a handle.
Owes(t, b) ==
  /\ frame[t].handle = b
  /\ t \in CThreads \/ frame[t].pc \in {"opened", "closing"}

\* An open translator can still be closed: a wrapper has its handle or a thread
\* owes it, whatever opens, calls and exceptions came before.
NothingLeaks ==
  \A b \in Boxes :
    box[b] # Null => \/ \E w \in Wrappers : field[w] = b
                     \/ \E t \in Threads : Owes(t, b)

\* Every translator that is opened can be closed, and only once.
ClosedExactlyOnce == ClosedOnce /\ NothingLeaks

\* The bytes a caller takes for its translation are one whole translation by
\* the translator it opened: no zero bytes of the buffer, nothing of the call
\* that asked for the length, nothing cut off when the second one is shorter.
AnswerWhole ==
  \A t \in Threads :
    (At(t, "returned") /\ frame[t].status = "OK") =>
      /\ frame[t].written > 0
      /\ Result(t) = [i \in 1..frame[t].written |-> frame[t].pack]

\* The languages the engine is asked for are those the caller named: an id that
\* does not fit a byte is refused before the cast that would change it.
LanguagesKept ==
  \A t \in Threads :
    At(t, "running") => LET r == frame[t].request
                        IN ToU8(r.source) = r.source /\ ToU8(r.target) = r.target

\* Whoever allocates the length it was told and calls again, on a greedy pack,
\* is not told that the buffer is too small.
RetryFits ==
  \A t \in Threads :
    (At(t, "returned") /\ frame[t].round = "retry" /\ frame[t].pack \notin Sampled)
      => frame[t].status # "BUFFER_TOO_SMALL"

\* The length and the bytes of two separate calls serve the caller as one call
\* would: what it takes is one whole translation, and on a greedy pack it is not
\* sent away twice.
AnswersServe == AnswerWhole /\ RetryFits

\* The same length on every pack, as the header has it: the length reported for a
\* buffer that is too small is the length the translation needs.
ReportedLengthSuffices ==
  \A t \in Threads :
    (At(t, "returned") /\ frame[t].round = "retry") =>
      frame[t].status # "BUFFER_TOO_SMALL"
===============================================================================
