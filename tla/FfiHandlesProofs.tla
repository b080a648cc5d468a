--------------------------- MODULE FfiHandlesProofs ---------------------------
(***************************************************************************)
(* Handles and buffers of FfiHandles for every set of threads, wrappers,   *)
(* addresses and packs.                                                    *)
(***************************************************************************)
EXTENDS FfiHandles, SequenceTheorems, TLAPS

\* What a thread's frame holds at each place, whatever the others do.
Shape(t, f) ==
  /\ f.pc = "idle" => f = Idle
  /\ f.pc \in {"opened", "closing"} \cup Calling => f.handle # Null
  /\ f.pc \in {"opening", "checked"} => f.handle = Null
  /\ f.pc \in {"opening", "opened", "checked"} \cup Calling => f.pack # Null
  /\ f.pc \in {"checked"} \cup Calling => f.request # Null
  /\ t \in CThreads => f.wrapper = Null /\ f.pc \notin {"checked", "clearing"}
  /\ t \in JavaThreads /\ f.pc # "idle" => f.wrapper # Null

ShapeInv ==
  /\ TypeOK
  /\ \A t \in Threads : Shape(t, frame[t])
  /\ \A w \in Wrappers : field[w] # Null => origin[w] # Null

\* Without races, a thread that opens or closes a wrapper is alone with it, and
\* one in a call on it uses the handle in its field.
OnWrapper(t, f) ==
  t \in JavaThreads =>
    /\ f.pc \in {"opening", "opened", "closing"} => field[f.wrapper] = Null
    /\ f.pc = "clearing" => f.handle = field[f.wrapper]
    /\ f.pc \in {"checked"} \cup Calling => /\ field[f.wrapper] # Null
                                          /\ f.pack = origin[f.wrapper]
    /\ f.pc \in Calling => f.handle = field[f.wrapper]

Shared(f) == f.pc \in {"checked"} \cup Calling

\* The threads that have a handle no wrapper has.
Owner(t, f) ==
  f.pc \in IF t \in CThreads THEN {"opened", "closing"} \cup Calling
                             ELSE {"opened", "closing"}

WrapperInv ==
  \A w \in Wrappers : field[w] # Null =>
    /\ box[field[w]] = origin[w]
    /\ \A v \in Wrappers \ {w} : field[v] # field[w]

ThreadInv ==
  \A t \in Threads :
    /\ OnWrapper(t, frame[t])
    /\ Owner(t, frame[t]) =>
         /\ box[frame[t].handle] # Null
         /\ frame[t].pc # "closing" => box[frame[t].handle] = frame[t].pack
         /\ \A w \in Wrappers : field[w] # frame[t].handle

PairInv ==
  \A t \in Threads : \A u \in Threads \ {t} :
    /\ (frame[t].wrapper # Null /\ frame[t].wrapper = frame[u].wrapper) =>
         Shared(frame[t])
    /\ (Owner(t, frame[t]) /\ Owner(u, frame[u])) =>
         frame[t].handle # frame[u].handle

HandleInv == ShapeInv /\ WrapperInv /\ ThreadInv /\ PairInv /\ NothingLeaks

\* A thread that enters or leaves a call has the frame Idle, of every shape.
LEMMA IdleFrame ==
  /\ Idle \in Frame
  /\ Len(Idle.output) = 0
  /\ Idle.pc = "idle"
  /\ Idle.wrapper = Null
  /\ Idle.handle = Null
  /\ \A t \in Threads : Shape(t, Idle)
PROOF BY DEF Idle, Frame, Shape, Calling

\* A step that gives one thread a frame of the right type and shape keeps
\* ShapeInv.
LEMMA FrameUpdate ==
  ASSUME ShapeInv, NEW t \in Threads, NEW f \in Frame,
         Len(f.output) \in Lengths \cup {0}, Shape(t, f),
         frame' = [frame EXCEPT ![t] = f],
         box' \in [Boxes -> Packs \cup {Null}],
         field' \in [Wrappers -> Boxes \cup {Null}],
         origin' \in [Wrappers -> Packs \cup {Null}],
         \A w \in Wrappers : field'[w] # Null => origin'[w] # Null
  PROVE  ShapeInv'
PROOF BY DEF ShapeInv, TypeOK

\* At the start every thread is idle.
LEMMA ShapeInit == Init => ShapeInv
PROOF BY IdleFrame, HandlesAssumption DEF Init, ShapeInv, TypeOK

\* An allocated buffer, and an answer, are sequences of their length.
LEMMA ConstantBuffer ==
  ASSUME NEW S, NEW z \in S, NEW n \in Nat
  PROVE  [i \in 1..n |-> z] \in Seq(S) /\ Len([i \in 1..n |-> z]) = n
PROOF OBVIOUS

\* A fresh buffer is one of zero bytes.
LEMMA ZeroedBuffer ==
  ASSUME NEW n \in Nat
  PROVE  LET zeros == [i \in 1..n |-> Null]
         IN zeros \in Seq(Packs \cup {Null}) /\ Len(zeros) = n
PROOF
<1>1. Null \in Packs \cup {Null}
  OBVIOUS
<1> QED BY <1>1, ConstantBuffer

\* Copying an answer over a buffer leaves the buffer its length and type.
LEMMA CopyKeepsLength ==
  ASSUME NEW S, NEW bytes \in Seq(S), NEW output \in Seq(S)
  PROVE  /\ CopyOver(bytes, output) \in Seq(S)
         /\ Len(CopyOver(bytes, output)) = Len(output)
PROOF
<1> DEFINE copy == CopyOver(bytes, output)
<1>1. output \in [1..Len(output) -> S] /\ Len(output) \in Nat
  OBVIOUS
<1>2. bytes \in [DOMAIN bytes -> S]
  OBVIOUS
<1>3. copy \in [1..Len(output) -> S]
  BY <1>1, <1>2 DEF CopyOver
<1> HIDE DEF copy
<1>4. copy \in Seq(S)
  BY <1>1, <1>3
<1> QED BY <1>1, <1>3, <1>4 DEF copy

\* A length, or no bytes written, is a natural number.
LEMMA LengthsNatural == \A n \in Lengths \cup {0} : n \in Nat
PROOF BY HandlesAssumption

\* The checks before the engine answer one of these.
LEMMA RefusalStatus ==
  ASSUME NEW a, NEW b, NEW x
  PROVE  Refusal(a, b, x) \in {"OK", "INVALID_LANGUAGE", "INVALID_UTF8",
                              "TEXT_ERROR", "INVALID_PAIR"}
PROOF BY DEF Refusal

\* No step breaks the types and shapes of the frames.
LEMMA ShapeNext == ShapeInv /\ [Next]_vars => ShapeInv'
PROOF
<1> SUFFICES ASSUME ShapeInv, [Next]_vars PROVE ShapeInv'
  OBVIOUS
<1> USE HandlesAssumption
<1>u. CASE UNCHANGED vars
  BY <1>u DEF vars, ShapeInv, TypeOK
<1>0. ASSUME NEW t \in Threads
      PROVE  /\ frame[t] \in Frame /\ Shape(t, frame[t])
             /\ Len(frame[t].output) \in Lengths \cup {0}
             /\ t \in JavaThreads <=> t \notin CThreads
  BY DEF ShapeInv, TypeOK, Threads
<1>1. ASSUME NEW t \in Threads, NEW p \in Packs, NEW w \in Wrappers,
              OpenJava(t, w, p)
      PROVE  ShapeInv'
  <2> DEFINE f == [Idle EXCEPT !.pc = "opening", !.wrapper = w, !.pack = p]
  <2>1. f \in Frame
    BY <1>0, IdleFrame, ZenonT(60) DEF Frame, Calling
  <2>2. /\ f.pc = "opening" /\ f.wrapper = w
          /\ f.handle = Null /\ f.pack = p
          /\ f.request = Null /\ f.output = <<>>
    BY <1>0 DEF Idle
  <2>3. Shape(t, f)
    BY <1>0, <1>1, <2>2 DEF Shape, OpenJava, At, Calling
  <2>4. frame' = [frame EXCEPT ![t] = f]
    BY <1>1 DEF OpenJava
  <2> QED
    BY <1>0, <1>1, <2>1, <2>2, <2>3, <2>4, FrameUpdate
    DEF OpenJava, ShapeInv, TypeOK
<1>2. ASSUME NEW t \in Threads, NEW p \in Packs, OpenC(t, p)
      PROVE  ShapeInv'
  <2> DEFINE f == [Idle EXCEPT !.pc = "opening", !.pack = p]
  <2>1. f \in Frame
    BY <1>0, IdleFrame, ZenonT(60) DEF Frame, Calling
  <2>2. /\ f.pc = "opening" /\ f.wrapper = Null
          /\ f.handle = Null /\ f.pack = p
          /\ f.request = Null /\ f.output = <<>>
    BY <1>0 DEF Idle
  <2>3. Shape(t, f)
    BY <1>0, <1>2, <2>2 DEF Shape, OpenC, At, Calling
  <2>4. frame' = [frame EXCEPT ![t] = f]
    BY <1>2 DEF OpenC
  <2> QED
    BY <1>0, <1>2, <2>1, <2>2, <2>3, <2>4, FrameUpdate
    DEF OpenC, ShapeInv, TypeOK
<1>3. ASSUME NEW t \in Threads, OpenFails(t)
      PROVE  ShapeInv'
  BY <1>3, IdleFrame, FrameUpdate DEF OpenFails, ShapeInv, TypeOK
<1>4. ASSUME NEW t \in Threads, NEW b \in Boxes, OpenSucceeds(t, b)
      PROVE  ShapeInv'
  <2> DEFINE f == [frame[t] EXCEPT !.pc = "opened", !.handle = b]
  <2>1. f \in Frame
    BY <1>0, IdleFrame, ZenonT(60) DEF Frame, Calling
  <2>2. /\ f.pc = "opened" /\ f.wrapper = frame[t].wrapper
          /\ f.handle = b /\ f.pack = frame[t].pack
          /\ f.request = frame[t].request /\ f.output = frame[t].output
    BY <1>0 DEF Frame
  <2>3. Shape(t, f)
    BY <1>0, <1>4, <2>2 DEF Shape, OpenSucceeds, At, Calling
  <2>4. frame' = [frame EXCEPT ![t] = f]
    BY <1>4 DEF OpenSucceeds
  <2>5. box' \in [Boxes -> Packs \cup {Null}]
    BY <1>0, <1>4 DEF OpenSucceeds, ShapeInv, TypeOK, Frame
  <2> QED
    BY <1>0, <1>4, <2>1, <2>2, <2>3, <2>4, <2>5, FrameUpdate
    DEF OpenSucceeds, ShapeInv, TypeOK
<1>5. ASSUME NEW t \in Threads, Construct(t)
      PROVE  ShapeInv'
  <2>1. /\ field' \in [Wrappers -> Boxes \cup {Null}]
        /\ origin' \in [Wrappers -> Packs \cup {Null}]
    BY <1>0, <1>5 DEF Construct, ShapeInv, TypeOK, Frame
  <2>2. \A w \in Wrappers : field'[w] # Null => origin'[w] # Null
    BY <1>0, <1>5 DEF Construct, ShapeInv, TypeOK, Shape, At
  <2> QED BY <1>5, <2>1, <2>2, IdleFrame, FrameUpdate
          DEF Construct, ShapeInv, TypeOK
<1>6. ASSUME NEW t \in Threads, NEW w \in Wrappers, NEW r \in Requests,
              Translate(t, w, r)
      PROVE  ShapeInv'
  <2> DEFINE f == [Idle EXCEPT !.pc = "checked", !.wrapper = w,
                               !.pack = origin[w], !.request = r]
  <2>0. origin[w] \in Packs /\ origin[w] # Null
    BY <1>6 DEF Translate, ShapeInv, TypeOK
  <2>1. f \in Frame
    BY <1>0, IdleFrame, <2>0, ZenonT(60) DEF Frame, Calling
  <2>2. /\ f.pc = "checked" /\ f.wrapper = w
          /\ f.handle = Null /\ f.pack = origin[w]
          /\ f.request = r /\ f.output = <<>>
    BY <1>0 DEF Idle
  <2>3. Shape(t, f)
    BY <1>0, <1>6, <2>2, <2>0 DEF Shape, Translate, At, Calling
  <2>4. frame' = [frame EXCEPT ![t] = f]
    BY <1>6, <2>0 DEF Translate
  <2> QED
    BY <1>0, <1>6, <2>1, <2>2, <2>3, <2>4, <2>0, FrameUpdate
    DEF Translate, ShapeInv, TypeOK
<1>7. ASSUME NEW t \in Threads, EnterNative(t)
      PROVE  ShapeInv'
  <2> DEFINE h == field[frame[t].wrapper]
             f == [frame[t] EXCEPT !.pc = "call", !.handle = h]
  <2>1. CASE frame' = [frame EXCEPT ![t] = Idle]
    BY <1>7, <2>1, IdleFrame, FrameUpdate DEF EnterNative, ShapeInv, TypeOK
  <2>2. CASE frame' = [frame EXCEPT ![t] = f] /\ h # Null
    <3>0. t \in JavaThreads /\ frame[t].wrapper \in Wrappers /\ h \in Boxes
      BY <1>0, <1>7, <2>2 DEF Shape, EnterNative, At, Frame, ShapeInv, TypeOK
    <3>1. f \in Frame
      BY <1>0, <3>0, ZenonT(60) DEF Frame, Calling
    <3>2. /\ f.pc = "call" /\ f.wrapper = frame[t].wrapper
          /\ f.handle = h /\ f.pack = frame[t].pack
          /\ f.request = frame[t].request /\ f.output = frame[t].output
      BY <1>0 DEF Frame
    <3>3. Shape(t, f)
      BY <1>0, <1>7, <2>2, <3>0, <3>2 DEF Shape, EnterNative, At, Calling
    <3> QED
      BY <1>0, <1>7, <2>2, <3>1, <3>2, <3>3, FrameUpdate
      DEF EnterNative, ShapeInv, TypeOK
  <2> QED BY <1>7, <2>1, <2>2 DEF EnterNative
<1>8. ASSUME NEW t \in Threads, NEW r \in Requests, UseC(t, r)
      PROVE  ShapeInv'
  <2> DEFINE f == [frame[t] EXCEPT !.pc = "call", !.request = r]
  <2>1. f \in Frame
    BY <1>0, IdleFrame, ZenonT(60) DEF Frame, Calling
  <2>2. /\ f.pc = "call" /\ f.wrapper = frame[t].wrapper
          /\ f.handle = frame[t].handle /\ f.pack = frame[t].pack
          /\ f.request = r /\ f.output = frame[t].output
    BY <1>0 DEF Frame
  <2>3. Shape(t, f)
    BY <1>0, <1>8, <2>2 DEF Shape, UseC, At, Calling
  <2>4. frame' = [frame EXCEPT ![t] = f]
    BY <1>8 DEF UseC
  <2> QED
    BY <1>0, <1>8, <2>1, <2>2, <2>3, <2>4, FrameUpdate
    DEF UseC, ShapeInv, TypeOK
<1>9. ASSUME NEW t \in Threads, CheckRequest(t)
      PROVE  ShapeInv'
  <2> DEFINE refusal == Refusal(ToU8(frame[t].request.source),
                                ToU8(frame[t].request.target),
                                frame[t].request.text)
             place == IF refusal = "OK" THEN "running" ELSE "returned"
             f == [frame[t] EXCEPT !.pc = place, !.status = refusal,
                                   !.written = 0]
  <2>0. /\ refusal \in {"OK", "INVALID_LANGUAGE", "INVALID_UTF8", "TEXT_ERROR",
                        "INVALID_PAIR"}
        /\ place \in Calling
        /\ frame' = [frame EXCEPT ![t] = f]
    BY <1>9, RefusalStatus DEF Calling, CheckRequest
  <2> HIDE DEF refusal, place
  <2>1. f \in Frame
    BY <1>0, <2>0, ZenonT(60) DEF Frame
  <2>2. /\ f.pc = place /\ f.wrapper = frame[t].wrapper
        /\ f.handle = frame[t].handle /\ f.pack = frame[t].pack
        /\ f.request = frame[t].request /\ f.output = frame[t].output
    BY <1>0 DEF Frame
  <2>3. Shape(t, f)
    BY <1>0, <1>9, <2>0, <2>2 DEF Shape, CheckRequest, At, Calling
  <2> QED
    BY <1>0, <1>9, <2>0, <2>1, <2>2, <2>3, FrameUpdate
    DEF CheckRequest, ShapeInv, TypeOK
<1>10. ASSUME NEW t \in Threads, EngineFails(t)
      PROVE  ShapeInv'
  <2> DEFINE f == [frame[t] EXCEPT !.pc = "returned",
                                   !.status = "TRANSLATION_ERROR"]
  <2>1. f \in Frame
    BY <1>0, IdleFrame, ZenonT(60) DEF Frame, Calling
  <2>2. /\ f.pc = "returned" /\ f.wrapper = frame[t].wrapper
          /\ f.handle = frame[t].handle /\ f.pack = frame[t].pack
          /\ f.request = frame[t].request /\ f.output = frame[t].output
    BY <1>0 DEF Frame
  <2>3. Shape(t, f)
    BY <1>0, <1>10, <2>2 DEF Shape, EngineFails, At, Calling
  <2>4. frame' = [frame EXCEPT ![t] = f]
    BY <1>10 DEF EngineFails
  <2> QED
    BY <1>0, <1>10, <2>1, <2>2, <2>3, <2>4, FrameUpdate
    DEF EngineFails, ShapeInv, TypeOK
<1>11. ASSUME NEW t \in Threads, NEW n \in Lengths, EngineAnswers(t, n)
      PROVE  ShapeInv'
  <2> DEFINE output == frame[t].output
             filled == IF BufferStatus(t, n) = "OK"
                       THEN CopyOver(Bytes(t, n), output) ELSE output
             f == [frame[t] EXCEPT !.pc = "returned",
                                   !.status = BufferStatus(t, n),
                                   !.written = n, !.output = filled]
  <2>1. box[frame[t].handle] \in Packs \cup {Null}
    BY <1>0, <1>11
    DEF EngineAnswers, At, Shape, Calling, Frame, ShapeInv, TypeOK
  <2>2. output \in Seq(Packs \cup {Null})
    BY <1>0 DEF Frame
  <2>3. filled \in Seq(Packs \cup {Null}) /\ Len(filled) = Len(output)
    <3>1. n \in Nat
      BY LengthsNatural
    <3>2. Bytes(t, n) \in Seq(Packs \cup {Null})
      BY <2>1, <3>1, ConstantBuffer DEF Bytes
    <3> QED BY <2>2, <3>2, CopyKeepsLength, ZenonT(60)
  <2>4. BufferStatus(t, n) \in {"OK", "BUFFER_TOO_SMALL", "NULL_POINTER"}
    BY <2>2, LengthsNatural DEF BufferStatus
  <2>5. frame' = [frame EXCEPT ![t] = f]
    BY <1>11 DEF EngineAnswers
  <2> HIDE DEF filled
  <2>6. f \in Frame
    BY <1>0, <2>3, <2>4, ZenonT(60) DEF Frame, Calling
  <2>7. /\ f.pc = "returned" /\ f.wrapper = frame[t].wrapper
        /\ f.handle = frame[t].handle /\ f.pack = frame[t].pack
        /\ f.request = frame[t].request /\ f.output = filled
    BY <1>0 DEF Frame
  <2>8. Shape(t, f)
    BY <1>0, <1>11, <2>7 DEF Shape, EngineAnswers, At, Calling
  <2>9. Len(f.output) \in Lengths \cup {0}
    BY <1>0, <2>3, <2>7
  <2> HIDE DEF f
  <2> QED
    BY <1>11, <2>5, <2>6, <2>8, <2>9, FrameUpdate
    DEF EngineAnswers, ShapeInv, TypeOK
<1>12. ASSUME NEW t \in Threads, Retry(t)
      PROVE  ShapeInv'
  <2> DEFINE zeros == [i \in 1..frame[t].written |-> Null]
             f == [frame[t] EXCEPT !.pc = "call", !.round = "retry",
                                   !.output = zeros]
  <2>a. frame[t].written \in Lengths \cup {0}
    BY <1>0 DEF Frame
  <2>0. frame[t].written \in Lengths \cup {0} /\ frame[t].written \in Nat
    BY <2>a, LengthsNatural
  <2>1. zeros \in Seq(Packs \cup {Null}) /\ Len(zeros) = frame[t].written
    BY <2>0, ZeroedBuffer
  <2> HIDE DEF zeros
  <2>2. f \in Frame
    BY <1>0, <2>1, ZenonT(60) DEF Frame, Calling
  <2>3. /\ f.pc = "call" /\ f.wrapper = frame[t].wrapper
        /\ f.handle = frame[t].handle /\ f.pack = frame[t].pack
        /\ f.request = frame[t].request /\ f.output = zeros
    BY <1>0 DEF Frame
  <2>4. Shape(t, f)
    BY <1>0, <1>12, <2>3 DEF Shape, Retry, At, Calling
  <2>5. frame' = [frame EXCEPT ![t] = f]
    BY <1>12 DEF Retry, zeros
  <2>6. Len(f.output) \in Lengths \cup {0}
    BY <2>0, <2>1, <2>3
  <2> HIDE DEF f
  <2> QED
    BY <1>12, <2>2, <2>4, <2>5, <2>6, FrameUpdate DEF Retry, ShapeInv, TypeOK
<1>13. ASSUME NEW t \in Threads,
              At(t, "returned") \/ (t \in CThreads /\ At(t, "opened")),
              Leave(t), box' = box, field' = field, origin' = origin
      PROVE  ShapeInv'
  <2>1. CASE t \in JavaThreads
    BY <1>13, <2>1, IdleFrame, FrameUpdate DEF Leave, ShapeInv, TypeOK
  <2>2. CASE t \notin JavaThreads
    <3> DEFINE f == [Idle EXCEPT !.pc = "closing", !.handle = frame[t].handle]
    <3>0. frame[t].handle \in Boxes
      BY <1>0, <1>13 DEF Shape, At, Calling, Frame
    <3>1. f \in Frame
      BY <3>0, IdleFrame DEF Frame, Calling
    <3>2. /\ f.pc = "closing" /\ f.wrapper = Null
          /\ f.handle = frame[t].handle /\ f.output = <<>>
      BY DEF Idle
    <3>3. Shape(t, f)
      BY <1>0, <2>2, <3>0, <3>2 DEF Shape, Calling
    <3> QED
      BY <1>13, <2>2, <3>1, <3>2, <3>3, FrameUpdate DEF Leave, ShapeInv, TypeOK
  <2> QED BY <2>1, <2>2
<1>14. ASSUME NEW t \in Threads, NEW w \in Wrappers, CloseJava(t, w)
      PROVE  ShapeInv'
  <2> DEFINE f == [Idle EXCEPT !.pc = "clearing", !.wrapper = w,
                               !.handle = field[w]]
  <2>0. field[w] \in Boxes \cup {Null}
    BY DEF ShapeInv, TypeOK
  <2>1. f \in Frame
    BY <1>0, IdleFrame, <2>0, ZenonT(60) DEF Frame, Calling
  <2>2. /\ f.pc = "clearing" /\ f.wrapper = w
          /\ f.handle = field[w] /\ f.pack = Null
          /\ f.request = Null /\ f.output = <<>>
    BY <1>0 DEF Idle
  <2>3. Shape(t, f)
    BY <1>0, <1>14, <2>2, <2>0 DEF Shape, CloseJava, At, Calling
  <2>4. frame' = [frame EXCEPT ![t] = f]
    BY <1>14, <2>0 DEF CloseJava
  <2> QED
    BY <1>0, <1>14, <2>1, <2>2, <2>3, <2>4, <2>0, FrameUpdate
    DEF CloseJava, ShapeInv, TypeOK
<1>15. ASSUME NEW t \in Threads, ClearField(t)
      PROVE  ShapeInv'
  <2> DEFINE f == [frame[t] EXCEPT !.pc = "closing"]
  <2>1. /\ field' \in [Wrappers -> Boxes \cup {Null}]
        /\ \A w \in Wrappers : field'[w] # Null => origin'[w] # Null
    BY <1>15 DEF ClearField, ShapeInv, TypeOK
  <2>2. CASE frame[t].handle = Null
    BY <1>15, <2>1, <2>2, IdleFrame, FrameUpdate
    DEF ClearField, ShapeInv, TypeOK
  <2>3. CASE frame[t].handle # Null
    <3>1. f \in Frame
      BY <1>0 DEF Frame, Calling
    <3>2. /\ f.pc = "closing" /\ f.wrapper = frame[t].wrapper
          /\ f.handle = frame[t].handle /\ f.output = frame[t].output
      BY <1>0 DEF Frame
    <3>3. Shape(t, f)
      BY <1>0, <1>15, <2>3, <3>2 DEF Shape, ClearField, At, Calling
    <3> QED
      BY <1>0, <1>15, <2>1, <2>3, <3>1, <3>2, <3>3, FrameUpdate
      DEF ClearField, ShapeInv, TypeOK
  <2> QED BY <2>2, <2>3
<1>16. ASSUME NEW t \in Threads, CloseBox(t)
      PROVE  ShapeInv'
  <2>1. box' \in [Boxes -> Packs \cup {Null}]
    BY <1>16 DEF CloseBox, ShapeInv, TypeOK
  <2> QED BY <1>16, <2>1, IdleFrame, FrameUpdate DEF CloseBox, ShapeInv, TypeOK
<1>17. ASSUME NEW t \in Threads, FinishCall(t) \/ CloseUnused(t)
       PROVE  ShapeInv'
  <2>1. CASE FinishCall(t)
    BY <1>13, <2>1 DEF FinishCall
  <2>2. CASE CloseUnused(t)
    BY <1>13, <2>2 DEF CloseUnused
  <2> QED BY <1>17, <2>1, <2>2
<1>18. ASSUME NEW t \in Threads, Start(t)
       PROVE  ShapeInv'
  BY <1>1, <1>2, <1>6, <1>14, <1>18 DEF Start
<1>19. ASSUME NEW t \in Threads, Step(t)
       PROVE  ShapeInv'
  BY <1>3, <1>4, <1>5, <1>7, <1>8, <1>9, <1>10, <1>11, <1>12, <1>15, <1>16,
     <1>17, <1>19 DEF Step
<1> QED BY <1>u, <1>18, <1>19 DEF Next

\* At the start nothing is open.
LEMMA HandleInit == Init => HandleInv
PROOF
<1> SUFFICES ASSUME Init PROVE HandleInv
  OBVIOUS
<1>1. ShapeInv
  BY ShapeInit
<1> QED
  BY <1>1, IdleFrame
  DEF HandleInv, Init, WrapperInv, ThreadInv, PairInv, NothingLeaks, OnWrapper,
      Owner, Calling

\* A step inside a call changes nothing that handles depend on.
LEMMA QuietStep ==
  ASSUME HandleInv, ShapeInv', UNCHANGED <<box, field, origin>>,
         NEW t \in Threads,
         \A u \in Threads \ {t} : frame'[u] = frame[u],
         frame'[t].wrapper = frame[t].wrapper,
         frame'[t].handle = frame[t].handle,
         frame'[t].pack = frame[t].pack,
         frame'[t].pc \in Calling,
         frame[t].pc \in Calling \/ (t \in CThreads /\ frame[t].pc = "opened")
  PROVE  HandleInv'
PROOF
<1> USE DEF HandleInv
<1>0. t \in CThreads <=> t \notin JavaThreads
  BY HandlesAssumption DEF Threads
<1>1. WrapperInv'
  BY DEF WrapperInv
<1>2. ThreadInv'
  <2>1. OnWrapper(t, frame'[t])
    BY <1>0 DEF ThreadInv, OnWrapper, Calling
  <2>2. Owner(t, frame'[t]) => Owner(t, frame[t]) /\ frame[t].pc # "closing"
    BY <1>0 DEF Owner, Calling
  <2> QED BY <2>1, <2>2 DEF ThreadInv, OnWrapper
<1>3. PairInv'
  <2>1. Owner(t, frame'[t]) => Owner(t, frame[t])
    BY <1>0 DEF Owner, Calling
  <2>2. Shared(frame'[t])
    BY DEF Shared
  <2> QED BY <2>1, <2>2 DEF PairInv
<1>4. NothingLeaks'
  BY <1>0 DEF NothingLeaks, Owes, Calling
<1> QED BY <1>1, <1>2, <1>3, <1>4

\* Without races no step breaks the ownership of handles.
LEMMA HandleNext == ~CloseRaces /\ HandleInv /\ [Next]_vars => HandleInv'
PROOF
<1> SUFFICES ASSUME ~CloseRaces, HandleInv, [Next]_vars PROVE HandleInv'
  OBVIOUS
<1>s. ShapeInv'
  BY ShapeNext DEF HandleInv
<1>u. CASE UNCHANGED vars
  BY <1>u, <1>s
  DEF vars, HandleInv, WrapperInv, ThreadInv, PairInv, NothingLeaks, OnWrapper,
      Owes
<1>0. ASSUME NEW t \in Threads
      PROVE  /\ frame[t] \in Frame /\ Shape(t, frame[t])
             /\ t \in JavaThreads <=> t \notin CThreads
             /\ frame'[t] \in Frame /\ Shape(t, frame'[t])
             /\ Null \notin Wrappers \cup Boxes \cup Packs
  BY <1>s, HandlesAssumption DEF HandleInv, ShapeInv, TypeOK, Threads
<1>T. /\ box \in [Boxes -> Packs \cup {Null}]
      /\ field \in [Wrappers -> Boxes \cup {Null}]
      /\ origin \in [Wrappers -> Packs \cup {Null}]
      /\ frame \in [Threads -> Frame]
      /\ \A w \in Wrappers : field[w] # Null => origin[w] # Null
  BY DEF HandleInv, ShapeInv, TypeOK
<1>h. ShapeInv /\ WrapperInv /\ ThreadInv /\ PairInv /\ NothingLeaks
  BY DEF HandleInv
<1>1. ASSUME NEW t \in Threads, NEW p \in Packs, NEW w \in Wrappers,
              OpenJava(t, w, p)
      PROVE  HandleInv'
  <2>1. /\ frame[t].pc = "idle" /\ frame[t].wrapper = Null
        /\ frame[t].handle = Null
        /\ frame'[t].pc = "opening" /\ frame'[t].wrapper = w
        /\ frame'[t].handle = Null /\ frame'[t].pack = p
        /\ \A u \in Threads \ {t} : frame'[u] = frame[u]
    BY <1>0, <1>T, <1>1, IdleFrame DEF OpenJava, At, Idle, Shape
  <2>w. WrapperInv'
    BY <1>0, <1>h, <1>T, <1>1, <2>1
    DEF OpenJava, WrapperInv, ThreadInv, Owner, Shape, Calling
  <2>t. ThreadInv'
    BY <1>0, <1>h, <1>T, <1>1, <2>1
    DEF OpenJava, WrapperInv, ThreadInv, PairInv, OnWrapper, Owner, Shared,
        Shape, Calling, MayUse, MayClose, Users
  <2>p. PairInv'
    BY <1>0, <1>h, <1>T, <1>1, <2>1
    DEF OpenJava, PairInv, ThreadInv, OnWrapper, Owner, Shared, Shape, Calling,
        MayUse, MayClose, Users
  <2>n. NothingLeaks'
    BY <1>0, <1>h, <1>T, <1>1, <2>1
    DEF OpenJava, NothingLeaks, WrapperInv, ThreadInv, OnWrapper, Owner, Owes,
        Shape, Calling
  <2> QED BY <1>s, <2>w, <2>t, <2>p, <2>n DEF HandleInv
<1>2. ASSUME NEW t \in Threads, NEW p \in Packs, OpenC(t, p)
      PROVE  HandleInv'
  <2>1. /\ frame[t].pc = "idle" /\ frame[t].wrapper = Null
        /\ frame[t].handle = Null
        /\ frame'[t].pc = "opening" /\ frame'[t].wrapper = Null
        /\ frame'[t].handle = Null /\ frame'[t].pack = p
        /\ \A u \in Threads \ {t} : frame'[u] = frame[u]
    BY <1>0, <1>T, <1>2, IdleFrame DEF OpenC, At, Idle, Shape
  <2>w. WrapperInv'
    BY <1>0, <1>h, <1>T, <1>2, <2>1
    DEF OpenC, WrapperInv, ThreadInv, Owner, Shape, Calling
  <2>t. ThreadInv'
    BY <1>0, <1>h, <1>T, <1>2, <2>1
    DEF OpenC, WrapperInv, ThreadInv, PairInv, OnWrapper, Owner, Shared, Shape,
        Calling, MayUse, MayClose, Users
  <2>p. PairInv'
    BY <1>0, <1>h, <1>T, <1>2, <2>1
    DEF OpenC, PairInv, ThreadInv, OnWrapper, Owner, Shared, Shape, Calling,
        MayUse, MayClose, Users
  <2>n. NothingLeaks'
    BY <1>0, <1>h, <1>T, <1>2, <2>1
    DEF OpenC, NothingLeaks, WrapperInv, ThreadInv, OnWrapper, Owner, Owes,
        Shape, Calling
  <2> QED BY <1>s, <2>w, <2>t, <2>p, <2>n DEF HandleInv
<1>3. ASSUME NEW t \in Threads, OpenFails(t)
      PROVE  HandleInv'
  <2>1. /\ frame[t].pc = "opening"
        /\ frame'[t].pc = "idle" /\ frame'[t].wrapper = Null
        /\ frame'[t].handle = Null
        /\ \A u \in Threads \ {t} : frame'[u] = frame[u]
    BY <1>0, <1>T, <1>3, IdleFrame DEF OpenFails, At, Idle
  <2>w. WrapperInv'
    BY <1>0, <1>h, <1>T, <1>3, <2>1
    DEF OpenFails, WrapperInv, ThreadInv, Owner, Shape, Calling
  <2>t. ThreadInv'
    BY <1>0, <1>h, <1>T, <1>3, <2>1
    DEF OpenFails, WrapperInv, ThreadInv, PairInv, OnWrapper, Owner, Shared,
        Shape, Calling, MayUse, MayClose, Users
  <2>p. PairInv'
    BY <1>0, <1>h, <1>T, <1>3, <2>1
    DEF OpenFails, PairInv, ThreadInv, OnWrapper, Owner, Shared, Shape,
        Calling, MayUse, MayClose, Users
  <2>n. NothingLeaks'
    BY <1>0, <1>h, <1>T, <1>3, <2>1
    DEF OpenFails, NothingLeaks, WrapperInv, ThreadInv, OnWrapper, Owner, Owes,
        Shape, Calling
  <2> QED BY <1>s, <2>w, <2>t, <2>p, <2>n DEF HandleInv
<1>4. ASSUME NEW t \in Threads, NEW b \in Boxes, OpenSucceeds(t, b)
      PROVE  HandleInv'
  <2>1. /\ frame[t].pc = "opening" /\ frame'[t].pc = "opened"
        /\ frame'[t].wrapper = frame[t].wrapper
        /\ frame'[t].handle = b /\ frame'[t].pack = frame[t].pack
        /\ \A u \in Threads \ {t} : frame'[u] = frame[u]
    BY <1>0, <1>T, <1>4, IdleFrame DEF OpenSucceeds, At, Idle
  <2>w. WrapperInv'
    BY <1>0, <1>h, <1>T, <1>4, <2>1
    DEF OpenSucceeds, WrapperInv, ThreadInv, Owner, Shape, Calling
  <2>t. ThreadInv'
    BY <1>0, <1>h, <1>T, <1>4, <2>1
    DEF OpenSucceeds, WrapperInv, ThreadInv, PairInv, OnWrapper, Owner, Shared,
        Shape, Calling, MayUse, MayClose, Users
  <2>p. PairInv'
    BY <1>0, <1>h, <1>T, <1>4, <2>1
    DEF OpenSucceeds, PairInv, ThreadInv, OnWrapper, Owner, Shared, Shape,
        Calling, MayUse, MayClose, Users
  <2>n. NothingLeaks'
    BY <1>0, <1>h, <1>T, <1>4, <2>1
    DEF OpenSucceeds, NothingLeaks, WrapperInv, ThreadInv, OnWrapper, Owner,
        Owes, Shape, Calling
  <2> QED BY <1>s, <2>w, <2>t, <2>p, <2>n DEF HandleInv
<1>5. ASSUME NEW t \in Threads, Construct(t)
      PROVE  HandleInv'
  <2>1. /\ frame[t].pc = "opened" /\ frame'[t].pc = "idle"
        /\ frame'[t].wrapper = Null /\ frame'[t].handle = Null
        /\ \A u \in Threads \ {t} : frame'[u] = frame[u]
    BY <1>0, <1>T, <1>5, IdleFrame DEF Construct, At, Idle
  <2>w. WrapperInv'
    BY <1>0, <1>h, <1>T, <1>5, <2>1
    DEF Construct, WrapperInv, ThreadInv, Owner, Shape, Calling
  <2>t. ThreadInv'
    BY <1>0, <1>h, <1>T, <1>5, <2>1
    DEF Construct, WrapperInv, ThreadInv, PairInv, OnWrapper, Owner, Shared,
        Shape, Calling, MayUse, MayClose, Users
  <2>p. PairInv'
    BY <1>0, <1>h, <1>T, <1>5, <2>1
    DEF Construct, PairInv, ThreadInv, OnWrapper, Owner, Shared, Shape,
        Calling, MayUse, MayClose, Users
  <2>n. NothingLeaks'
    <3>1. /\ frame[t].wrapper \in Wrappers /\ field[frame[t].wrapper] = Null
          /\ field'[frame[t].wrapper] = frame[t].handle
          /\ \A w \in Wrappers : field[w] # Null => field'[w] = field[w]
      BY <1>0, <1>h, <1>T, <1>5, <2>1
      DEF Construct, ThreadInv, OnWrapper, Shape, Frame
    <3>2. ASSUME NEW b \in Boxes, NEW u \in Threads, Owes(u, b)
          PROVE  (\E w \in Wrappers : field'[w] = b) \/ Owes(u, b)'
      BY <2>1, <3>1, <3>2 DEF Owes
    <3> QED BY <1>0, <1>h, <1>5, <3>1, <3>2 DEF Construct, NothingLeaks
  <2> QED BY <1>s, <2>w, <2>t, <2>p, <2>n DEF HandleInv
<1>6. ASSUME NEW t \in Threads, NEW w \in Wrappers, NEW r \in Requests,
              Translate(t, w, r)
      PROVE  HandleInv'
  <2>1. /\ frame[t].pc = "idle" /\ frame[t].wrapper = Null
        /\ frame'[t].pc = "checked" /\ frame'[t].wrapper = w
        /\ frame'[t].handle = Null /\ frame'[t].pack = origin[w]
        /\ \A u \in Threads \ {t} : frame'[u] = frame[u]
    BY <1>0, <1>T, <1>6, IdleFrame DEF Translate, At, Idle, Shape
  <2>w. WrapperInv'
    BY <1>0, <1>h, <1>T, <1>6, <2>1
    DEF Translate, WrapperInv, ThreadInv, Owner, Shape, Calling
  <2>t. ThreadInv'
    BY <1>0, <1>h, <1>T, <1>6, <2>1
    DEF Translate, WrapperInv, ThreadInv, PairInv, OnWrapper, Owner, Shared,
        Shape, Calling, MayUse, MayClose, Users
  <2>p. PairInv'
    <3>1. ASSUME NEW u \in Threads \ {t}, frame[u].wrapper = w
          PROVE  Shared(frame[u])
      <4>1. u \in JavaThreads /\ frame[u].pc # "idle"
        BY <1>0, <3>1 DEF Shape, Idle
      <4>2. frame[u].pc \notin {"clearing", "closing"}
        BY <1>6, <3>1 DEF Translate, MayUse, Users
      <4>3. frame[u].pc \notin {"opening", "opened"}
        BY <1>h, <1>6, <3>1, <4>1 DEF Translate, ThreadInv, OnWrapper
      <4> QED BY <1>0, <4>1, <4>2, <4>3 DEF Shared, Frame, Calling
    <3>2. Shared(frame'[t]) /\ ~Owner(t, frame'[t])
      BY <2>1 DEF Shared, Owner, Calling
    <3> QED BY <1>h, <2>1, <3>1, <3>2 DEF PairInv
  <2>n. NothingLeaks'
    BY <1>0, <1>h, <1>T, <1>6, <2>1
    DEF Translate, NothingLeaks, WrapperInv, ThreadInv, OnWrapper, Owner, Owes,
        Shape, Calling
  <2> QED BY <1>s, <2>w, <2>t, <2>p, <2>n DEF HandleInv
<1>7. ASSUME NEW t \in Threads, EnterNative(t)
      PROVE  HandleInv'
  <2>1. /\ frame[t].pc = "checked" /\ t \in JavaThreads
        /\ frame[t].wrapper \in Wrappers
        /\ \A u \in Threads \ {t} : frame'[u] = frame[u]
        /\ \/ /\ frame'[t].pc = "idle" /\ frame'[t].wrapper = Null
              /\ frame'[t].handle = Null
           \/ /\ frame'[t].pc = "call" /\ frame'[t].wrapper = frame[t].wrapper
              /\ frame'[t].handle = field[frame[t].wrapper]
              /\ frame'[t].pack = frame[t].pack
    BY <1>0, <1>T, <1>7, IdleFrame DEF EnterNative, At, Shape, Frame
  <2>w. WrapperInv'
    BY <1>0, <1>h, <1>T, <1>7, <2>1
    DEF EnterNative, WrapperInv, ThreadInv, Owner, Shape, Calling
  <2>t. ThreadInv'
    BY <1>0, <1>h, <1>T, <1>7, <2>1
    DEF EnterNative, WrapperInv, ThreadInv, PairInv, OnWrapper, Owner, Shared,
        Shape, Calling
  <2>p. PairInv'
    BY <1>0, <1>h, <1>T, <1>7, <2>1
    DEF EnterNative, PairInv, ThreadInv, OnWrapper, Owner, Shared, Shape,
        Calling
  <2>n. NothingLeaks'
    BY <1>0, <1>h, <1>T, <1>7, <2>1
    DEF EnterNative, NothingLeaks, WrapperInv, ThreadInv, OnWrapper, Owner,
        Owes, Shape, Calling
  <2> QED BY <1>s, <2>w, <2>t, <2>p, <2>n DEF HandleInv
<1>8. ASSUME NEW t \in Threads, NEW r \in Requests, UseC(t, r)
      PROVE  HandleInv'
  <2>1. /\ frame'[t].wrapper = frame[t].wrapper
        /\ frame'[t].handle = frame[t].handle
        /\ frame'[t].pack = frame[t].pack /\ frame'[t].pc \in Calling
        /\ \A u \in Threads \ {t} : frame'[u] = frame[u]
        /\ frame[t].pc \in Calling \/ (t \in CThreads /\ frame[t].pc = "opened")
    BY <1>0, <1>T, <1>8 DEF UseC, At, Calling
  <2> QED BY <1>s, <1>8, <2>1, QuietStep DEF UseC
<1>9. ASSUME NEW t \in Threads, CheckRequest(t)
      PROVE  HandleInv'
  <2>1. /\ frame'[t].wrapper = frame[t].wrapper
        /\ frame'[t].handle = frame[t].handle
        /\ frame'[t].pack = frame[t].pack /\ frame'[t].pc \in Calling
        /\ \A u \in Threads \ {t} : frame'[u] = frame[u]
        /\ frame[t].pc \in Calling \/ (t \in CThreads /\ frame[t].pc = "opened")
    BY <1>0, <1>T, <1>9 DEF CheckRequest, At, Calling
  <2> QED BY <1>s, <1>9, <2>1, QuietStep DEF CheckRequest
<1>10. ASSUME NEW t \in Threads, EngineFails(t)
      PROVE  HandleInv'
  <2>1. /\ frame'[t].wrapper = frame[t].wrapper
        /\ frame'[t].handle = frame[t].handle
        /\ frame'[t].pack = frame[t].pack /\ frame'[t].pc \in Calling
        /\ \A u \in Threads \ {t} : frame'[u] = frame[u]
        /\ frame[t].pc \in Calling \/ (t \in CThreads /\ frame[t].pc = "opened")
    BY <1>0, <1>T, <1>10 DEF EngineFails, At, Calling
  <2> QED BY <1>s, <1>10, <2>1, QuietStep DEF EngineFails
<1>11. ASSUME NEW t \in Threads, NEW n \in Lengths, EngineAnswers(t, n)
      PROVE  HandleInv'
  <2>1. /\ frame'[t].wrapper = frame[t].wrapper
        /\ frame'[t].handle = frame[t].handle
        /\ frame'[t].pack = frame[t].pack /\ frame'[t].pc \in Calling
        /\ \A u \in Threads \ {t} : frame'[u] = frame[u]
        /\ frame[t].pc \in Calling \/ (t \in CThreads /\ frame[t].pc = "opened")
    BY <1>0, <1>T, <1>11 DEF EngineAnswers, At, Calling
  <2> QED BY <1>s, <1>11, <2>1, QuietStep DEF EngineAnswers
<1>12. ASSUME NEW t \in Threads, Retry(t)
      PROVE  HandleInv'
  <2>1. /\ frame'[t].wrapper = frame[t].wrapper
        /\ frame'[t].handle = frame[t].handle
        /\ frame'[t].pack = frame[t].pack /\ frame'[t].pc \in Calling
        /\ \A u \in Threads \ {t} : frame'[u] = frame[u]
        /\ frame[t].pc \in Calling \/ (t \in CThreads /\ frame[t].pc = "opened")
    BY <1>0, <1>T, <1>12 DEF Retry, At, Calling
  <2> QED BY <1>s, <1>12, <2>1, QuietStep DEF Retry
<1>13. ASSUME NEW t \in Threads,
              At(t, "returned") \/ (t \in CThreads /\ At(t, "opened")),
              Leave(t), box' = box, field' = field, origin' = origin
      PROVE  HandleInv'
  <2>1. /\ frame[t].pc \in Calling \/ (t \in CThreads /\ frame[t].pc = "opened")
        /\ \A u \in Threads \ {t} : frame'[u] = frame[u]
        /\ frame'[t].wrapper = Null
        /\ t \in JavaThreads => frame'[t].pc = "idle" /\ frame'[t].handle = Null
        /\ t \in CThreads => /\ frame'[t].pc = "closing"
                             /\ frame'[t].handle = frame[t].handle
    BY <1>0, <1>T, <1>13, IdleFrame DEF Leave, At, Calling, Idle
  <2>w. WrapperInv'
    BY <1>0, <1>h, <1>T, <1>13, <2>1
    DEF WrapperInv, ThreadInv, Owner, Shape, Calling
  <2>t. ThreadInv'
    BY <1>0, <1>h, <1>T, <1>13, <2>1
    DEF WrapperInv, ThreadInv, PairInv, OnWrapper, Owner, Shared, Shape,
        Calling
  <2>p. PairInv'
    BY <1>0, <1>h, <1>T, <1>13, <2>1
    DEF PairInv, ThreadInv, OnWrapper, Owner, Shared, Shape, Calling
  <2>n. NothingLeaks'
    BY <1>0, <1>h, <1>T, <1>13, <2>1
    DEF NothingLeaks, WrapperInv, ThreadInv, OnWrapper, Owner, Owes, Shape,
        Calling
  <2> QED BY <1>s, <2>w, <2>t, <2>p, <2>n DEF HandleInv
<1>14. ASSUME NEW t \in Threads, NEW w \in Wrappers, CloseJava(t, w)
      PROVE  HandleInv'
  <2>1. /\ frame[t].pc = "idle" /\ frame[t].wrapper = Null
        /\ frame'[t].pc = "clearing" /\ frame'[t].wrapper = w
        /\ frame'[t].handle = field[w]
        /\ \A u \in Threads \ {t} : frame'[u] = frame[u]
    BY <1>0, <1>T, <1>14, IdleFrame DEF CloseJava, At, Idle, Shape
  <2>w. WrapperInv'
    BY <1>0, <1>h, <1>T, <1>14, <2>1
    DEF CloseJava, WrapperInv, ThreadInv, Owner, Shape, Calling
  <2>t. ThreadInv'
    BY <1>0, <1>h, <1>T, <1>14, <2>1
    DEF CloseJava, WrapperInv, ThreadInv, PairInv, OnWrapper, Owner, Shared,
        Shape, Calling, MayClose, Users
  <2>p. PairInv'
    BY <1>0, <1>h, <1>T, <1>14, <2>1
    DEF CloseJava, PairInv, ThreadInv, OnWrapper, Owner, Shared, Shape,
        Calling, MayClose, Users
  <2>n. NothingLeaks'
    BY <1>0, <1>h, <1>T, <1>14, <2>1
    DEF CloseJava, NothingLeaks, WrapperInv, ThreadInv, OnWrapper, Owner, Owes,
        Shape, Calling
  <2> QED BY <1>s, <2>w, <2>t, <2>p, <2>n DEF HandleInv
<1>15. ASSUME NEW t \in Threads, ClearField(t)
      PROVE  HandleInv'
  <2>1. /\ frame[t].pc = "clearing" /\ t \in JavaThreads
        /\ frame[t].wrapper \in Wrappers
        /\ \A u \in Threads \ {t} : frame'[u] = frame[u]
        /\ \/ /\ frame'[t].pc = "idle" /\ frame'[t].wrapper = Null
              /\ frame'[t].handle = Null /\ frame[t].handle = Null
           \/ /\ frame'[t].pc = "closing"
              /\ frame'[t].wrapper = frame[t].wrapper
              /\ frame'[t].handle = frame[t].handle /\ frame[t].handle # Null
    BY <1>0, <1>T, <1>15, IdleFrame DEF ClearField, At, Shape, Frame
  <2>w. WrapperInv'
    BY <1>0, <1>h, <1>T, <1>15, <2>1
    DEF ClearField, WrapperInv, ThreadInv, Owner, Shape, Calling
  <2>t. ThreadInv'
    BY <1>0, <1>h, <1>T, <1>15, <2>1
    DEF ClearField, WrapperInv, ThreadInv, PairInv, OnWrapper, Owner, Shared,
        Shape, Calling
  <2>p. PairInv'
    BY <1>0, <1>h, <1>T, <1>15, <2>1
    DEF ClearField, PairInv, ThreadInv, OnWrapper, Owner, Shared, Shape,
        Calling
  <2>n. NothingLeaks'
    BY <1>0, <1>h, <1>T, <1>15, <2>1
    DEF ClearField, NothingLeaks, WrapperInv, ThreadInv, OnWrapper, Owner,
        Owes, Shape, Calling
  <2> QED BY <1>s, <2>w, <2>t, <2>p, <2>n DEF HandleInv
<1>16. ASSUME NEW t \in Threads, CloseBox(t)
      PROVE  HandleInv'
  <2>1. /\ frame[t].pc = "closing" /\ frame[t].handle \in Boxes
        /\ frame'[t].pc = "idle" /\ frame'[t].wrapper = Null
        /\ frame'[t].handle = Null
        /\ \A u \in Threads \ {t} : frame'[u] = frame[u]
    BY <1>0, <1>T, <1>16, IdleFrame DEF CloseBox, At, Shape, Frame
  <2>w. WrapperInv'
    BY <1>0, <1>h, <1>T, <1>16, <2>1
    DEF CloseBox, WrapperInv, ThreadInv, Owner, Shape, Calling
  <2>t. ThreadInv'
    BY <1>0, <1>h, <1>T, <1>16, <2>1
    DEF CloseBox, WrapperInv, ThreadInv, PairInv, OnWrapper, Owner, Shared,
        Shape, Calling
  <2>p. PairInv'
    BY <1>0, <1>h, <1>T, <1>16, <2>1
    DEF CloseBox, PairInv, ThreadInv, OnWrapper, Owner, Shared, Shape, Calling
  <2>n. NothingLeaks'
    BY <1>0, <1>h, <1>T, <1>16, <2>1
    DEF CloseBox, NothingLeaks, WrapperInv, ThreadInv, OnWrapper, Owner, Owes,
        Shape, Calling
  <2> QED BY <1>s, <2>w, <2>t, <2>p, <2>n DEF HandleInv
<1>17. ASSUME NEW t \in Threads, FinishCall(t) \/ CloseUnused(t)
       PROVE  HandleInv'
  <2>1. CASE FinishCall(t)
    BY <1>13, <2>1 DEF FinishCall
  <2>2. CASE CloseUnused(t)
    BY <1>13, <2>2 DEF CloseUnused
  <2> QED BY <1>17, <2>1, <2>2
<1>18. ASSUME NEW t \in Threads, Start(t)
       PROVE  HandleInv'
  BY <1>1, <1>2, <1>6, <1>14, <1>18 DEF Start
<1>19. ASSUME NEW t \in Threads, Step(t)
       PROVE  HandleInv'
  BY <1>3, <1>4, <1>5, <1>7, <1>8, <1>9, <1>10, <1>11, <1>12, <1>15, <1>16,
     <1>17, <1>19 DEF Step
<1> QED BY <1>u, <1>18, <1>19 DEF Next

\* Ownership is enough for the three properties of handles.
LEMMA HandlesHold ==
  ASSUME ~CloseRaces
  PROVE  HandleInv => LiveWhileUsed /\ ClosedOnce /\ NothingLeaks
PROOF
<1> SUFFICES ASSUME HandleInv PROVE LiveWhileUsed /\ ClosedOnce
  BY DEF HandleInv
<1> USE DEF HandleInv
<1>0. ASSUME NEW t \in Threads
      PROVE  /\ frame[t] \in Frame /\ Shape(t, frame[t])
             /\ t \in JavaThreads <=> t \notin CThreads
  BY HandlesAssumption DEF ShapeInv, TypeOK, Threads
<1>1. LiveWhileUsed
  <2> SUFFICES ASSUME NEW t \in Threads, frame[t].pc \in Calling
               PROVE  /\ frame[t].pack # Null
                      /\ box[frame[t].handle] = frame[t].pack
    BY DEF LiveWhileUsed
  <2>1. frame[t].pack # Null
    BY <1>0 DEF Shape
  <2>2. CASE t \in JavaThreads
    <3>1. frame[t].wrapper \in Wrappers
      BY <1>0, <2>2 DEF Shape, Frame, Calling
    <3> QED BY <2>1, <2>2, <3>1 DEF ThreadInv, OnWrapper, WrapperInv
  <2>3. CASE t \in CThreads
    BY <2>1, <2>3 DEF ThreadInv, Owner, Calling
  <2> QED BY <1>0, <2>2, <2>3, <2>1
<1>2. ClosedOnce
  <2> SUFFICES ASSUME NEW t \in Threads, At(t, "closing")
               PROVE  /\ frame[t].handle # Null
                      /\ box[frame[t].handle] # Null
                      /\ \A u \in Threads \ {t} :
                           At(u, "closing") => frame[u].handle # frame[t].handle
    BY DEF ClosedOnce
  <2>1. \A u \in Threads : At(u, "closing") => Owner(u, frame[u])
    BY DEF At, Owner
  <2> QED BY <1>0, <2>1 DEF ThreadInv, PairInv, Shape, At
<1> QED BY <1>1, <1>2

-------------------------------------------------------------------------------
\* Requests and buffers.

\* What the request, the buffer and the outcome of a call have to do with each
\* other.
Contents(f) ==
  /\ f.pc \in {"checked"} \cup Calling => EnsureLanguageIds(f.request)
  /\ f.pc \notin Calling => f.round = "probe"
  /\ f.round = "probe" => f.output = <<>>
  /\ (f.pc \in Calling /\ f.round = "retry" /\ f.pack \notin Sampled) =>
       Len(f.output) = Length(f.pack, f.request)
  /\ f.pc = "returned" =>
       /\ f.status = "OK" =>
            /\ f.written > 0
            /\ f.written <= Len(f.output)
            /\ \A i \in 1..f.written : f.output[i] = f.pack
       /\ (f.status = "BUFFER_TOO_SMALL" /\ f.pack \notin Sampled) =>
            f.round = "probe" /\ f.written = Length(f.pack, f.request)

ContentsInv == \A t \in Threads : Contents(frame[t])

\* An idle thread has no request and no buffer.
LEMMA IdleContents == Contents(Idle)
PROOF BY DEF Contents, Idle, Calling

\* At the start no thread has a request or a buffer.
LEMMA ContentsInit == Init => ContentsInv
PROOF BY IdleContents DEF Init, ContentsInv

\* A step of a thread changes its own frame only.
LEMMA ContentsStep ==
  ASSUME ContentsInv, ShapeInv, NEW t \in Threads, NEW f, Contents(f),
         frame' = [frame EXCEPT ![t] = f]
  PROVE  ContentsInv'
PROOF
<1>1. \A u \in Threads : frame'[u] = IF u = t THEN f ELSE frame[u]
  BY DEF ShapeInv, TypeOK
<1> HIDE DEF Contents
<1> QED BY <1>1 DEF ContentsInv

\* No step breaks what a frame holds, as long as calls run on the translator
\* that their caller opened.
LEMMA ContentsNext ==
  ASSUME ShapeInv, LiveWhileUsed, ContentsInv, [Next]_vars
  PROVE  ContentsInv'
PROOF
<1> USE HandlesAssumption
<1>u. CASE UNCHANGED vars
  BY <1>u DEF vars, ContentsInv
<1>0. ASSUME NEW t \in Threads
      PROVE  frame[t] \in Frame /\ Contents(frame[t])
             /\ frame[t].output \in Seq(Packs \cup {Null})
             /\ Shape(t, frame[t])
  BY DEF ShapeInv, TypeOK, ContentsInv, Frame
<1>i. ASSUME NEW t \in Threads, frame' = [frame EXCEPT ![t] = Idle]
      PROVE  ContentsInv'
  BY <1>i, IdleContents, ContentsStep
<1>1. ASSUME NEW t \in Threads, Start(t)
      PROVE  ContentsInv'
  <2>1. ASSUME NEW w \in Wrappers, NEW p \in Packs,
              OpenJava(t, w, p)
        PROVE  ContentsInv'
    <3> DEFINE f == [Idle EXCEPT !.pc = "opening", !.wrapper = w, !.pack = p]
    <3>1. Contents(f)
      BY DEF Contents, Idle, Calling
    <3> QED BY <2>1, <3>1, ContentsStep DEF OpenJava
  <2>2. ASSUME NEW p \in Packs, OpenC(t, p)
        PROVE  ContentsInv'
    <3> DEFINE f == [Idle EXCEPT !.pc = "opening", !.pack = p]
    <3>1. Contents(f)
      BY DEF Contents, Idle, Calling
    <3> QED BY <2>2, <3>1, ContentsStep DEF OpenC
  <2>3. ASSUME NEW w \in Wrappers, NEW r \in Requests,
              Translate(t, w, r)
        PROVE  ContentsInv'
    <3> DEFINE f == [Idle EXCEPT !.pc = "checked", !.wrapper = w,
                                 !.pack = origin[w], !.request = r]
    <3>1. Contents(f)
      BY <2>3 DEF Contents, Idle, Calling, Translate
    <3> QED BY <2>3, <3>1, ContentsStep DEF Translate
  <2>4. ASSUME NEW w \in Wrappers, CloseJava(t, w)
        PROVE  ContentsInv'
    <3> DEFINE f == [Idle EXCEPT !.pc = "clearing", !.wrapper = w,
                                 !.handle = field[w]]
    <3>1. Contents(f)
      BY DEF Contents, Idle, Calling
    <3> QED BY <2>4, <3>1, ContentsStep DEF CloseJava
  <2> QED BY <1>1, <2>1, <2>2, <2>3, <2>4 DEF Start
<1>2. ASSUME NEW t \in Threads, NEW b \in Boxes, OpenSucceeds(t, b)
      PROVE  ContentsInv'
  <2> DEFINE f == [frame[t] EXCEPT !.pc = "opened", !.handle = b]
  <2>1. Contents(f)
    BY <1>0, <1>2 DEF Contents, Frame, Calling, OpenSucceeds, At
  <2> QED BY <1>2, <2>1, ContentsStep DEF OpenSucceeds
<1>3. ASSUME NEW t \in Threads, EnterNative(t)
      PROVE  ContentsInv'
  <2> DEFINE f == [frame[t] EXCEPT !.pc = "call",
                                   !.handle = field[frame[t].wrapper]]
  <2>1. Contents(f)
    BY <1>0, <1>3 DEF Contents, Frame, Calling, EnterNative, At
  <2>2. frame' = [frame EXCEPT ![t] = Idle] \/ frame' = [frame EXCEPT ![t] = f]
    BY <1>3 DEF EnterNative
  <2> QED BY <1>i, <2>1, <2>2, ContentsStep
<1>4. ASSUME NEW t \in Threads, NEW r \in Requests, UseC(t, r)
      PROVE  ContentsInv'
  <2> DEFINE f == [frame[t] EXCEPT !.pc = "call", !.request = r]
  <2>1. Contents(f)
    BY <1>0, <1>4, SMTT(30) DEF Contents, Frame, Calling, UseC, At
  <2>2. frame' = [frame EXCEPT ![t] = f]
    BY <1>4 DEF UseC
  <2> HIDE DEF f
  <2> QED BY <2>1, <2>2, ContentsStep
<1>5. ASSUME NEW t \in Threads, CheckRequest(t)
      PROVE  ContentsInv'
  <2> DEFINE refusal == Refusal(ToU8(frame[t].request.source),
                                ToU8(frame[t].request.target),
                                frame[t].request.text)
             place == IF refusal = "OK" THEN "running" ELSE "returned"
             f == [frame[t] EXCEPT !.pc = place, !.status = refusal,
                                   !.written = 0]
  <2>1. /\ refusal # "BUFFER_TOO_SMALL"
        /\ place \in Calling
        /\ place = "returned" => refusal # "OK"
        /\ frame' = [frame EXCEPT ![t] = f]
    BY <1>5, RefusalStatus DEF Calling, CheckRequest
  <2> HIDE DEF refusal, place
  <2>2. Contents(f)
    BY <1>0, <1>5, <2>1 DEF Contents, Frame, Calling, CheckRequest, At
  <2> QED BY <2>1, <2>2, ContentsStep
<1>6. ASSUME NEW t \in Threads, EngineFails(t)
      PROVE  ContentsInv'
  <2> DEFINE f == [frame[t] EXCEPT !.pc = "returned",
                                   !.status = "TRANSLATION_ERROR"]
  <2>1. Contents(f)
    BY <1>0, <1>6 DEF Contents, Frame, Calling, EngineFails, At
  <2> QED BY <1>6, <2>1, ContentsStep, ZenonT(60) DEF EngineFails
<1>7. ASSUME NEW t \in Threads, NEW n \in Lengths, EngineAnswers(t, n)
      PROVE  ContentsInv'
  <2> DEFINE greedy == frame[t].pack \notin Sampled
             old == frame[t].output
             status == BufferStatus(t, n)
             filled == IF status = "OK" THEN CopyOver(Bytes(t, n), old) ELSE old
             f == [frame[t] EXCEPT !.pc = "returned", !.status = status,
                                   !.written = n, !.output = filled]
  <2>1. frame' = [frame EXCEPT ![t] = f]
    BY <1>7 DEF EngineAnswers
  <2>2. /\ n \in Nat /\ n > 0
        /\ frame[t].pc \in Calling
        /\ box[frame[t].handle] = frame[t].pack
        /\ greedy => n = Length(frame[t].pack, frame[t].request)
    BY <1>7, LengthsNatural
    DEF EngineAnswers, MayAnswer, At, Calling, LiveWhileUsed
  <2>3. /\ status = "OK" => Len(old) >= n /\ frame[t].round # "probe"
        /\ status = "BUFFER_TOO_SMALL" => Len(old) < n
    BY <1>0, <2>2 DEF BufferStatus
  <2>4. Len(filled) = Len(old)
    <3>1. frame[t].pack \in Packs \cup {Null}
      BY <1>0 DEF Frame
    <3>2. Bytes(t, n) \in Seq(Packs \cup {Null})
      BY <2>2, <3>1, ConstantBuffer DEF Bytes
    <3> QED BY <1>0, <3>2, CopyKeepsLength, ZenonT(60)
  <2>5. status = "OK" => \A i \in 1..n : filled[i] = frame[t].pack
    BY <1>0, <2>2, <2>3 DEF CopyOver, Bytes
  <2>6. frame[t].round = "probe" => filled = old
    BY <2>3
  <2> HIDE DEF filled, status
  <2>7. /\ f.pc = "returned" /\ f.round = frame[t].round /\ f.status = status
        /\ f.written = n /\ f.output = filled /\ f.pack = frame[t].pack
        /\ f.request = frame[t].request
    BY <1>0 DEF Frame
  <2> HIDE DEF f
  <2>8. Contents(f)
    <3>1. (frame[t].round = "retry" /\ greedy) => Len(old) = n
      BY <1>0, <2>2 DEF Contents
    <3>2. status = "BUFFER_TOO_SMALL" /\ greedy => frame[t].round = "probe"
      BY <1>0, <2>2, <2>3, <3>1 DEF Frame
    <3> QED BY <1>0, <2>2, <2>3, <2>4, <2>5, <2>6, <2>7, <3>2
            DEF Contents, Calling
  <2> QED BY <2>1, <2>8, ContentsStep DEF f
<1>8. ASSUME NEW t \in Threads, Retry(t)
      PROVE  ContentsInv'
  <2> DEFINE zeros == [i \in 1..frame[t].written |-> Null]
             f == [frame[t] EXCEPT !.pc = "call", !.round = "retry",
                                   !.output = zeros]
  <2>1. frame' = [frame EXCEPT ![t] = f]
    BY <1>8 DEF Retry
  <2>2. frame[t].written \in Nat
    BY <1>0, LengthsNatural DEF Frame
  <2>3. Len(zeros) = frame[t].written
    BY <2>2, ZeroedBuffer
  <2>4. frame[t].status = "BUFFER_TOO_SMALL"
    <3>1. frame[t].pc = "returned" /\ frame[t].round = "probe"
      BY <1>8 DEF Retry, At
    <3>2. Len(frame[t].output) = 0
      BY <1>0, <3>1 DEF Contents
    <3> QED BY <1>0, <1>8, <2>2, <3>1, <3>2 DEF Contents, Retry
  <2>5. /\ EnsureLanguageIds(frame[t].request)
       
        /\ frame[t].pack \notin Sampled =>
             frame[t].written = Length(frame[t].pack, frame[t].request)
    BY <1>0, <1>8, <2>4 DEF Contents, Retry, At, Calling
  <2> HIDE DEF zeros
  <2>6. Contents(f)
    BY <1>0, <2>3, <2>5 DEF Contents, Frame, Calling
  <2> QED BY <2>1, <2>6, ContentsStep
<1>9. ASSUME NEW t \in Threads, Leave(t)
      PROVE  ContentsInv'
  <2> DEFINE f == [Idle EXCEPT !.pc = "closing", !.handle = frame[t].handle]
  <2>1. Contents(f)
    BY DEF Contents, Idle, Calling
  <2>2. frame' = [frame EXCEPT ![t] = Idle] \/ frame' = [frame EXCEPT ![t] = f]
    BY <1>9 DEF Leave
  <2> QED BY <1>i, <2>1, <2>2, ContentsStep
<1>10. ASSUME NEW t \in Threads, ClearField(t)
       PROVE  ContentsInv'
  <2> DEFINE f == [frame[t] EXCEPT !.pc = "closing"]
  <2>1. Contents(f)
    BY <1>0, <1>10 DEF Contents, Frame, Calling, ClearField, At
  <2>2. frame' = [frame EXCEPT ![t] = Idle] \/ frame' = [frame EXCEPT ![t] = f]
    BY <1>10 DEF ClearField
  <2> QED BY <1>i, <2>1, <2>2, ContentsStep
<1>11. ASSUME NEW t \in Threads, Step(t)
       PROVE  ContentsInv'
  <2>1. CASE OpenFails(t) \/ Construct(t) \/ CloseBox(t)
    BY <1>i, <2>1 DEF OpenFails, Construct, CloseBox
  <2>2. CASE FinishCall(t) \/ CloseUnused(t)
    BY <1>9, <2>2 DEF FinishCall, CloseUnused
  <2> QED BY <1>2, <1>3, <1>4, <1>5, <1>6, <1>7, <1>8, <1>10, <1>11, <2>1, <2>2
          DEF Step
<1> QED BY <1>u, <1>1, <1>11 DEF Next

\* What a frame holds is enough for the properties of requests and answers.
LEMMA ContentsHold ==
  ASSUME ShapeInv, ContentsInv
  PROVE  AnswerWhole /\ LanguagesKept /\ RetryFits
PROOF
<1> USE HandlesAssumption
<1>0. ASSUME NEW t \in Threads
      PROVE  /\ frame[t] \in Frame /\ Contents(frame[t])
             /\ frame[t].output \in Seq(Packs \cup {Null})
             /\ frame[t].written \in Nat
             /\ Shape(t, frame[t])
  BY LengthsNatural DEF ShapeInv, TypeOK, ContentsInv, Frame
<1>1. AnswerWhole
  <2> SUFFICES ASSUME NEW t \in Threads, At(t, "returned"),
                      frame[t].status = "OK"
               PROVE  /\ frame[t].written > 0
                     
                      /\ Result(t) = [i \in 1..frame[t].written |-> frame[t].pack]
    BY DEF AnswerWhole
  <2>1. /\ frame[t].written > 0
        /\ frame[t].written <= Len(frame[t].output)
        /\ \A i \in 1..frame[t].written : frame[t].output[i] = frame[t].pack
    BY <1>0 DEF Contents, At
  <2>2. Result(t) = [i \in 1..frame[t].written |-> frame[t].output[i]]
    BY <1>0, <2>1 DEF Result
  <2> QED BY <2>1, <2>2
<1>2. LanguagesKept
  <2> SUFFICES ASSUME NEW t \in Threads, At(t, "running")
               PROVE  LET r == frame[t].request
                      IN ToU8(r.source) = r.source /\ ToU8(r.target) = r.target
    BY DEF LanguagesKept
  <2>1. EnsureLanguageIds(frame[t].request)
    BY <1>0 DEF Contents, At, Calling
  <2>2. \A id \in 0..255 : id % 256 = id
    OBVIOUS
  <2> QED BY <2>1, <2>2 DEF EnsureLanguageIds, FitsU8, ToU8
<1>3. RetryFits
  BY <1>0 DEF RetryFits, Contents, At
<1> QED BY <1>1, <1>2, <1>3

-------------------------------------------------------------------------------
\* The theorems.

\* Every state of the handles, the wrappers and the callers has its type, and a
\* frame the shape of its place, even when a wrapper is closed while in use.
THEOREM TypeCorrect == Spec => []TypeOK
<1>1. ShapeInv => TypeOK
  BY DEF ShapeInv
<1> QED BY <1>1, ShapeInit, ShapeNext, PTL DEF Spec

\* Without races both inductive invariants hold in every state.
LEMMA Invariance ==
  ASSUME ~CloseRaces
  PROVE  Spec => [](HandleInv /\ ContentsInv)
<1>1. Init => HandleInv /\ ContentsInv
  BY HandleInit, ContentsInit
<1>2. HandleInv /\ ContentsInv /\ [Next]_vars => (HandleInv /\ ContentsInv)'
  BY HandleNext, HandlesHold, ContentsNext DEF HandleInv
<1> QED BY <1>1, <1>2, PTL DEF Spec

\* As long as no wrapper is closed while a thread is in a call on it, a
\* translate export never runs on a freed translator or on the wrong one.
THEOREM TranslatorsStayOpen ==
  ASSUME ~CloseRaces
  PROVE  Spec => []LiveWhileUsed
<1>1. HandleInv => LiveWhileUsed
  BY HandlesHold
<1> QED BY <1>1, Invariance, PTL

\* Under the same assumption no translator is closed twice.
THEOREM ClosedAtMostOnce ==
  ASSUME ~CloseRaces
  PROVE  Spec => []ClosedOnce
<1>1. HandleInv => ClosedOnce
  BY HandlesHold
<1> QED BY <1>1, Invariance, PTL

\* Under the same assumption a wrapper or a thread is left to close every
\* translator that was opened.
THEOREM NoTranslatorLost ==
  ASSUME ~CloseRaces
  PROVE  Spec => []NothingLeaks
<1>1. HandleInv => NothingLeaks
  BY HandlesHold
<1> QED BY <1>1, Invariance, PTL

\* Both together: opened translators are closed exactly once.
THEOREM ClosedJustOnce ==
  ASSUME ~CloseRaces
  PROVE  Spec => []ClosedExactlyOnce
BY ClosedAtMostOnce, NoTranslatorLost, PTL DEF ClosedExactlyOnce

\* Under the same assumption, and whatever length each translation has, a caller
\* takes one whole translation or none.
THEOREM AnswersAreWhole ==
  ASSUME ~CloseRaces
  PROVE  Spec => []AnswerWhole
<1>1. HandleInv /\ ContentsInv => AnswerWhole
  BY ContentsHold DEF HandleInv
<1> QED BY <1>1, Invariance, PTL

\* The engine is asked for the languages its caller named.
THEOREM LanguagesAreKept ==
  ASSUME ~CloseRaces
  PROVE  Spec => []LanguagesKept
<1>1. HandleInv /\ ContentsInv => LanguagesKept
  BY ContentsHold DEF HandleInv
<1> QED BY <1>1, Invariance, PTL

\* Under the same assumption the second call of a caller, on a greedy pack, is
\* never told that its buffer is too small.
THEOREM RetriesFit ==
  ASSUME ~CloseRaces
  PROVE  Spec => []RetryFits
<1>1. HandleInv /\ ContentsInv => RetryFits
  BY ContentsHold DEF HandleInv
<1> QED BY <1>1, Invariance, PTL

\* The length and the bytes of two calls serve a caller as one call would.
THEOREM AnswersAreServed ==
  ASSUME ~CloseRaces
  PROVE  Spec => []AnswersServe
BY AnswersAreWhole, RetriesFit, PTL DEF AnswersServe

===============================================================================
