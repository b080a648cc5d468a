-------------------------- MODULE OfflineOpenProofs --------------------------
(***************************************************************************)
(* For every set of callers, every pack, every disk and every set of       *)
(* well-formed scripts: nothing is held between calls and after a command, *)
(* no load thread outlives its call, and a path that was configured in     *)
(* time is the one the process runs on.                                    *)
(***************************************************************************)
EXTENDS OfflineOpen, TLAPS

USE OpenAssumption

SectionSet == [steps : Seq(STRING) \ {<<>>}, tolerated : SUBSET STRING]

(* The variables are functions of the callers, and the programs are the    *)
(* scripts of some scenario.                                               *)
ShapeInv ==
  /\ DOMAIN section = Callers /\ DOMAIN pos = Callers /\ DOMAIN outcome = Callers
  /\ DOMAIN work = Callers /\ DOMAIN session = Callers /\ DOMAIN opened = Callers
  /\ \A c \in Callers :
       /\ session[c] = [role \in OrtRole |-> session[c][role]]
       /\ opened[c] \in BOOLEAN
       /\ "dylib" \in DOMAIN work[c]
ProgramsInv ==
  \A c \in Callers :
    /\ command[c].program \in Seq(SectionSet)
    /\ \A i \in DOMAIN command[c].program : WellFormed(command[c].program[i].steps)

(* A running caller is at a step of its program; what it holds it acquired *)
(* earlier in the section.                                                 *)
InProgram(c) ==
  /\ section[c] \in DOMAIN command[c].program
  /\ pos[c] \in DOMAIN Steps(c)
Free(c) == session[c] = NoSessions /\ ~ opened[c]
NoneLoads(c) == \A role \in OrtRole : session[c][role] # Loading
CallerInv(c) ==
  /\ outcome[c] = "running" => InProgram(c)
  /\ outcome[c] # "running" => Free(c)
  /\ ~ Free(c) => After(Acquiring, Steps(c), pos[c])
  /\ ~ NoneLoads(c) => At(c, {"join_loads"})
  /\ session[c]["DecoderWithPast"] # Loading

(* While a path configured in time exists, it is the only one in use.      *)
EarlyInv ==
  early # None =>
    /\ override = early /\ runtime \in {None, early}
    /\ \A c \in Callers : work[c].dylib \in {None, early}

HeldInv == ShapeInv /\ ProgramsInv /\ \A c \in Callers : CallerInv(c)
IInv == HeldInv /\ EarlyInv

----------------------------------------------------------------------------
(* What a step of a caller does to its control, whatever it reads.         *)
EndControl(c) ==
  /\ pos' = [pos EXCEPT ![c] = 1]
  /\ IF section[c] < Len(command[c].program)
     THEN section' = [section EXCEPT ![c] = @ + 1] /\ UNCHANGED outcome
     ELSE outcome' = [outcome EXCEPT ![c] = "ok"] /\ UNCHANGED section
Forward(c) ==
  IF pos[c] = Len(Steps(c)) THEN EndControl(c)
  ELSE pos' = [pos EXCEPT ![c] = @ + 1] /\ UNCHANGED <<section, outcome>>
LeaveControl(c) ==
  \/ EndControl(c)
  \/ (\E status : outcome' = [outcome EXCEPT ![c] = status]) /\ UNCHANGED <<section, pos>>
Goes(c) == Forward(c) /\ UNCHANGED <<session, opened>>
Exits(c) == LeaveControl(c) /\ Drop(c)

(* The locals change for this caller only, and name no new library.        *)
LocalApart(c) ==
  /\ DOMAIN work' = Callers /\ "dylib" \in DOMAIN work'[c]
  /\ \A d \in Callers \ {c} : work'[d] = work[d]
LocalQuiet(c) == LocalApart(c) /\ work'[c].dylib \in {None, work[c].dylib}

(* A step that computes or reads, and then goes on or leaves.              *)
LocallyQuiet(c, locally) ==
  "dylib" \in DOMAIN locally /\ locally.dylib \in {None, work[c].dylib}
QuietStep(c) ==
  /\ Goes(c) \/ Exits(c)
  /\ LocalQuiet(c)
  /\ UNCHANGED <<command, override, runtime, early>>

LEMMA DecideIsQuiet ==
  ASSUME HeldInv, NEW c \in Callers, NEW fine, NEW locally, NEW status,
         Decide(c, fine, locally, status), LocallyQuiet(c, locally)
  PROVE  QuietStep(c)
<1>1. work' \in {[work EXCEPT ![c] = locally], [work EXCEPT ![c] = Blank]}
  BY DEF Decide, Advance, EndSection, Fail, Leave
<1>2. LocallyQuiet(c, Blank)
  BY DEF LocallyQuiet, Blank
<1>3. LocalQuiet(c)
  BY <1>1, <1>2 DEF LocalQuiet, LocalApart, LocallyQuiet, HeldInv, ShapeInv
<1>4. (Goes(c) \/ Exits(c)) /\ UNCHANGED <<command, override, runtime, early>>
  BY DEF Decide, Goes, Exits, Forward, LeaveControl, EndControl, Advance, EndSection, Fail,
         Leave, process
<1> QED BY <1>3, <1>4 DEF QuietStep

----------------------------------------------------------------------------
(* Programs and their steps stay where they are.                           *)
LEMMA ProgramFacts ==
  ASSUME HeldInv, NEW c \in Callers
  PROVE  /\ Len(command[c].program) \in Nat
         /\ DOMAIN command[c].program = 1 .. Len(command[c].program)
         /\ \A i \in DOMAIN command[c].program :
              LET steps == command[c].program[i].steps IN
              /\ Len(steps) \in Nat \ {0} /\ DOMAIN steps = 1 .. Len(steps)
              /\ WellFormed(steps)
<1>1. command[c].program \in Seq(SectionSet)
  BY DEF HeldInv, ProgramsInv
<1>2. SUFFICES ASSUME NEW i \in DOMAIN command[c].program
               PROVE  LET steps == command[c].program[i].steps IN
                      /\ Len(steps) \in Nat \ {0} /\ DOMAIN steps = 1 .. Len(steps)
                      /\ WellFormed(steps)
  BY <1>1
<1> DEFINE steps == command[c].program[i].steps
<1>3. command[c].program[i] \in SectionSet
  BY <1>1
<1>4. steps \in Seq(STRING) /\ steps # <<>>
  BY <1>3 DEF SectionSet
<1>5. Len(steps) \in Nat /\ Len(steps) # 0 /\ DOMAIN steps = 1 .. Len(steps)
  BY <1>4
<1>6. WellFormed(steps)
  BY DEF HeldInv, ProgramsInv
<1> QED BY <1>5, <1>6

LEMMA RunningFacts ==
  ASSUME HeldInv, NEW c \in Callers, outcome[c] = "running"
  PROVE  /\ InProgram(c)
         /\ section[c] \in 1 .. Len(command[c].program) /\ Len(command[c].program) \in Nat
         /\ Len(Steps(c)) \in Nat \ {0} /\ DOMAIN Steps(c) = 1 .. Len(Steps(c))
         /\ pos[c] \in 1 .. Len(Steps(c))
         /\ WellFormed(Steps(c))
<1>1. InProgram(c)
  BY DEF HeldInv, CallerInv
<1> QED BY <1>1, ProgramFacts DEF InProgram, Steps

(* A section starts with nothing held, at a step of it.                    *)
LEMMA EndKeeps ==
  ASSUME HeldInv, NEW c \in Callers, outcome[c] = "running", EndControl(c), UNCHANGED command,
         Free(c)'
  PROVE  CallerInv(c)'
<1>1. pos'[c] = 1
  BY DEF EndControl, HeldInv, ShapeInv
<1>2. NoneLoads(c)' /\ session'[c]["DecoderWithPast"] # Loading
  BY DEF Free, NoneLoads, NoSessions, NoSession, Loading, OrtRole
<1>3. CASE section[c] < Len(command[c].program)
  <2>1. section'[c] = section[c] + 1 /\ outcome'[c] = outcome[c]
    BY <1>3 DEF EndControl, HeldInv, ShapeInv
  <2>2. section'[c] \in DOMAIN command[c].program
    BY <1>3, <2>1, RunningFacts, ProgramFacts
  <2>3. InProgram(c)'
    BY <1>1, <2>2, ProgramFacts DEF InProgram, Steps
  <2> QED BY <1>2, <2>1, <2>3 DEF CallerInv
<1>4. CASE ~ (section[c] < Len(command[c].program))
  <2>1. outcome'[c] = "ok"
    BY <1>4 DEF EndControl, HeldInv, ShapeInv
  <2> QED BY <1>2, <2>1 DEF CallerInv
<1> QED BY <1>3, <1>4

LEMMA LaterStill ==
  ASSUME NEW done, NEW steps, NEW i \in Int, NEW j \in Int, i <= j, After(done, steps, i)
  PROVE  After(done, steps, j)
BY DEF After

(* What is held at the last step, if that is not a close, is nothing.      *)
LEMMA LastIsFree ==
  ASSUME HeldInv, NEW c \in Callers, outcome[c] = "running", pos[c] = Len(Steps(c)),
         ~ At(c, {"close"})
  PROVE  Free(c)
<1>1. SUFFICES ASSUME ~ Free(c) PROVE FALSE
  OBVIOUS
<1>2. After(Acquiring, Steps(c), pos[c])
  BY <1>1 DEF HeldInv, CallerInv
<1>3. PICK j \in 1 .. pos[c] - 1 : Steps(c)[j] \in Acquiring
  BY <1>2 DEF After
<1>4. j \in DOMAIN Steps(c)
  BY RunningFacts
<1>5. Steps(c)[Len(Steps(c))] = "close"
  BY <1>3, <1>4, RunningFacts DEF WellFormed
<1> QED BY <1>5 DEF At

(* On to the next step with what is held.                                  *)
LEMMA GoesKeeps ==
  ASSUME HeldInv, NEW c \in Callers, outcome[c] = "running", Goes(c), UNCHANGED command,
         ~ At(c, {"close"}), NoneLoads(c)
  PROVE  CallerInv(c)'
<1>1. CASE pos[c] = Len(Steps(c))
  <2>1. Free(c)'
    BY <1>1, LastIsFree DEF Goes, Free
  <2> QED BY <1>1, <2>1, EndKeeps DEF Goes, Forward
<1>2. CASE pos[c] # Len(Steps(c))
  <2>1. pos'[c] = pos[c] + 1 /\ section'[c] = section[c] /\ outcome'[c] = outcome[c]
    BY <1>2 DEF Goes, Forward, HeldInv, ShapeInv
  <2>2. Steps(c)' = Steps(c)
    BY <2>1 DEF Steps
  <2>3. InProgram(c)'
    BY <1>2, <2>1, <2>2, RunningFacts DEF InProgram
  <2>4. session'[c] = session[c] /\ opened'[c] = opened[c] /\ CallerInv(c)
    BY DEF Goes, HeldInv
  <2>5. ~ Free(c)' => After(Acquiring, Steps(c), pos[c] + 1)
    BY <2>4, RunningFacts, LaterStill DEF CallerInv, Free
  <2>6. NoneLoads(c)'
    BY <2>4 DEF NoneLoads
  <2> QED BY <2>1, <2>2, <2>3, <2>4, <2>5, <2>6 DEF CallerInv
<1> QED BY <1>1, <1>2

(* An early return drops everything: nothing loads at such a step.         *)
LEMMA DropFrees ==
  ASSUME HeldInv, NEW c \in Callers, NoneLoads(c), Drop(c)
  PROVE  Free(c)'
BY DEF Drop, Free, NoneLoads, NoSessions, HeldInv, ShapeInv

LEMMA ExitsKeeps ==
  ASSUME HeldInv, NEW c \in Callers, outcome[c] = "running", Exits(c), UNCHANGED command,
         NoneLoads(c)
  PROVE  CallerInv(c)'
<1>1. Free(c)'
  BY DropFrees DEF Exits
<1>2. CASE EndControl(c)
  BY <1>1, <1>2, EndKeeps
<1>3. CASE (\E status : outcome' = [outcome EXCEPT ![c] = status]) /\ UNCHANGED <<section, pos>>
  <2>1. InProgram(c)'
    BY <1>3, RunningFacts DEF InProgram, Steps
  <2>2. NoneLoads(c)' /\ session'[c]["DecoderWithPast"] # Loading
    BY <1>1 DEF Free, NoneLoads, NoSessions, NoSession, Loading, OrtRole
  <2> QED BY <1>1, <2>1, <2>2 DEF CallerInv
<1> QED BY <1>2, <1>3 DEF Exits, LeaveControl

----------------------------------------------------------------------------
(* What one caller does leaves the others alone.                           *)
Apart(c) ==
  /\ DOMAIN section' = Callers /\ DOMAIN pos' = Callers /\ DOMAIN outcome' = Callers
  /\ DOMAIN session' = Callers /\ DOMAIN opened' = Callers
  /\ session'[c] = [role \in OrtRole |-> session'[c][role]] /\ opened'[c] \in BOOLEAN
  /\ \A d \in Callers \ {c} :
       /\ section'[d] = section[d] /\ pos'[d] = pos[d] /\ outcome'[d] = outcome[d]
       /\ session'[d] = session[d] /\ opened'[d] = opened[d]

LEMMA ApartKeeps ==
  ASSUME HeldInv, NEW c \in Callers, Apart(c), LocalApart(c) \/ UNCHANGED work,
         UNCHANGED command, CallerInv(c)'
  PROVE  HeldInv'
<1>1. ASSUME NEW d \in Callers \ {c} PROVE CallerInv(d)'
  BY <1>1 DEF HeldInv, CallerInv, Apart, InProgram, Steps, Free, NoneLoads, At
<1>2. ShapeInv'
  BY DEF HeldInv, ShapeInv, Apart, LocalApart
<1>3. ProgramsInv'
  BY DEF HeldInv, ProgramsInv
<1> QED BY <1>1, <1>2, <1>3 DEF HeldInv

LEMMA ControlApart ==
  ASSUME HeldInv, NEW c \in Callers, Goes(c) \/ Exits(c)
  PROVE  Apart(c)
<1>1. CASE Goes(c)
  BY <1>1 DEF Apart, Goes, Forward, EndControl, HeldInv, ShapeInv
<1>2. CASE Exits(c)
  BY <1>2 DEF Apart, Exits, LeaveControl, EndControl, Drop, HeldInv, ShapeInv
<1> QED BY <1>1, <1>2

LEMMA LocalKeepsEarly ==
  ASSUME HeldInv, EarlyInv, NEW c \in Callers, LocalQuiet(c),
         UNCHANGED <<override, runtime, early>>
  PROVE  EarlyInv'
BY DEF EarlyInv, LocalQuiet, LocalApart

LEMMA QuietKeeps ==
  ASSUME IInv, NEW c \in Callers, outcome[c] = "running", QuietStep(c), NoneLoads(c),
         ~ At(c, {"close"})
  PROVE  IInv'
<1>1. CallerInv(c)'
  BY GoesKeeps, ExitsKeeps DEF QuietStep, IInv
<1>2. HeldInv'
  BY <1>1, ApartKeeps, ControlApart DEF QuietStep, LocalQuiet, IInv
<1>3. EarlyInv'
  BY LocalKeepsEarly DEF QuietStep, IInv
<1> QED BY <1>2, <1>3 DEF IInv

(* The steps that touch neither sessions nor the runtime.                  *)
LEMMA Elsewhere ==
  ASSUME HeldInv, NEW c \in Callers, NEW steps, At(c, steps),
         "join_loads" \notin steps
  PROVE  outcome[c] = "running" /\ NoneLoads(c)
BY DEF HeldInv, CallerInv, At

LEMMA DecideKeeps ==
  ASSUME IInv, NEW c \in Callers, NEW steps, At(c, steps),
         "join_loads" \notin steps, "close" \notin steps,
         NEW fine, NEW locally, NEW status, Decide(c, fine, locally, status),
         LocallyQuiet(c, locally)
  PROVE  IInv'
<1>1. ~ At(c, {"close"})
  BY DEF At
<1> QED BY <1>1, Elsewhere, DecideIsQuiet, QuietKeeps DEF IInv

LEMMA ReadsKeep ==
  ASSUME IInv, NEW c \in Callers,
         \/ ParseArguments(c) \/ Discover(c) \/ VerifyTrusted(c) \/ Plan(c) \/ PlanGguf(c)
         \/ ReadGeneration(c) \/ ReadIo(c) \/ RuntimeGeneration(c) \/ RuntimeIo(c)
         \/ GgufConfig(c) \/ Measure(c) \/ Fill(c) \/ HfGate(c) \/ OrtGate(c)
         \/ LoadTokenizer(c) \/ LoadLlama(c)
  PROVE  IInv'
<1>0. LocallyQuiet(c, work[c]) /\ LocallyQuiet(c, Blank)
  BY DEF LocallyQuiet, Blank, IInv, HeldInv, ShapeInv
<1>1. CASE ParseArguments(c)
  BY <1>0, <1>1, DecideKeeps DEF ParseArguments
<1>2. CASE Discover(c)
  <2> DEFINE locally == [Blank EXCEPT !.manifest = ReadAt(ManifestPath),
                                      !.measured = work[c].measured]
  <2>1. LocallyQuiet(c, locally)
    BY <1>0 DEF LocallyQuiet, Blank
  <2>2. At(c, {"discover"})
        /\ Decide(c, ReadAt(ManifestPath) \in Packs, locally, "MODEL_PACK_ERROR")
    BY <1>2 DEF Discover
  <2> QED BY <2>1, <2>2, DecideKeeps
<1>3. CASE VerifyTrusted(c)
  BY <1>0, <1>3, DecideKeeps DEF VerifyTrusted
<1>4. CASE Plan(c)
  BY <1>0, <1>4, DecideKeeps DEF Plan
<1>5. CASE PlanGguf(c)
  BY <1>0, <1>5, DecideKeeps DEF PlanGguf
<1>6. ASSUME NEW content PROVE LocallyQuiet(c, [work[c] EXCEPT !.generation = content])
                              /\ LocallyQuiet(c, [work[c] EXCEPT !.io = content])
                              /\ LocallyQuiet(c, [work[c] EXCEPT !.tokenizer = content])
  BY <1>0 DEF LocallyQuiet
<1>7. CASE ReadGeneration(c)
  BY <1>6, <1>7, DecideKeeps DEF ReadGeneration
<1>8. CASE ReadIo(c)
  BY <1>6, <1>8, DecideKeeps DEF ReadIo
<1>9. CASE RuntimeGeneration(c)
  BY <1>6, <1>9, DecideKeeps DEF RuntimeGeneration
<1>10. CASE RuntimeIo(c)
  BY <1>6, <1>10, DecideKeeps DEF RuntimeIo
<1>11. CASE GgufConfig(c)
  BY <1>0, <1>11, DecideKeeps DEF GgufConfig
<1>12. CASE Measure(c)
  <2>1. LocallyQuiet(c, [Blank EXCEPT !.measured = Summary(c)])
    BY <1>0 DEF LocallyQuiet, Blank
  <2> QED BY <2>1, <1>12, DecideKeeps DEF Measure
<1>13. CASE Fill(c)
  BY <1>0, <1>13, DecideKeeps DEF Fill
<1>14. CASE HfGate(c)
  BY <1>0, <1>14, DecideKeeps DEF HfGate
<1>15. CASE OrtGate(c)
  BY <1>0, <1>15, DecideKeeps DEF OrtGate
<1>16. CASE LoadTokenizer(c)
  BY <1>6, <1>16, DecideKeeps DEF LoadTokenizer
<1>17. CASE LoadLlama(c)
  BY <1>0, <1>17, DecideKeeps DEF LoadLlama
<1> QED BY <1>1, <1>2, <1>3, <1>4, <1>5, <1>7, <1>8, <1>9, <1>10, <1>11, <1>12, <1>13, <1>14,
           <1>15, <1>16, <1>17

(* Steps that move no control and touch no session.                        *)
LEMMA StandsKeeps ==
  ASSUME HeldInv, NEW c \in Callers, LocalQuiet(c) \/ UNCHANGED work,
         UNCHANGED <<command, control, session, opened>>
  PROVE  HeldInv'
<1>1. Apart(c)
  BY DEF Apart, control, HeldInv, ShapeInv
<1>2. CallerInv(c)'
  BY DEF HeldInv, CallerInv, control, InProgram, Steps, Free, NoneLoads, At
<1> QED BY <1>1, <1>2, ApartKeeps DEF LocalQuiet

LEMMA VerifyFileKeeps ==
  ASSUME IInv, NEW c \in Callers, VerifyFile(c)
  PROVE  IInv'
<1> DEFINE locally == [work[c] EXCEPT !.files = work[c].files + 1]
<1>1. LocallyQuiet(c, locally)
  BY DEF LocallyQuiet, IInv, HeldInv, ShapeInv
<1>2. At(c, {"verify"})
  BY DEF VerifyFile
<1>3. \/ Decide(c, FALSE, locally, "MODEL_PACK_ERROR")
      \/ Decide(c, TRUE, locally, "MODEL_PACK_ERROR")
      \/ /\ work' = [work EXCEPT ![c] = locally]
         /\ UNCHANGED <<process, command, control, session, opened>>
  BY DEF VerifyFile
<1> HIDE DEF locally
<1>4. CASE \/ Decide(c, FALSE, locally, "MODEL_PACK_ERROR")
           \/ Decide(c, TRUE, locally, "MODEL_PACK_ERROR")
  BY <1>1, <1>2, <1>4, DecideKeeps
<1>5. CASE /\ work' = [work EXCEPT ![c] = locally]
           /\ UNCHANGED <<process, command, control, session, opened>>
  <2>1. LocalQuiet(c)
    BY <1>1, <1>5 DEF LocalQuiet, LocalApart, LocallyQuiet, IInv, HeldInv, ShapeInv
  <2> QED BY <1>5, <2>1, StandsKeeps, LocalKeepsEarly DEF IInv, process
<1> QED BY <1>3, <1>4, <1>5

(* The doctor may end its section here, as nothing is acquired before it.  *)
LEMMA RuntimeBranchKeeps ==
  ASSUME IInv, NEW c \in Callers, RuntimeBranch(c)
  PROVE  IInv'
<1>1. LocallyQuiet(c, work[c]) /\ LocallyQuiet(c, Blank)
  BY DEF LocallyQuiet, Blank, IInv, HeldInv, ShapeInv
<1>2. At(c, {"runtime_branch"})
  BY DEF RuntimeBranch
<1>3. \/ Decide(c, TRUE, work[c], "MODEL_PACK_ERROR")
      \/ Decide(c, FALSE, work[c], "MODEL_PACK_ERROR")
      \/ /\ outcome' = [outcome EXCEPT ![c] = "ok"]
         /\ work' = [work EXCEPT ![c] = Blank]
         /\ UNCHANGED <<process, command, section, pos, session, opened>>
  BY DEF RuntimeBranch
<1>4. CASE \/ Decide(c, TRUE, work[c], "MODEL_PACK_ERROR")
           \/ Decide(c, FALSE, work[c], "MODEL_PACK_ERROR")
  BY <1>1, <1>2, <1>4, DecideKeeps
<1>5. CASE /\ outcome' = [outcome EXCEPT ![c] = "ok"]
           /\ work' = [work EXCEPT ![c] = Blank]
           /\ UNCHANGED <<process, command, section, pos, session, opened>>
  <2>1. LocalQuiet(c)
    BY <1>1, <1>5 DEF LocalQuiet, LocalApart, LocallyQuiet, IInv, HeldInv, ShapeInv
  <2>2. outcome[c] = "running" /\ NoneLoads(c)
    BY <1>2, Elsewhere DEF IInv
  <2>3. ~ After(Acquiring, Steps(c), pos[c])
    BY <1>2, <2>2, RunningFacts DEF WellFormed, At, IInv
  <2>4. Free(c)
    BY <2>3 DEF IInv, HeldInv, CallerInv
  <2>5. Apart(c)
    BY <1>5 DEF Apart, IInv, HeldInv, ShapeInv
  <2>6. outcome'[c] = "ok"
    BY <1>5 DEF IInv, HeldInv, ShapeInv
  <2>7. CallerInv(c)'
    BY <1>5, <2>2, <2>4, <2>6 DEF IInv, HeldInv, CallerInv, Free, NoneLoads
  <2> QED BY <1>5, <2>1, <2>5, <2>7, ApartKeeps, LocalKeepsEarly DEF LocalQuiet, IInv, process
<1> QED BY <1>3, <1>4, <1>5

----------------------------------------------------------------------------
(* The path and the library.                                               *)
LEMMA ConfigureDylibKeeps ==
  ASSUME IInv, NEW c \in Callers, ConfigureDylib(c)
  PROVE  IInv'
<1>1. LocallyQuiet(c, work[c]) /\ LocallyQuiet(c, Blank)
  BY DEF LocallyQuiet, Blank, IInv, HeldInv, ShapeInv
<1>2. At(c, {"configure"}) /\ ~ At(c, {"close"})
  BY DEF ConfigureDylib, At
<1> DEFINE path == command[c].dylib
           Sets == /\ override \in {None, path}
                   /\ override' = path
                   /\ early' = IF override = None /\ Unresolved THEN path ELSE early
                   /\ Advance(c, work[c])
                   /\ UNCHANGED <<runtime, command, session, opened>>
<1>3. Sets \/ Decide(c, FALSE, work[c], "RUNTIME_NOT_CONFIGURED")
  BY DEF ConfigureDylib
<1>4. CASE Sets
  <2>1. Goes(c)
    BY <1>4 DEF Goes, Forward, EndControl, Advance, EndSection
  <2>2. work' \in {[work EXCEPT ![c] = work[c]], [work EXCEPT ![c] = Blank]}
    BY <1>4 DEF Advance, EndSection
  <2>3. LocalQuiet(c)
    BY <1>1, <2>2 DEF LocalQuiet, LocalApart, LocallyQuiet, IInv, HeldInv, ShapeInv
  <2>4. CallerInv(c)'
    BY <1>2, <1>4, <2>1, Elsewhere, GoesKeeps DEF IInv
  <2>5. HeldInv'
    BY <1>4, <2>1, <2>3, <2>4, ApartKeeps, ControlApart DEF LocalQuiet, IInv
  <2>6. EarlyInv'
    BY <1>4, <2>3 DEF IInv, EarlyInv, LocalQuiet, LocalApart, Unresolved
  <2> QED BY <2>5, <2>6 DEF IInv
<1>5. CASE Decide(c, FALSE, work[c], "RUNTIME_NOT_CONFIGURED")
  BY <1>1, <1>2, <1>5, DecideKeeps
<1> QED BY <1>3, <1>4, <1>5

LEMMA ResolveDylibKeeps ==
  ASSUME IInv, NEW c \in Callers, ResolveDylib(c)
  PROVE  IInv'
<1> DEFINE locally == [work[c] EXCEPT !.dylib = DylibPath]
<1>1. At(c, {"resolve_dylib"}) /\ ~ At(c, {"close"})
  BY DEF ResolveDylib, At
<1>2. Decide(c, DylibPath # None, locally, "RUNTIME_NOT_CONFIGURED")
  BY DEF ResolveDylib
<1>3. "dylib" \in DOMAIN locally /\ locally.dylib = DylibPath
  BY DEF IInv, HeldInv, ShapeInv
<1> HIDE DEF locally
<1>4. Goes(c) \/ Exits(c)
  BY <1>2 DEF Decide, Goes, Exits, Forward, LeaveControl, EndControl, Advance, EndSection, Fail,
              Leave
<1>5. work' \in {[work EXCEPT ![c] = locally], [work EXCEPT ![c] = Blank]}
      /\ UNCHANGED <<command, override, runtime, early>>
  BY <1>2 DEF Decide, Advance, EndSection, Fail, Leave, process
<1>6. LocalApart(c) /\ work'[c].dylib \in {None, DylibPath}
  BY <1>3, <1>5 DEF LocalApart, IInv, HeldInv, ShapeInv, Blank
<1>7. CallerInv(c)'
  BY <1>1, <1>4, <1>5, Elsewhere, GoesKeeps, ExitsKeeps DEF IInv
<1>8. HeldInv'
  BY <1>4, <1>5, <1>6, <1>7, ApartKeeps, ControlApart DEF IInv
<1>9. EarlyInv'
  BY <1>5, <1>6 DEF IInv, EarlyInv, LocalApart, DylibPath
<1> QED BY <1>8, <1>9 DEF IInv

LEMMA InitRuntimeKeeps ==
  ASSUME IInv, NEW c \in Callers, InitRuntime(c)
  PROVE  IInv'
<1> DEFINE locally == [work[c] EXCEPT !.dylib = None]
<1>1. At(c, {"init_runtime"}) /\ ~ At(c, {"close"})
  BY DEF InitRuntime, At
<1>2. LocallyQuiet(c, locally) /\ LocallyQuiet(c, work[c]) /\ LocallyQuiet(c, Blank)
  BY DEF LocallyQuiet, Blank, IInv, HeldInv, ShapeInv
<1>3. \/ /\ runtime' = IF runtime = None THEN work[c].dylib ELSE runtime
         /\ Advance(c, locally)
         /\ UNCHANGED <<override, early, command, session, opened>>
      \/ Decide(c, FALSE, work[c], "ORT_ERROR")
  BY DEF InitRuntime
<1> HIDE DEF locally
<1>4. CASE /\ runtime' = IF runtime = None THEN work[c].dylib ELSE runtime
           /\ Advance(c, locally)
           /\ UNCHANGED <<override, early, command, session, opened>>
  <2>1. Goes(c)
    BY <1>4 DEF Goes, Forward, EndControl, Advance, EndSection
  <2>2. work' \in {[work EXCEPT ![c] = locally], [work EXCEPT ![c] = Blank]}
    BY <1>4 DEF Advance, EndSection
  <2>3. LocalQuiet(c)
    BY <1>2, <2>2 DEF LocalQuiet, LocalApart, LocallyQuiet, IInv, HeldInv, ShapeInv
  <2>4. CallerInv(c)'
    BY <1>1, <1>4, <2>1, Elsewhere, GoesKeeps DEF IInv
  <2>5. HeldInv'
    BY <1>4, <2>1, <2>3, <2>4, ApartKeeps, ControlApart DEF LocalQuiet, IInv
  <2>6. EarlyInv'
    BY <1>4, <2>3 DEF IInv, EarlyInv, LocalQuiet, LocalApart
  <2> QED BY <2>5, <2>6 DEF IInv
<1>5. CASE Decide(c, FALSE, work[c], "ORT_ERROR")
  BY <1>1, <1>2, <1>5, DecideKeeps
<1> QED BY <1>3, <1>4, <1>5

----------------------------------------------------------------------------
(* The sessions.  A step that acquires is not the last one, and what it    *)
(* acquires has been acquired earlier from then on.                        *)
LEMMA AcquireMoves ==
  ASSUME HeldInv, NEW c \in Callers, At(c, Acquiring), Forward(c), UNCHANGED command
  PROVE  /\ outcome'[c] = "running" /\ InProgram(c)'
         /\ Steps(c)' = Steps(c) /\ pos'[c] = pos[c] + 1
         /\ After(Acquiring, Steps(c), pos'[c])
<1>1. outcome[c] = "running" /\ Steps(c)[pos[c]] \in Acquiring
  BY DEF At
<1>2. Steps(c)[Len(Steps(c))] = "close"
  BY <1>1, RunningFacts DEF WellFormed
<1>3. pos[c] # Len(Steps(c))
  BY <1>1, <1>2 DEF Acquiring
<1>4. pos'[c] = pos[c] + 1 /\ section'[c] = section[c] /\ outcome'[c] = outcome[c]
  BY <1>3 DEF Forward, HeldInv, ShapeInv
<1>5. Steps(c)' = Steps(c)
  BY <1>4 DEF Steps
<1>6. InProgram(c)'
  BY <1>1, <1>3, <1>4, <1>5, RunningFacts DEF InProgram
<1>7. After(Acquiring, Steps(c), pos[c] + 1)
  BY <1>1, RunningFacts DEF After
<1> QED BY <1>1, <1>4, <1>5, <1>6, <1>7

LEMMA JumpMoves ==
  ASSUME HeldInv, NEW c \in Callers, outcome[c] = "running", NEW step, NEW locally,
         Has(Steps(c), step), JumpTo(c, step, locally), UNCHANGED command
  PROVE  /\ outcome'[c] = "running" /\ InProgram(c)' /\ Steps(c)' = Steps(c)
         /\ pos'[c] \in DOMAIN Steps(c) /\ Steps(c)[pos'[c]] = step
<1>1. pos'[c] = CHOOSE i \in DOMAIN Steps(c) : Steps(c)[i] = step
  BY DEF JumpTo, HeldInv, ShapeInv
<1>2. pos'[c] \in DOMAIN Steps(c) /\ Steps(c)[pos'[c]] = step
  BY <1>1 DEF Has
<1>3. Steps(c)' = Steps(c) /\ section' = section /\ outcome' = outcome
  BY DEF JumpTo, Steps
<1> QED BY <1>2, <1>3, RunningFacts DEF InProgram

(* A step with the locals as they were, or of another run of the section.  *)
LEMMA MovesApart ==
  ASSUME HeldInv, NEW c \in Callers,
         Forward(c) \/ LeaveControl(c) \/ (\E step, locally : JumpTo(c, step, locally)),
         DOMAIN session' = Callers, DOMAIN opened' = Callers,
         session'[c] = [role \in OrtRole |-> session'[c][role]], opened'[c] \in BOOLEAN,
         \A d \in Callers \ {c} : session'[d] = session[d] /\ opened'[d] = opened[d]
  PROVE  Apart(c)
BY DEF Apart, Forward, LeaveControl, EndControl, JumpTo, HeldInv, ShapeInv

LEMMA AdvanceIs ==
  ASSUME HeldInv, NEW c \in Callers, NEW locally, Advance(c, locally),
         LocallyQuiet(c, locally)
  PROVE  Forward(c) /\ LocalQuiet(c)
<1>1. work' \in {[work EXCEPT ![c] = locally], [work EXCEPT ![c] = Blank]}
  BY DEF Advance, EndSection
<1>2. LocalQuiet(c)
  BY <1>1 DEF LocalQuiet, LocalApart, LocallyQuiet, HeldInv, ShapeInv, Blank
<1> QED BY <1>2 DEF Forward, EndControl, Advance, EndSection

LEMMA SpawnLoadsKeeps ==
  ASSUME IInv, NEW c \in Callers, SpawnLoads(c)
  PROVE  IInv'
<1>1. At(c, Acquiring) /\ Steps(c)[pos[c]] = "spawn_loads"
  BY DEF SpawnLoads, At, Acquiring
<1>2. Forward(c) /\ LocalQuiet(c) /\ UNCHANGED <<process, command, opened>>
  BY AdvanceIs DEF SpawnLoads, IInv, LocallyQuiet, HeldInv, ShapeInv
<1>3. /\ session' = [session EXCEPT ![c]["Encoder"] = Loading, ![c]["Decoder"] = Loading]
  BY DEF SpawnLoads
<1>4. /\ DOMAIN session' = Callers
      /\ \A d \in Callers \ {c} : session'[d] = session[d]
      /\ session'[c] = [session[c] EXCEPT !["Encoder"] = Loading, !["Decoder"] = Loading]
  BY <1>3 DEF IInv, HeldInv, ShapeInv
<1>5. /\ session'[c] = [role \in OrtRole |-> session'[c][role]]
      /\ session'[c]["DecoderWithPast"] = session[c]["DecoderWithPast"]
  BY <1>4 DEF IInv, HeldInv, ShapeInv, OrtRole
<1>6. Apart(c)
  BY <1>2, <1>4, <1>5, MovesApart DEF IInv, HeldInv, ShapeInv
<1>7. /\ outcome'[c] = "running" /\ InProgram(c)'
      /\ Steps(c)' = Steps(c) /\ pos'[c] = pos[c] + 1
      /\ After(Acquiring, Steps(c), pos'[c])
  BY <1>1, <1>2, AcquireMoves DEF IInv
<1>8. Steps(c)[pos[c] + 1] = "join_loads"
  BY <1>1, RunningFacts DEF WellFormed, At, IInv
<1>9. At(c, {"join_loads"})'
  BY <1>7, <1>8 DEF At
<1>10. CallerInv(c)'
  BY <1>5, <1>7, <1>9 DEF CallerInv, IInv, HeldInv
<1> QED BY <1>2, <1>6, <1>10, ApartKeeps, LocalKeepsEarly DEF IInv, LocalQuiet, process

(* A load thread ends: nothing starts to load.                             *)
LEMMA LoadSessionKeeps ==
  ASSUME IInv, NEW c \in Callers, NEW role \in OrtRole, LoadSession(c, role)
  PROVE  IInv'
<1>1. PICK loaded : session' = [session EXCEPT ![c][role] = loaded] /\ loaded # Loading
  BY DEF LoadSession, Loading
<1>2. session[c][role] = Loading
      /\ UNCHANGED <<process, command, control, work, opened>>
  BY DEF LoadSession
<1>3. /\ DOMAIN session' = Callers
      /\ \A d \in Callers \ {c} : session'[d] = session[d]
      /\ \A r \in OrtRole : session'[c][r] = IF r = role THEN loaded ELSE session[c][r]
      /\ session'[c] = [r \in OrtRole |-> session'[c][r]]
  BY <1>1 DEF IInv, HeldInv, ShapeInv
<1>4. ~ Free(c) /\ ~ NoneLoads(c) /\ role # "DecoderWithPast"
  BY <1>2 DEF Free, NoneLoads, NoSessions, NoSession, Loading, IInv, HeldInv, CallerInv
<1>5. At(c, {"join_loads"}) /\ After(Acquiring, Steps(c), pos[c])
      /\ session[c]["DecoderWithPast"] # Loading
  BY <1>4 DEF IInv, HeldInv, CallerInv
<1>6. outcome[c] = "running" /\ InProgram(c)
  BY <1>5, RunningFacts DEF At, IInv
<1>7. /\ outcome'[c] = "running" /\ InProgram(c)' /\ At(c, {"join_loads"})'
      /\ After(Acquiring, Steps(c), pos[c])'
  BY <1>2, <1>5, <1>6 DEF control, InProgram, Steps, At, After
<1>8. session'[c]["DecoderWithPast"] # Loading
  BY <1>1, <1>3, <1>5 DEF OrtRole
<1>9. CallerInv(c)'
  BY <1>7, <1>8 DEF CallerInv
<1>10. Apart(c)
  BY <1>2, <1>3 DEF Apart, control, IInv, HeldInv, ShapeInv
<1>11. HeldInv'
  BY <1>2, <1>9, <1>10, ApartKeeps DEF IInv
<1>12. EarlyInv'
  BY <1>2 DEF process, IInv, EarlyInv
<1> QED BY <1>11, <1>12 DEF IInv

LEMMA Unlocal ==
  ASSUME IInv, NEW c \in Callers
  PROVE  LocallyQuiet(c, work[c]) /\ LocallyQuiet(c, Blank)
BY DEF LocallyQuiet, Blank, IInv, HeldInv, ShapeInv

(* On, or to the opening of the handle, once both threads have ended.      *)
LEMMA JoinLoadsKeeps ==
  ASSUME IInv, NEW c \in Callers, JoinLoads(c)
  PROVE  IInv'
<1>1. At(c, {"join_loads"}) /\ ~ At(c, {"close"}) /\ outcome[c] = "running"
      /\ Steps(c)[pos[c]] = "join_loads"
  BY DEF JoinLoads, At
<1>2. NoneLoads(c)
  BY DEF JoinLoads, NoneLoads, OrtRole, IInv, HeldInv, CallerInv
<1>3. \/ Decide(c, FALSE, work[c], "ORT_ERROR")
      \/ Advance(c, work[c]) /\ UNCHANGED <<process, command, session, opened>>
      \/ JumpTo(c, "open", work[c]) /\ UNCHANGED <<process, command, session, opened>>
  BY DEF JoinLoads
<1>4. CASE Decide(c, FALSE, work[c], "ORT_ERROR")
  BY <1>1, <1>2, <1>4, Unlocal, DecideIsQuiet, QuietKeeps DEF IInv
<1>5. CASE Advance(c, work[c]) /\ UNCHANGED <<process, command, session, opened>>
  <2>1. QuietStep(c)
    BY <1>5, Unlocal, AdvanceIs DEF QuietStep, Goes, IInv, process
  <2> QED BY <1>1, <1>2, <2>1, QuietKeeps
<1>6. CASE JumpTo(c, "open", work[c]) /\ UNCHANGED <<process, command, session, opened>>
  <2>1. WellFormed(Steps(c)) /\ pos[c] \in DOMAIN Steps(c)
    BY <1>1, RunningFacts DEF IInv
  <2>2. Has(Steps(c), "open") /\ Has(Steps(c), "join_loads")
    BY <1>1, <2>1 DEF WellFormed, Has
  <2>3. /\ outcome'[c] = "running" /\ InProgram(c)' /\ Steps(c)' = Steps(c)
        /\ pos'[c] \in DOMAIN Steps(c) /\ Steps(c)[pos'[c]] = "open"
    BY <1>1, <1>6, <2>2, JumpMoves DEF IInv
  <2>4. After({"spawn_loads"}, Steps(c), pos'[c])
    BY <2>1, <2>2, <2>3 DEF WellFormed
  <2>5. After(Acquiring, Steps(c), pos'[c])
    BY <2>4 DEF After, Acquiring
  <2>6. CallerInv(c)'
    BY <1>2, <1>6, <2>3, <2>5 DEF CallerInv, NoneLoads, OrtRole
  <2>7. Apart(c)
    BY <1>6, MovesApart DEF IInv, HeldInv, ShapeInv
  <2>8. LocalQuiet(c)
    BY <1>6, Unlocal DEF JumpTo, LocalQuiet, LocalApart, LocallyQuiet, IInv, HeldInv, ShapeInv
  <2> QED BY <1>6, <2>6, <2>7, <2>8, ApartKeeps, LocalKeepsEarly DEF IInv, LocalQuiet, process
<1> QED BY <1>3, <1>4, <1>5, <1>6

LEMMA LoadPastKeeps ==
  ASSUME IInv, NEW c \in Callers, LoadPast(c)
  PROVE  IInv'
<1>1. At(c, {"load_past"}) /\ At(c, Acquiring)
  BY DEF LoadPast, At, Acquiring
<1>2. CASE Decide(c, FALSE, work[c], "ORT_ERROR")
  BY <1>1, <1>2, Unlocal, DecideKeeps
<1>3. CASE ~ Decide(c, FALSE, work[c], "ORT_ERROR")
  <2> DEFINE loaded == [state |-> "loaded", graph |-> ReadAt(PathOf(c, "DecoderWithPast"))]
  <2>1. session' = [session EXCEPT ![c]["DecoderWithPast"] = loaded]
    BY <1>3 DEF LoadPast
  <2>0. loaded # Loading
    BY DEF Loading
  <2> HIDE DEF loaded
  <2>2. Advance(c, work[c]) /\ UNCHANGED <<process, command, opened>>
    BY <1>3 DEF LoadPast
  <2>3. Forward(c) /\ LocalQuiet(c)
    BY <2>2, Unlocal, AdvanceIs DEF IInv
  <2>4. /\ DOMAIN session' = Callers
        /\ \A d \in Callers \ {c} : session'[d] = session[d]
        /\ \A r \in OrtRole :
             session'[c][r] = IF r = "DecoderWithPast" THEN loaded ELSE session[c][r]
        /\ session'[c] = [r \in OrtRole |-> session'[c][r]]
    BY <2>1 DEF IInv, HeldInv, ShapeInv, OrtRole
  <2>5. NoneLoads(c)
    BY <1>1, Elsewhere DEF IInv
  <2>6. NoneLoads(c)' /\ session'[c]["DecoderWithPast"] # Loading
    BY <2>0, <2>4, <2>5 DEF NoneLoads, OrtRole
  <2>7. /\ outcome'[c] = "running" /\ InProgram(c)' /\ Steps(c)' = Steps(c)
        /\ After(Acquiring, Steps(c), pos'[c])
    BY <1>1, <2>2, <2>3, AcquireMoves DEF IInv
  <2>8. CallerInv(c)'
    BY <2>6, <2>7 DEF CallerInv
  <2>9. Apart(c)
    BY <2>2, <2>3, <2>4, MovesApart DEF IInv, HeldInv, ShapeInv
  <2> QED BY <2>2, <2>3, <2>8, <2>9, ApartKeeps, LocalKeepsEarly DEF IInv, LocalQuiet, process
<1> QED BY <1>2, <1>3

LEMMA OpenKeeps ==
  ASSUME IInv, NEW c \in Callers, Open(c)
  PROVE  IInv'
<1>1. At(c, {"open"}) /\ At(c, Acquiring) /\ NoneLoads(c)
  BY Elsewhere DEF Open, At, Acquiring, IInv
<1>2. opened' = [opened EXCEPT ![c] = TRUE] /\ UNCHANGED <<process, command, session>>
      /\ Forward(c) /\ LocalQuiet(c)
  BY Unlocal, AdvanceIs DEF Open, IInv
<1>3. /\ outcome'[c] = "running" /\ InProgram(c)' /\ Steps(c)' = Steps(c)
      /\ After(Acquiring, Steps(c), pos'[c])
  BY <1>1, <1>2, AcquireMoves DEF IInv
<1>4. CallerInv(c)'
  BY <1>1, <1>2, <1>3 DEF CallerInv, NoneLoads, OrtRole
<1>5. Apart(c)
  BY <1>2, MovesApart DEF IInv, HeldInv, ShapeInv
<1> QED BY <1>2, <1>4, <1>5, ApartKeeps, LocalKeepsEarly DEF IInv, LocalQuiet, process

LEMMA TranslateKeeps ==
  ASSUME IInv, NEW c \in Callers, Translate(c)
  PROVE  IInv'
<1>1. At(c, {"translate"}) /\ ~ At(c, {"close"}) /\ outcome[c] = "running"
      /\ Steps(c)[pos[c]] = "translate"
  BY DEF Translate, At
<1>2. NoneLoads(c)
  BY <1>1, Elsewhere DEF IInv
<1>3. UNCHANGED <<process, command, session, opened>>
  BY DEF Translate
<1>4. CASE Advance(c, work[c])
  <2>1. QuietStep(c)
    BY <1>3, <1>4, Unlocal, AdvanceIs DEF QuietStep, Goes, IInv, process
  <2> QED BY <1>1, <1>2, <2>1, QuietKeeps
<1>5. ASSUME NEW status, JumpTo(c, "close", [work[c] EXCEPT !.translation = status])
      PROVE  IInv'
  <2> DEFINE locally == [work[c] EXCEPT !.translation = status]
  <2>0. LocallyQuiet(c, locally)
    BY Unlocal DEF LocallyQuiet
  <2> HIDE DEF locally
  <2>1. WellFormed(Steps(c)) /\ pos[c] \in DOMAIN Steps(c)
    BY <1>1, RunningFacts DEF IInv
  <2>2. Has(Steps(c), "close")
    BY <1>1, <2>1 DEF WellFormed
  <2>3. JumpTo(c, "close", locally)
    BY <1>5 DEF locally
  <2>4. /\ outcome'[c] = "running" /\ InProgram(c)' /\ Steps(c)' = Steps(c)
        /\ pos'[c] \in DOMAIN Steps(c) /\ Steps(c)[pos'[c]] = "close"
    BY <1>1, <1>3, <2>2, <2>3, JumpMoves DEF IInv
  <2>5. After(Acquiring, Steps(c), pos'[c])
    BY <2>1, <2>4 DEF WellFormed, After, Acquiring
  <2>6. CallerInv(c)'
    BY <1>2, <1>3, <2>4, <2>5 DEF CallerInv, NoneLoads, OrtRole
  <2>7. Apart(c)
    BY <1>3, <2>3, MovesApart DEF IInv, HeldInv, ShapeInv
  <2>8. LocalQuiet(c)
    BY <2>0, <2>3 DEF JumpTo, LocalQuiet, LocalApart, LocallyQuiet, IInv, HeldInv, ShapeInv
  <2> QED BY <1>3, <2>6, <2>7, <2>8, ApartKeeps, LocalKeepsEarly DEF IInv, LocalQuiet, process
<1> QED BY <1>4, <1>5 DEF Translate

(* A close drops everything, whether the command goes on or not.           *)
LEMMA CloseKeeps ==
  ASSUME IInv, NEW c \in Callers, Close(c)
  PROVE  IInv'
<1>1. At(c, {"close"}) /\ outcome[c] = "running"
  BY DEF Close, At
<1>2. NoneLoads(c)
  BY <1>1, Elsewhere DEF IInv
<1>3. Drop(c) /\ UNCHANGED <<process, command>>
  BY DEF Close
<1>4. Free(c)'
  BY <1>2, <1>3, DropFrees DEF IInv
<1>5. Forward(c) \/ LeaveControl(c)
  BY DEF Close, Advance, Leave, Forward, LeaveControl, EndControl, EndSection
<1>6. work' \in {[work EXCEPT ![c] = work[c]], [work EXCEPT ![c] = Blank]}
  BY DEF Close, Advance, Leave, EndSection
<1>7. LocalQuiet(c)
  BY <1>6, Unlocal DEF LocalQuiet, LocalApart, LocallyQuiet, IInv, HeldInv, ShapeInv
<1>8. /\ DOMAIN session' = Callers /\ DOMAIN opened' = Callers
      /\ session'[c] = [role \in OrtRole |-> session'[c][role]] /\ opened'[c] \in BOOLEAN
      /\ \A d \in Callers \ {c} : session'[d] = session[d] /\ opened'[d] = opened[d]
  BY <1>3 DEF Drop, IInv, HeldInv, ShapeInv
<1>9. Apart(c)
  BY <1>5, <1>8, MovesApart DEF IInv
<1>10. CallerInv(c)'
  <2>1. CASE LeaveControl(c)
    BY <1>1, <1>2, <1>3, <2>1, ExitsKeeps DEF Exits, IInv
  <2>2. CASE Forward(c) /\ pos[c] = Len(Steps(c))
    BY <1>1, <1>3, <1>4, <2>2, EndKeeps DEF Forward, IInv
  <2>3. CASE Forward(c) /\ pos[c] # Len(Steps(c))
    <3>1. pos'[c] = pos[c] + 1 /\ section'[c] = section[c] /\ outcome'[c] = outcome[c]
      BY <2>3 DEF Forward, IInv, HeldInv, ShapeInv
    <3>2. Steps(c)' = Steps(c)
      BY <1>3, <3>1 DEF Steps
    <3>3. InProgram(c)'
      BY <1>1, <1>3, <2>3, <3>1, <3>2, RunningFacts DEF InProgram, IInv
    <3>4. NoneLoads(c)' /\ session'[c]["DecoderWithPast"] # Loading
      BY <1>4 DEF Free, NoneLoads, NoSessions, NoSession, Loading, OrtRole
    <3> QED BY <1>1, <1>4, <3>1, <3>3, <3>4 DEF CallerInv
  <2> QED BY <1>5, <2>1, <2>2, <2>3
<1> QED BY <1>3, <1>7, <1>9, <1>10, ApartKeeps, LocalKeepsEarly DEF IInv, LocalQuiet, process

----------------------------------------------------------------------------
LEMMA InitInv == Init => IInv
<1> SUFFICES ASSUME Init PROVE IInv
  OBVIOUS
<1>1. PICK s \in Scenarios : command = s.command
  BY DEF Init
<1>2. ShapeInv
  BY DEF Init, ShapeInv, NoSessions, Blank
<1>3. ProgramsInv
  BY <1>1, ScriptsAssumption DEF ProgramsInv, SectionSet
<1>4. ASSUME NEW c \in Callers PROVE CallerInv(c)
  <2>1. Free(c) /\ NoneLoads(c) /\ session[c]["DecoderWithPast"] # Loading
    BY DEF Init, Free, NoneLoads, NoSessions, NoSession, Loading, OrtRole
  <2>2. CASE outcome[c] # "running"
    BY <2>1, <2>2 DEF CallerInv
  <2>3. CASE outcome[c] = "running"
    <3>1. command[c].program \in Seq(SectionSet) /\ command[c].program # <<>>
      BY <1>3, <2>3 DEF ProgramsInv, Init, Idle
    <3>2. 1 \in DOMAIN command[c].program
      BY <3>1
    <3>3. command[c].program[1] \in SectionSet
      BY <3>1, <3>2
    <3>4. 1 \in DOMAIN command[c].program[1].steps
      BY <3>3 DEF SectionSet
    <3>5. InProgram(c)
      BY <3>2, <3>4 DEF InProgram, Steps, Init
    <3> QED BY <2>1, <2>3, <3>5 DEF CallerInv
  <2> QED BY <2>2, <2>3
<1>5. EarlyInv
  BY DEF Init, EarlyInv
<1> QED BY <1>2, <1>3, <1>4, <1>5 DEF IInv, HeldInv

LEMMA NextInv == IInv /\ [Next]_vars => IInv'
<1> SUFFICES ASSUME IInv, [Next]_vars PROVE IInv'
  OBVIOUS
<1>1. ASSUME NEW c \in Callers, CallerStep(c) PROVE IInv'
  BY <1>1, ReadsKeep, VerifyFileKeeps, RuntimeBranchKeeps, ConfigureDylibKeeps,
     ResolveDylibKeeps, InitRuntimeKeeps, SpawnLoadsKeeps, JoinLoadsKeeps, LoadPastKeeps,
     OpenKeeps, TranslateKeeps, CloseKeeps DEF CallerStep
<1>2. ASSUME NEW c \in Callers, LoadThread(c) PROVE IInv'
  BY <1>2, LoadSessionKeeps DEF LoadThread
<1>3. CASE UNCHANGED <<process, command, control, locals>>
  BY <1>3 DEF process, control, locals, IInv, HeldInv, ShapeInv, ProgramsInv, CallerInv, EarlyInv,
              InProgram, Steps, Free, NoneLoads, At
<1>4. CASE Installer
  BY <1>3, <1>4 DEF Installer, InstallerWrites
<1>5. CASE UNCHANGED vars
  BY <1>3, <1>5 DEF vars
<1> QED BY <1>1, <1>2, <1>4, <1>5 DEF Next, Finished

THEOREM Invariance == Spec => []IInv
<1> QED BY InitInv, NextInv, PTL DEF Spec

(* Whatever fails, and wherever, between calls and after a command no      *)
(* session is left and no handle is open, and no load thread outlives the  *)
(* call that spawned it, for every well-formed script.                     *)
THEOREM NothingIsLeaked == Spec => []NothingLeaks
<1>1. IInv => NothingLeaks
  <2> SUFFICES ASSUME IInv, NEW c \in Callers
               PROVE  /\ outcome[c] # "running" \/ pos[c] = 1 => Free(c)
                      /\ \A role \in OrtRole : session[c][role] = Loading => At(c, {"join_loads"})
    BY DEF NothingLeaks, Free
  <2>1. ASSUME pos[c] = 1 PROVE Free(c)
    BY <2>1 DEF IInv, HeldInv, CallerInv, After
  <2> QED BY <2>1 DEF IInv, HeldInv, CallerInv, NoneLoads
<1> QED BY <1>1, Invariance, PTL

(* A path configured before any load has looked for a library is the one   *)
(* the process runs on (configure_ort_dylib_path, prepare_ort_runtime).    *)
THEOREM EarlyOverrideWins == Spec => []EarlyOverrideUsed
<1>1. IInv => EarlyOverrideUsed
  BY DEF IInv, EarlyInv, EarlyOverrideUsed
<1> QED BY <1>1, Invariance, PTL
==============================================================================
