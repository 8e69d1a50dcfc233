---------------------------- MODULE MissionProofs ----------------------------
(***************************************************************************)
(* Theorems of Mission for every plan, every length of the bumps and every *)
(* number of segments, jumps and frames, checked by TLAPS: the two cores   *)
(* implement the course of MissionSpec, and the answer that ends the bumps *)
(* leaves no measurement behind.  Under the fairness of Mission every      *)
(* report of core 1 gets through, refused sends notwithstanding, the bumps *)
(* come to an end, and a lock of the way back settles.                     *)
(***************************************************************************)
EXTENDS Mission, SequenceTheorems, TLAPS

\* Outside the step that selects it, the mode is the current stage, and then
\* the path is not replayed.
ModeIsCurrent == main0 # "mode" /\ mode # "IDLE" => mode = Current /\ ~pause

\* The callback works for the bridge only while it is the current stage, or
\* after it has been completed.
BridgeIsCurrent ==
    mode = "BRIDGE_BUMP" => phase = "COMPLETE" \/ (~pause /\ Current = "BRIDGE_BUMP")

\* A jump about to be counted belongs to the current stage.
JumpIsCurrent == main0 = "jump" => Current = "JUMP" /\ ~pause /\ jump_count < JumpTarget

\* A stage that is done has not been handed back.
DoneIsVision == done => ~pause

CourseInv ==
    /\ TypeOK
    /\ ModeIsCurrent /\ BridgeIsCurrent /\ JumpIsCurrent
    /\ DoneIsVision /\ DoneIsCurrent

\* Core 0 has finished measuring.
Finished == phase = "COMPLETE" \/ bump_finish

\* bump_finish is set after the whole distance, by a step of the main loop
\* that no callback overtakes, and cleared by the completion.
FinishIsMeasured ==
    /\ bump_finish => phase = "BUMP_DISTANCE" /\ distance = BumpLength
    /\ main0 = "finish" =>
          phase = "BUMP_DISTANCE" /\ ~bump_finish /\ distance = BumpLength

\* A word of core 0 that reports the end of the bumps is true, and so is the
\* answer of core 1.
ReportsAreTrue ==
    /\ main0 = "send" /\ packed.finish => Finished
    /\ \A i \in 1 .. Len(down) : down[i].finish => Finished
    /\ known.finish => Finished

AnswersAreTrue ==
    /\ \A i \in 1 .. Len(up) : up[i].exited => Finished
    /\ word.exited => Finished

\* A phase in which core 1 sends no start of the bumps any more.
Late(p) == p \in {"BUMP_DISTANCE", "COMPLETE"}

\* The phase goes forward only, and its copies reach core 1 in order: no copy
\* behind a late one is early.
LateStaysLate ==
    /\ Late(known.phase) => Late(phase)
    /\ Late(known.phase) /\ main0 = "send" => Late(packed.phase)
    /\ \A i \in 1 .. Len(down) :
          /\ Late(known.phase) => Late(down[i].phase)
          /\ Late(down[i].phase) => Late(phase)
          /\ Late(down[i].phase) /\ main0 = "send" => Late(packed.phase)
          /\ \A j \in i .. Len(down) : Late(down[i].phase) => Late(down[j].phase)
    /\ main0 = "send" /\ Late(packed.phase) => Late(phase)

\* No start of the bumps follows an answer, on the link or in core 1.
StartsComeFirst ==
    /\ word.exited => Late(known.phase) /\ ~word.bump_start
    /\ \A i \in 1 .. Len(up) : up[i].exited =>
          /\ Late(known.phase) /\ ~word.bump_start
          /\ \A j \in i .. Len(up) : ~up[j].bump_start
    /\ phase = "COMPLETE" =>
          /\ Late(known.phase) /\ ~word.bump_start /\ ~bump_start
          /\ \A i \in 1 .. Len(up) : ~up[i].bump_start

BumpsInv ==
    /\ FinishIsMeasured /\ ReportsAreTrue /\ AnswersAreTrue
    /\ LateStaysLate /\ StartsComeFirst

-----------------------------------------------------------------------------
(* Queues and records                                                       *)

LEMMA Popped ==
    ASSUME NEW S, NEW q \in Seq(S), q # <<>>
    PROVE  /\ Len(q) \in Nat /\ Len(q) > 0
           /\ Head(q) = q[1] /\ Head(q) \in S
           /\ Tail(q) \in Seq(S) /\ Len(Tail(q)) = Len(q) - 1
           /\ \A i \in 1 .. Len(Tail(q)) : Tail(q)[i] = q[i + 1]
BY HeadTailProperties, EmptySeq, LenProperties

LEMMA Pushed ==
    ASSUME NEW S, NEW q \in Seq(S), NEW e \in S
    PROVE  /\ Len(q) \in Nat
           /\ Append(q, e) \in Seq(S) /\ Len(Append(q, e)) = Len(q) + 1
           /\ \A i \in 1 .. Len(q) : Append(q, e)[i] = q[i]
           /\ Append(q, e)[Len(q) + 1] = e
BY LenProperties

LEMMA WordTyped ==
    ASSUME NEW a \in BOOLEAN, NEW b \in BOOLEAN, NEW e \in BOOLEAN, NEW o \in BOOLEAN
    PROVE  /\ Word(a, b, e, o) \in UpWords
           /\ Word(a, b, e, o).bump_start = b /\ Word(a, b, e, o).exited = e
BY DEF Word, UpWords

LEMMA WordsTyped ==
    /\ NoWord \in UpWords /\ ~NoWord.bump_start /\ ~NoWord.exited
    /\ JumpWord \in UpWords /\ ~JumpWord.bump_start /\ ~JumpWord.exited
    /\ StartWord \in UpWords /\ StartWord.bump_start /\ ~StartWord.exited
    /\ AckWord \in UpWords /\ ~AckWord.bump_start /\ AckWord.exited
BY WordTyped DEF NoWord, JumpWord, StartWord, AckWord

LEMMA IdleTyped == Idle \in DownWords /\ Idle.phase = "ALIGN" /\ Idle.finish = FALSE
BY DEF Idle, DownWords, Modes, Phases

LEMMA CurrentTyped ==
    ASSUME index \in 0 .. Len(Plan)
    PROVE  Current \in Modes /\ (Current # "IDLE" => index < Len(Plan))
<1>1. CASE index < Len(Plan)
  <2>1. index + 1 \in 1 .. Len(Plan)
    BY <1>1, PlanAssumption, LenProperties
  <2>2. Plan[index + 1] \in Stages
    BY <2>1, PlanAssumption, ElementOfSeq
  <2> QED
    BY <1>1, <2>2 DEF Current, Modes
<1>2. CASE ~(index < Len(Plan))
  BY <1>2 DEF Current, Modes
<1> QED
  BY <1>1, <1>2

LEMMA SearchTyped ==
    ASSUME NEW search \in Searches, NEW box \in Boxes
    PROVE  ExitProcessing(search, box) \in Searches /\ NewSearch \in Searches
BY WhiteAssumption DEF ExitProcessing, WaitWhite, NewSearch, At, Searches, Failsafe

-----------------------------------------------------------------------------
(* Types and the course                                                     *)

LEMMA InitCourse == Init => CourseInv
<1> SUFFICES ASSUME Init PROVE CourseInv
  OBVIOUS
<1>1. Len(Plan) \in Nat
  BY PlanAssumption, LenProperties
<1>2. NewSearch \in Searches
  BY WhiteAssumption DEF NewSearch, At, Searches
<1>3. <<>> \in Seq(DownWords) /\ <<>> \in Seq(UpWords) /\ Len(<<>>) = 0
  BY EmptySeq
<1>4. TypeOK
  <2>1. /\ index \in 0 .. Len(Plan) /\ aligned_count \in 0 .. ConfirmCount
        /\ distance \in 0 .. BumpLength /\ jump_count \in 0 .. JumpTarget
        /\ back_count \in 0 .. BackConfirm /\ seen_jumps \in 0 .. JumpTarget
        /\ segment \in Nat
    BY <1>1, BoundsAssumption DEF Init
  <2>2. /\ down \in Seq(DownWords) /\ Len(down) <= DownCapacity
        /\ up \in Seq(UpWords) /\ Len(up) <= UpCapacity
    BY <1>3, BoundsAssumption DEF Init
  <2>3. packed \in DownWords /\ known \in DownWords /\ word \in UpWords /\ exit \in Searches
    BY <1>2, IdleTyped, WordsTyped DEF Init
  <2> QED
    BY <2>1, <2>2, <2>3 DEF Init, TypeOK, Modes, Phases
<1> QED
  BY <1>4 DEF Init, CourseInv, ModeIsCurrent, BridgeIsCurrent, JumpIsCurrent,
              DoneIsVision, DoneIsCurrent

LEMMA TypeCallback0 == TypeOK /\ Callback0 => TypeOK'
<1> SUFFICES ASSUME TypeOK, Callback0 PROVE TypeOK'
  OBVIOUS
<1> DEFINE w == Head(up)
<1>1. w \in UpWords /\ Tail(up) \in Seq(UpWords) /\ Len(Tail(up)) <= UpCapacity
  BY Popped, BoundsAssumption DEF TypeOK, Callback0
<1>2. w.aligned \in BOOLEAN /\ w.bump_start \in BOOLEAN /\ w.odd \in BOOLEAN
  BY <1>1 DEF UpWords
<1> HIDE DEF w
<1>3. /\ phase' \in Phases /\ aligned_count' \in 0 .. ConfirmCount /\ aligned' \in BOOLEAN
      /\ bump_start' \in BOOLEAN /\ bump_finish' \in BOOLEAN /\ distance' \in 0 .. BumpLength
      /\ done' \in BOOLEAN /\ jump_word' \in BOOLEAN /\ jump_updated' \in BOOLEAN
  <2> USE DEF TypeOK, bridge0
  <2>1. CASE BridgeWord(w)
    <3>1. CASE StartBumps(w)
      <4>1. aligned_count' \in 0 .. ConfirmCount /\ distance' \in 0 .. BumpLength
        BY <3>1, BoundsAssumption DEF StartBumps
      <4>2. /\ phase' \in Phases /\ bump_start' \in BOOLEAN /\ bump_finish' \in BOOLEAN
            /\ aligned' \in BOOLEAN /\ done' \in BOOLEAN
        BY <3>1 DEF StartBumps, Phases
      <4> QED
        BY <2>1, <4>1, <4>2 DEF BridgeWord
    <3>2. CASE CountAligned(w)
      BY <1>2, <2>1, <3>2, BoundsAssumption DEF BridgeWord, CountAligned, Phases
    <3>3. CASE FinishBumps(w)
      BY <1>2, <2>1, <3>3 DEF BridgeWord, FinishBumps, Phases
    <3>4. CASE JustStore(w)
      BY <1>2, <2>1, <3>4 DEF BridgeWord, JustStore, Starting
    <3> QED
      BY <2>1, <3>1, <3>2, <3>3, <3>4 DEF BridgeWord
  <2>2. CASE JumpFlag(w)
    BY <1>2, <2>2 DEF JumpFlag
  <2>3. CASE LaneWord(w)
    BY <1>2, <2>3 DEF LaneWord
  <2>4. CASE IdleWord
    BY <2>4 DEF IdleWord
  <2> QED
    BY <2>1, <2>2, <2>3, <2>4 DEF Callback0, w
<1> QED
  BY <1>1, <1>3 DEF Callback0, TypeOK, w, loop0, core1, flags1, lane1, loop1

LEMMA TypeCore0 ==
    ASSUME TypeOK, JumpIsCurrent, Measure \/ SegmentEnd \/ MainLoop0
    PROVE  TypeOK'
<1> USE DEF TypeOK, plan, bridge0, jumps0, loop0, lane1, flags1, loop1, core1
<1>1. CASE Measure
  BY <1>1, BoundsAssumption DEF Measure
<1>2. CASE SegmentEnd
  <2>1. segment' \in Nat
    BY <1>2 DEF SegmentEnd
  <2>2. pause' \in BOOLEAN
    BY <1>2 DEF SegmentEnd
  <2> QED
    BY <1>2, <2>1, <2>2 DEF SegmentEnd
<1>3. CASE HandBack
  <2>1. index' \in 0 .. Len(Plan)
    BY <1>3, PlanAssumption, LenProperties DEF HandBack
  <2>2. pause' \in BOOLEAN /\ done' \in BOOLEAN
    BY <1>3 DEF HandBack
  <2> QED
    BY <1>3, <2>1, <2>2 DEF HandBack
<1>4. CASE SelectMode
  BY <1>4, CurrentTyped DEF SelectMode, Modes
<1>5. CASE Pack
  BY <1>5 DEF Pack, DownWords
<1>6. CASE Send
  <2>1. Append(down, packed) \in Seq(DownWords) /\ Len(Append(down, packed)) = Len(down) + 1
    BY Pushed
  <2> QED
    BY <1>6, <2>1, IdleTyped, LenProperties, BoundsAssumption DEF Send
<1>7. CASE StageCode
  BY <1>7 DEF StageCode, Modes
<1>8. CASE FinishMeasure
  BY <1>8 DEF FinishMeasure
<1>9. CASE CountJump
  BY <1>9, BoundsAssumption DEF CountJump, JumpIsCurrent
<1> QED
  BY <1>1, <1>2, <1>3, <1>4, <1>5, <1>6, <1>7, <1>8, <1>9 DEF MainLoop0

LEMMA TypeCallback1 == TypeOK /\ Callback1 => TypeOK'
<1> SUFFICES ASSUME TypeOK, Callback1 PROVE TypeOK'
  OBVIOUS
<1>1. Head(down) \in DownWords /\ Tail(down) \in Seq(DownWords) /\ Len(Tail(down)) <= DownCapacity
  BY Popped, BoundsAssumption DEF TypeOK, Callback1
<1> QED
  BY <1>1 DEF TypeOK, Callback1, core0, plan, bridge0, jumps0, loop0, flags1, lane1, loop1

LEMMA TypeCore1 == TypeOK /\ MainLoop1 => TypeOK'
<1> SUFFICES ASSUME TypeOK, MainLoop1 PROVE TypeOK'
  OBVIOUS
<1> USE DEF TypeOK, core1Only, core0, plan, bridge0, jumps0, loop0, lane1, flags1, loop1
<1>1. known.mode \in Modes /\ known.phase \in Phases /\ known.finish \in BOOLEAN
  BY DEF DownWords
<1>2. CASE ModeChange
  <2>1. CASE CompareMode \/ SelectOption
    BY <2>1 DEF CompareMode, SelectOption
  <2>2. CASE NoteMode
    BY <1>1, <2>2 DEF NoteMode
  <2>3. CASE EnterBack
    <3>1. back_count' \in 0 .. BackConfirm
      BY <2>3, BoundsAssumption DEF EnterBack
    <3>2. back_locked' \in BOOLEAN
      BY <2>3 DEF EnterBack
    <3>3. main1' \in {"option", "enter_bump"}
      BY <2>3 DEF EnterBack
    <3> QED
      BY <2>3, <3>1, <3>2, <3>3 DEF EnterBack
  <2>4. CASE EnterBump
    <3>1. latched' \in BOOLEAN /\ exit_sent' \in BOOLEAN
      BY <2>4 DEF EnterBump
    <3> QED
      BY <2>4, <3>1 DEF EnterBump
  <2> QED
    BY <1>2, <2>1, <2>2, <2>3, <2>4 DEF ModeChange
<1>3. CASE PhaseChange
  <2>1. NewSearch \in Searches
    BY WhiteAssumption DEF NewSearch, At, Searches
  <2> QED
    BY <1>1, <1>3, <2>1 DEF PhaseChange
<1>4. CASE Frame
  <2>1. latched' \in BOOLEAN
    BY <1>4 DEF Frame, Failsafe
  <2>2. word' \in UpWords
    <3>1. PICK inside \in BOOLEAN, odd \in ControlBits : word' = Word(inside, latched', FALSE, odd)
      BY <1>4 DEF Frame
    <3> QED
      BY <2>1, <3>1, WordTyped, BoundsAssumption
  <2>3. /\ main1' = "send_frame"
        /\ UNCHANGED <<core1Only, up, last_option, last_phase, exit, exit_sent,
                       finish_sent, seen_jumps, lane1>>
    BY <1>4 DEF Frame
  <2> QED
    BY <2>1, <2>2, <2>3
<1>5. CASE NoFrame
  BY <1>5 DEF NoFrame
<1>6. CASE ExitCheck
  <2>1. exit' \in Searches
    BY <1>6, SearchTyped DEF ExitCheck
  <2>2. main1' \in {"send_start", "back"} /\ word' \in UpWords
    BY <1>6, WordsTyped DEF ExitCheck
  <2> QED
    BY <1>6, <2>1, <2>2 DEF ExitCheck
<1>7. CASE NoExitCheck
  BY <1>7 DEF NoExitCheck
<1>8. CASE BumpDistance
  BY <1>8, WordsTyped DEF BumpDistance
<1>9. CASE BackFrame
  <2>1. back_count' \in 0 .. BackConfirm /\ back_locked' \in BOOLEAN /\ word' \in UpWords
    <3>1. PICK inside \in BOOLEAN, white \in BOOLEAN, odd \in ControlBits :
             /\ LaneFrame(inside, white)
             /\ word' = Word(back_locked', FALSE, FALSE, odd /\ ~back_locked')
      BY <1>9 DEF BackFrame
    <3>2. back_count' \in 0 .. BackConfirm /\ back_locked' \in BOOLEAN
      BY <3>1, BoundsAssumption DEF LaneFrame
    <3> QED
      BY <3>1, <3>2, WordTyped
  <2>2. /\ main1' = "send_back"
        /\ UNCHANGED <<core1Only, up, last_option, last_phase, latched, exit, exit_sent,
                       finish_sent, seen_jumps>>
    BY <1>9 DEF BackFrame
  <2> QED
    BY <2>1, <2>2
<1>10. CASE NoBackFrame
  BY <1>10 DEF NoBackFrame
<1>11. CASE JumpStage
  BY <1>11, WordsTyped, BoundsAssumption DEF JumpStage
<1>12. main1 \in DOMAIN After => After[main1] \in {"back", "jump", "top"}
  BY DEF After
<1>13. CASE SendTaken
  <2>1. Append(up, word) \in Seq(UpWords) /\ Len(Append(up, word)) = Len(up) + 1
    BY Pushed
  <2> QED
    BY <1>12, <1>13, <2>1, WordsTyped, LenProperties, BoundsAssumption DEF SendTaken
<1>14. CASE SendRefused
  BY <1>12, <1>14, WordsTyped DEF SendRefused
<1> QED
  BY <1>2, <1>3, <1>4, <1>5, <1>6, <1>7, <1>8, <1>9, <1>10, <1>11, <1>13, <1>14 DEF MainLoop1

\* The conjuncts of the invariant that are about the plan.
CourseFacts ==
    ModeIsCurrent /\ BridgeIsCurrent /\ JumpIsCurrent /\ DoneIsVision /\ DoneIsCurrent

LEMMA CourseCallback0 == TypeOK /\ CourseFacts /\ Callback0 => CourseFacts'
<1> SUFFICES ASSUME TypeOK, CourseFacts, Callback0 PROVE CourseFacts'
  OBVIOUS
<1> DEFINE w == Head(up)
<1>1. UNCHANGED <<index, pause, mode, jump_count, main0>>
  BY DEF Callback0, loop0
<1>2. Current' = Current
  BY <1>1 DEF Current
<1>3. \/ UNCHANGED <<phase, done>>
      \/ mode = "BRIDGE_BUMP" /\ phase # "COMPLETE" /\ phase' # "COMPLETE" /\ UNCHANGED done
      \/ mode = "BRIDGE_BUMP" /\ phase # "COMPLETE" /\ phase' = "COMPLETE" /\ done'
  <2>1. CASE BridgeWord(w)
    BY <2>1 DEF BridgeWord, StartBumps, CountAligned, FinishBumps, JustStore
  <2>2. CASE JumpFlag(w) \/ LaneWord(w) \/ IdleWord
    BY <2>2 DEF JumpFlag, LaneWord, IdleWord, bridge0
  <2> QED
    BY <2>1, <2>2 DEF Callback0
<1> HIDE DEF w
<1> QED
  BY <1>1, <1>2, <1>3 DEF CourseFacts, ModeIsCurrent, BridgeIsCurrent, JumpIsCurrent,
                          DoneIsVision, DoneIsCurrent

LEMMA CourseCore0 ==
    ASSUME TypeOK, CourseFacts, Measure \/ SegmentEnd \/ MainLoop0
    PROVE  CourseFacts'
<1> USE DEF CourseFacts, ModeIsCurrent, BridgeIsCurrent, JumpIsCurrent, DoneIsVision,
            DoneIsCurrent, bridge0, jumps0
<1>1. UNCHANGED index => Current' = Current
  BY DEF Current
<1>2. CASE Measure
  BY <1>1, <1>2 DEF Measure, plan, loop0
<1>3. CASE SegmentEnd
  BY <1>1, <1>3 DEF SegmentEnd, loop0
<1>4. CASE HandBack
  <2>1. CASE ~pause /\ done
    BY <1>4, <2>1 DEF HandBack, TypeOK
  <2>2. CASE ~(~pause /\ done)
    BY <1>1, <1>4, <2>2 DEF HandBack
  <2> QED
    BY <2>1, <2>2
<1>5. CASE SelectMode
  BY <1>1, <1>5 DEF SelectMode, plan
<1>6. CASE Pack
  BY <1>1, <1>6 DEF Pack, plan
<1>7. CASE Send
  BY <1>1, <1>7 DEF Send, plan
<1>8. CASE StageCode
  BY <1>1, <1>8 DEF StageCode, plan
<1>9. CASE FinishMeasure
  BY <1>1, <1>9 DEF FinishMeasure, plan
<1>10. CASE CountJump
  <2>1. Current = "JUMP" /\ ~pause /\ jump_count < JumpTarget /\ jump_count \in Nat /\ ~done
    BY <1>10, BoundsAssumption DEF CountJump, TypeOK
  <2>2. UNCHANGED <<index, pause, mode, phase>> /\ main0 = "jump" /\ main0' = "pause"
    BY <1>10 DEF CountJump
  <2>3. done' => jump_count' = JumpTarget
    BY <1>10, <2>1 DEF CountJump
  <2> QED
    BY <1>1, <2>1, <2>2, <2>3
<1> QED
  BY <1>2, <1>3, <1>4, <1>5, <1>6, <1>7, <1>8, <1>9, <1>10 DEF MainLoop0

\* Core 1 and the links do not write core 0's state.
LEMMA Core1Leaves == Callback1 \/ MainLoop1 => UNCHANGED core0
BY DEF Callback1, MainLoop1, core1Only, ModeChange, CompareMode, NoteMode, EnterBack,
   EnterBump, SelectOption, PhaseChange, Frame, NoFrame, ExitCheck, NoExitCheck,
   BumpDistance, BackFrame, NoBackFrame, JumpStage, SendTaken, SendRefused

LEMMA CourseKept == UNCHANGED core0 /\ CourseFacts => CourseFacts'
BY DEF core0, plan, bridge0, jumps0, loop0, CourseFacts, ModeIsCurrent, BridgeIsCurrent,
       JumpIsCurrent, DoneIsVision, DoneIsCurrent, Current

LEMMA NextCourse == CourseInv /\ [Next]_vars => CourseInv'
<1> SUFFICES ASSUME CourseInv, [Next]_vars PROVE CourseInv'
  OBVIOUS
<1>1. TypeOK /\ CourseFacts /\ JumpIsCurrent
  BY DEF CourseInv, CourseFacts
<1>2. CASE UNCHANGED vars
  <2>1. TypeOK'
    BY <1>1, <1>2 DEF vars, TypeOK, core0, plan, bridge0, jumps0, loop0, core1, flags1, lane1, loop1
  <2>2. UNCHANGED core0
    BY <1>2 DEF vars
  <2> QED
    BY <1>1, <2>1, <2>2, CourseKept DEF CourseInv, CourseFacts
<1>3. CASE Callback0
  BY <1>1, <1>3, TypeCallback0, CourseCallback0 DEF CourseInv, CourseFacts
<1>4. CASE Measure \/ SegmentEnd \/ MainLoop0
  BY <1>1, <1>4, TypeCore0, CourseCore0 DEF CourseInv, CourseFacts
<1>5. CASE Callback1 \/ MainLoop1
  BY <1>1, <1>5, TypeCallback1, TypeCore1, Core1Leaves, CourseKept DEF CourseInv, CourseFacts
<1> QED
  BY <1>2, <1>3, <1>4, <1>5 DEF Next

-----------------------------------------------------------------------------
(* The course of the plan                                                   *)

LEMMA StageIsCurrent == Course!Stage = Current
BY DEF Course!Stage, Current

LEMMA CallbackCourse ==
    ASSUME TypeOK, CourseFacts, Callback0
    PROVE  Course!BridgeProgress \/ UNCHANGED Course!vars
<1> DEFINE w == Head(up)
<1>1. UNCHANGED <<index, pause, jump_count>>
  BY DEF Callback0
<1>2. \/ UNCHANGED phase
      \/ mode = "BRIDGE_BUMP" /\ phase # "COMPLETE" /\
         <<phase, phase'>> \in { <<"ALIGN", "EXIT_CHECK">>, <<"ALIGN", "BUMP_DISTANCE">>,
                                <<"EXIT_CHECK", "BUMP_DISTANCE">>,
                                <<"BUMP_DISTANCE", "COMPLETE">> }
  <2>1. CASE BridgeWord(w)
    BY <2>1 DEF BridgeWord, StartBumps, CountAligned, FinishBumps, JustStore
  <2>2. CASE JumpFlag(w) \/ LaneWord(w) \/ IdleWord
    BY <2>2 DEF JumpFlag, LaneWord, IdleWord, bridge0
  <2> QED
    BY <2>1, <2>2 DEF Callback0
<1> HIDE DEF w
<1> QED
  BY <1>1, <1>2, StageIsCurrent DEF CourseFacts, BridgeIsCurrent, Course!BridgeProgress, Course!vars

LEMMA Core0Course ==
    ASSUME TypeOK, CourseFacts, Measure \/ SegmentEnd \/ MainLoop0
    PROVE  Course!Next \/ UNCHANGED Course!vars
<1> USE DEF Course!vars, bridge0, jumps0, plan
<1>1. CASE Measure
  BY <1>1 DEF Measure
<1>2. CASE SegmentEnd
  BY <1>2 DEF SegmentEnd, Course!Next, Course!Interrupt
<1>3. CASE HandBack
  <2>1. CASE ~pause /\ done
    <3>1. Current # "IDLE" /\ index < Len(Plan)
      BY <2>1, CurrentTyped DEF CourseFacts, DoneIsCurrent, TypeOK
    <3>2. Course!StageDone
      BY <2>1, StageIsCurrent DEF CourseFacts, DoneIsCurrent, Course!StageDone
    <3> QED
      BY <1>3, <2>1, <3>1, <3>2 DEF HandBack, Course!Next, Course!Resume
  <2>2. CASE ~(~pause /\ done)
    BY <1>3, <2>2 DEF HandBack
  <2> QED
    BY <2>1, <2>2
<1>4. CASE SelectMode
  BY <1>4 DEF SelectMode
<1>5. CASE Pack
  BY <1>5 DEF Pack
<1>6. CASE Send
  BY <1>6 DEF Send
<1>7. CASE StageCode
  BY <1>7 DEF StageCode
<1>8. CASE FinishMeasure
  BY <1>8 DEF FinishMeasure
<1>9. CASE CountJump
  <2>1. Current = "JUMP" /\ ~pause /\ jump_count < JumpTarget
    BY <1>9 DEF CountJump, CourseFacts, JumpIsCurrent
  <2> QED
    BY <1>9, <2>1, StageIsCurrent DEF CountJump, Course!Next, Course!Jump
<1> QED
  BY <1>1, <1>2, <1>3, <1>4, <1>5, <1>6, <1>7, <1>8, <1>9 DEF MainLoop0

LEMMA NextMission == CourseInv /\ [Next]_vars => [Course!Next]_(Course!vars)
<1> SUFFICES ASSUME CourseInv, [Next]_vars PROVE Course!Next \/ UNCHANGED Course!vars
  OBVIOUS
<1>1. TypeOK /\ CourseFacts
  BY DEF CourseInv, CourseFacts
<1>2. UNCHANGED core0 => UNCHANGED Course!vars
  BY DEF core0, plan, bridge0, jumps0, Course!vars
<1>3. CASE UNCHANGED vars
  BY <1>2, <1>3 DEF vars
<1>4. CASE Callback0
  BY <1>1, <1>4, CallbackCourse DEF Course!Next
<1>5. CASE Measure \/ SegmentEnd \/ MainLoop0
  BY <1>1, <1>5, Core0Course
<1>6. CASE Callback1 \/ MainLoop1
  BY <1>2, <1>6, Core1Leaves
<1> QED
  BY <1>3, <1>4, <1>5, <1>6 DEF Next

LEMMA InitMission == Init => Course!Init
BY DEF Init, Course!Init

-----------------------------------------------------------------------------
(* The bumps                                                                *)

LEMMA InitBumps == Init => BumpsInv
<1> SUFFICES ASSUME Init PROVE BumpsInv
  OBVIOUS
<1>1. Len(down) = 0 /\ Len(up) = 0
  BY DEF Init
<1>2. known.phase = "ALIGN" /\ ~known.finish /\ ~word.exited /\ ~word.bump_start
  BY IdleTyped, WordsTyped DEF Init
<1> QED
  BY <1>1, <1>2 DEF Init, BumpsInv, FinishIsMeasured, ReportsAreTrue, AnswersAreTrue,
                    LateStaysLate, StartsComeFirst, Late

\* What an action of core 0 other than a send must keep; the callback takes the
\* first word of the link.
LEMMA Lasting ==
    ASSUME TypeOK, BumpsInv, FinishIsMeasured',
           Finished => Finished', Late(phase) => Late(phase'),
           UNCHANGED <<down, known, word>>,
           up' = up \/ (up # <<>> /\ up' = Tail(up)),
           main0' = "send" => \/ main0' = main0 /\ packed' = packed
                              \/ packed'.phase = phase' /\ (packed'.finish => Finished'),
           phase' = "COMPLETE" =>
              /\ Late(known.phase) /\ ~word.bump_start /\ ~bump_start'
              /\ \A i \in 1 .. Len(up) : ~up[i].bump_start
    PROVE  BumpsInv'
<1>1. ReportsAreTrue'
  BY DEF BumpsInv, ReportsAreTrue
<1>2. LateStaysLate'
  BY DEF BumpsInv, LateStaysLate
<1>3. CASE up' = up
  BY <1>1, <1>2, <1>3 DEF BumpsInv, AnswersAreTrue, StartsComeFirst
<1>4. CASE up # <<>> /\ up' = Tail(up)
  <2>1. /\ Len(up) \in Nat /\ Len(up') = Len(up) - 1
        /\ \A i \in 1 .. Len(up') : up'[i] = up[i + 1]
    BY <1>4, Popped DEF TypeOK
  <2>2. \A i \in 1 .. Len(up') : i + 1 \in 1 .. Len(up)
    BY <2>1
  <2>3. \A i \in 1 .. Len(up') : \A j \in i .. Len(up') : j + 1 \in i + 1 .. Len(up) /\ up'[j] = up[j + 1]
    BY <2>1
  <2>4. AnswersAreTrue'
    BY <2>1, <2>2 DEF BumpsInv, AnswersAreTrue
  <2>5. StartsComeFirst'
    BY <2>1, <2>2, <2>3 DEF BumpsInv, StartsComeFirst
  <2> QED
    BY <1>1, <1>2, <2>4, <2>5 DEF BumpsInv
<1> QED
  BY <1>3, <1>4

LEMMA BumpsCallback0 == TypeOK /\ BumpsInv /\ Callback0 => BumpsInv'
<1> SUFFICES ASSUME TypeOK, BumpsInv, Callback0 PROVE BumpsInv'
  OBVIOUS
<1> DEFINE w == Head(up)
<1>1. /\ up # <<>> /\ up' = Tail(up)
      /\ UNCHANGED <<down, known, word, main0, packed>>
      /\ BridgeWord(w) \/ JumpFlag(w) \/ LaneWord(w) \/ IdleWord
  BY DEF Callback0, loop0, core1, loop1
<1>2. w = up[1] /\ 1 \in 1 .. Len(up)
  BY <1>1, Popped DEF TypeOK
<1>3. w.exited => Finished /\ Late(known.phase) /\ ~word.bump_start
                  /\ \A j \in 1 .. Len(up) : ~up[j].bump_start
  BY <1>2 DEF BumpsInv, AnswersAreTrue, StartsComeFirst
<1>4. phase = "COMPLETE" =>
         /\ Late(known.phase) /\ ~word.bump_start /\ ~bump_start /\ ~w.bump_start
         /\ \A i \in 1 .. Len(up) : ~up[i].bump_start
  BY <1>2 DEF BumpsInv, StartsComeFirst
<1> HIDE DEF w
<1>5. /\ FinishIsMeasured'
      /\ Finished => Finished'
      /\ Late(phase) => Late(phase')
      /\ phase' = "COMPLETE" => (phase = "COMPLETE" /\ ~bump_start') \/ (w.exited /\ ~bump_start')
  <2> USE DEF BumpsInv, FinishIsMeasured, Finished, Late
  <2>1. CASE BridgeWord(w)
    <3>1. CASE StartBumps(w)
      BY <1>1, <2>1, <3>1 DEF BridgeWord, StartBumps
    <3>2. CASE CountAligned(w)
      BY <1>1, <2>1, <3>2 DEF BridgeWord, CountAligned
    <3>3. CASE FinishBumps(w)
      BY <1>1, <1>3, <2>1, <3>3 DEF BridgeWord, FinishBumps
    <3>4. CASE JustStore(w)
      BY <1>1, <1>4, <2>1, <3>4 DEF BridgeWord, JustStore, Starting
    <3> QED
      BY <2>1, <3>1, <3>2, <3>3, <3>4 DEF BridgeWord
  <2>2. CASE JumpFlag(w) \/ LaneWord(w) \/ IdleWord
    BY <1>1, <1>4, <2>2 DEF JumpFlag, LaneWord, IdleWord, bridge0
  <2> QED
    BY <1>1, <2>1, <2>2
<1>6. phase' = "COMPLETE" =>
         /\ Late(known.phase) /\ ~word.bump_start /\ ~bump_start'
         /\ \A i \in 1 .. Len(up) : ~up[i].bump_start
  BY <1>3, <1>4, <1>5
<1>7. main0' = main0 /\ packed' = packed
  BY <1>1
<1> QED
  BY <1>1, <1>5, <1>6, <1>7, Lasting

LEMMA BumpsCore0 ==
    ASSUME TypeOK, BumpsInv, Measure \/ SegmentEnd \/ HandBack \/ SelectMode \/ Pack
                             \/ StageCode \/ FinishMeasure \/ CountJump
    PROVE  BumpsInv'
<1>1. /\ UNCHANGED <<down, up, known, word, phase, bump_start>>
      /\ main0' = "send" => \/ main0' = main0 /\ packed' = packed
                            \/ packed'.phase = phase' /\ (packed'.finish => bump_finish')
      /\ bump_finish => bump_finish'
      /\ FinishIsMeasured'
  <2> USE DEF BumpsInv, FinishIsMeasured, TypeOK, core1, loop1, bridge0, loop0
  <2>1. CASE Measure
    <3>1. /\ UNCHANGED <<down, up, known, word, phase, bump_start, bump_finish, main0, packed>>
          /\ ~bump_finish
      BY <2>1 DEF Measure
    <3>2. distance # BumpLength
      BY <2>1, BoundsAssumption DEF Measure
    <3> QED
      BY <3>1, <3>2
  <2>2. CASE SegmentEnd
    <3>1. UNCHANGED <<down, up, known, word, bridge0, main0, packed>>
      BY <2>2 DEF SegmentEnd
    <3> QED
      BY <3>1
  <2>3. CASE HandBack
    BY <2>3 DEF HandBack
  <2>4. CASE SelectMode
    BY <2>4 DEF SelectMode
  <2>5. CASE Pack
    BY <2>5 DEF Pack
  <2>6. CASE StageCode
    BY <2>6, BoundsAssumption DEF StageCode
  <2>7. CASE FinishMeasure
    BY <2>7 DEF FinishMeasure
  <2>8. CASE CountJump
    BY <2>8 DEF CountJump
  <2> QED
    BY <2>1, <2>2, <2>3, <2>4, <2>5, <2>6, <2>7, <2>8
<1>2. phase' = "COMPLETE" =>
         /\ Late(known.phase) /\ ~word.bump_start /\ ~bump_start'
         /\ \A i \in 1 .. Len(up) : ~up[i].bump_start
  BY <1>1 DEF BumpsInv, StartsComeFirst
<1> QED
  BY <1>1, <1>2, Lasting DEF Finished

LEMMA BumpsSend == TypeOK /\ BumpsInv /\ Send => BumpsInv'
<1> SUFFICES ASSUME TypeOK, BumpsInv, Send PROVE BumpsInv'
  OBVIOUS
<1>1. /\ main0 = "send" /\ main0' = "stage"
      /\ UNCHANGED <<phase, bump_finish, bump_start, distance, up, known, word>>
      /\ down' = down \/ down' = Append(down, packed)
  BY DEF Send, bridge0, core1, loop1
<1>2. FinishIsMeasured' /\ AnswersAreTrue' /\ StartsComeFirst' /\ Finished' = Finished
  BY <1>1 DEF BumpsInv, FinishIsMeasured, AnswersAreTrue, StartsComeFirst, Finished
<1>3. CASE down' = down
  BY <1>1, <1>2, <1>3 DEF BumpsInv, ReportsAreTrue, LateStaysLate
<1>4. CASE down' = Append(down, packed)
  <2>1. /\ Len(down) \in Nat /\ Len(down') = Len(down) + 1
        /\ \A i \in 1 .. Len(down) : down'[i] = down[i]
        /\ down'[Len(down) + 1] = packed
    BY <1>4, Pushed DEF TypeOK
  <2>2. \A i \in 1 .. Len(down') : i \in 1 .. Len(down) \/ i = Len(down) + 1
    BY <2>1
  <2>3. ReportsAreTrue'
    BY <1>1, <1>2, <2>1, <2>2 DEF BumpsInv, ReportsAreTrue
  <2>4. LateStaysLate'
    BY <1>1, <2>1, <2>2 DEF BumpsInv, LateStaysLate
  <2> QED
    BY <1>2, <2>3, <2>4 DEF BumpsInv
<1> QED
  BY <1>1, <1>3, <1>4

LEMMA BumpsCallback1 == TypeOK /\ BumpsInv /\ Callback1 => BumpsInv'
<1> SUFFICES ASSUME TypeOK, BumpsInv, Callback1 PROVE BumpsInv'
  OBVIOUS
<1>1. /\ down # <<>> /\ down' = Tail(down) /\ known' = Head(down)
      /\ UNCHANGED <<phase, bump_finish, bump_start, distance, main0, packed, up, word>>
  BY DEF Callback1, core0, bridge0, loop0, loop1
<1>2. /\ Len(down) \in Nat /\ Len(down') = Len(down) - 1 /\ Len(down) > 0
      /\ \A i \in 1 .. Len(down') : down'[i] = down[i + 1]
      /\ known' = down[1]
  BY <1>1, Popped DEF TypeOK
<1>3. 1 \in 1 .. Len(down) /\ \A i \in 1 .. Len(down') : i + 1 \in 1 .. Len(down)
  BY <1>2
<1>4. \A i \in 1 .. Len(down') : \A j \in i .. Len(down') :
         j + 1 \in i + 1 .. Len(down) /\ j + 1 \in 1 .. Len(down) /\ down'[j] = down[j + 1]
  BY <1>2
<1>5. Late(known.phase) => Late(known'.phase)
  BY <1>2, <1>3 DEF BumpsInv, LateStaysLate
<1>6. FinishIsMeasured' /\ AnswersAreTrue' /\ StartsComeFirst' /\ Finished' = Finished
  BY <1>1, <1>5 DEF BumpsInv, FinishIsMeasured, AnswersAreTrue, StartsComeFirst, Finished
<1>7. ReportsAreTrue'
  BY <1>1, <1>2, <1>3, <1>6 DEF BumpsInv, ReportsAreTrue
<1>8. LateStaysLate'
  BY <1>1, <1>2, <1>3, <1>4 DEF BumpsInv, LateStaysLate
<1> QED
  BY <1>6, <1>7, <1>8 DEF BumpsInv

\* An action of core 1 leaves its word alone or makes one that is true; a send
\* puts it on the link.
LEMMA Core1Words ==
    ASSUME TypeOK, MainLoop1
    PROVE  \/ up' = up /\ word' = word
           \/ /\ up' = up
              /\ word'.exited => known.finish /\ Late(known.phase) /\ ~word'.bump_start
              /\ word'.bump_start => ~Late(known.phase)
           \/ up' = Append(up, word) /\ word' = NoWord
<1> USE DEF Late
<1>1. CASE ModeChange
  BY <1>1 DEF ModeChange, CompareMode, NoteMode, EnterBack, EnterBump, SelectOption
<1>2. CASE PhaseChange
  BY <1>2 DEF PhaseChange
<1>3. CASE Frame
  <2>1. PICK inside \in BOOLEAN, odd \in ControlBits : word' = Word(inside, latched', FALSE, odd)
    BY <1>3 DEF Frame
  <2>2. word'.exited = FALSE
    BY <2>1 DEF Word
  <2> QED
    BY <1>3, <2>2 DEF Frame
<1>4. CASE NoFrame
  BY <1>4 DEF NoFrame, loop1
<1>5. CASE ExitCheck
  BY <1>5, WordsTyped DEF ExitCheck
<1>6. CASE NoExitCheck
  BY <1>6 DEF NoExitCheck
<1>7. CASE BumpDistance
  BY <1>7, WordsTyped DEF BumpDistance
<1>8. CASE BackFrame
  <2>1. PICK odd \in BOOLEAN : word' = Word(back_locked', FALSE, FALSE, odd)
    BY <1>8, BoundsAssumption DEF BackFrame
  <2>2. word'.exited = FALSE /\ word'.bump_start = FALSE
    BY <2>1 DEF Word
  <2> QED
    BY <1>8, <2>2 DEF BackFrame
<1>9. CASE NoBackFrame
  BY <1>9 DEF NoBackFrame
<1>10. CASE JumpStage
  BY <1>10, WordsTyped DEF JumpStage
<1>11. CASE SendTaken
  BY <1>11 DEF SendTaken
<1>12. CASE SendRefused
  BY <1>12, WordsTyped DEF SendRefused
<1> QED
  BY <1>1, <1>2, <1>3, <1>4, <1>5, <1>6, <1>7, <1>8, <1>9, <1>10, <1>11, <1>12 DEF MainLoop1

LEMMA BumpsCore1 == TypeOK /\ BumpsInv /\ MainLoop1 => BumpsInv'
<1> SUFFICES ASSUME TypeOK, BumpsInv, MainLoop1 PROVE BumpsInv'
  OBVIOUS
<1>1. UNCHANGED <<core0, down, known>>
  BY DEF MainLoop1, core1Only, ModeChange, CompareMode, NoteMode, EnterBack, EnterBump,
     SelectOption, PhaseChange, Frame, NoFrame, ExitCheck, NoExitCheck, BumpDistance,
     BackFrame, NoBackFrame, JumpStage, SendTaken, SendRefused
<1>2. UNCHANGED <<phase, bump_finish, bump_start, distance, main0, packed, down, known>>
  BY <1>1 DEF core0, bridge0, loop0
<1>3. FinishIsMeasured' /\ ReportsAreTrue' /\ LateStaysLate' /\ Finished' = Finished
  BY <1>2 DEF BumpsInv, FinishIsMeasured, ReportsAreTrue, LateStaysLate, Finished
<1>4. CASE up' = up /\ word' = word
  BY <1>2, <1>3, <1>4 DEF BumpsInv, AnswersAreTrue, StartsComeFirst
<1>5. CASE /\ up' = up
           /\ word'.exited => known.finish /\ Late(known.phase) /\ ~word'.bump_start
           /\ word'.bump_start => ~Late(known.phase)
  BY <1>2, <1>3, <1>5 DEF BumpsInv, AnswersAreTrue, StartsComeFirst, ReportsAreTrue
<1>6. CASE up' = Append(up, word) /\ word' = NoWord
  <2>1. /\ Len(up) \in Nat /\ Len(up') = Len(up) + 1
        /\ \A i \in 1 .. Len(up) : up'[i] = up[i]
        /\ up'[Len(up) + 1] = word
    BY <1>6, Pushed DEF TypeOK
  <2>2. \A i \in 1 .. Len(up') : i \in 1 .. Len(up) \/ i = Len(up) + 1
    BY <2>1
  <2>3. ~word'.exited /\ ~word'.bump_start
    BY <1>6, WordsTyped
  <2>4. AnswersAreTrue'
    BY <1>3, <2>1, <2>2, <2>3 DEF BumpsInv, AnswersAreTrue
  <2>5. StartsComeFirst'
    BY <1>2, <2>1, <2>2, <2>3 DEF BumpsInv, StartsComeFirst
  <2> QED
    BY <1>3, <2>4, <2>5 DEF BumpsInv
<1> QED
  BY <1>3, <1>4, <1>5, <1>6, Core1Words

\* Both parts of the invariant.
IInv == CourseInv /\ BumpsInv

LEMMA NextBumps == IInv /\ [Next]_vars => BumpsInv'
<1> SUFFICES ASSUME TypeOK, BumpsInv, [Next]_vars PROVE BumpsInv'
  BY DEF IInv, CourseInv
<1>1. CASE UNCHANGED vars
  BY <1>1 DEF vars, core0, bridge0, loop0, core1, loop1, BumpsInv, FinishIsMeasured,
              ReportsAreTrue, AnswersAreTrue, LateStaysLate, StartsComeFirst, Finished
<1>2. CASE Callback0
  BY <1>2, BumpsCallback0
<1>3. CASE Measure \/ SegmentEnd \/ MainLoop0
  BY <1>3, BumpsCore0, BumpsSend DEF MainLoop0
<1>4. CASE Callback1 \/ MainLoop1
  BY <1>4, BumpsCallback1, BumpsCore1
<1> QED
  BY <1>1, <1>2, <1>3, <1>4 DEF Next

-----------------------------------------------------------------------------
(* The theorems                                                             *)

\* The invariant: the stage a core-0 step works for is the current one, and
\* every report and answer about the bumps, wherever it is, is true and in order.
THEOREM Invariance == Spec => []IInv
<1>1. Init => IInv
  BY InitCourse, InitBumps DEF IInv
<1>2. IInv /\ [Next]_vars => IInv'
  BY NextCourse, NextBumps DEF IInv
<1> QED
  BY <1>1, <1>2, PTL DEF Spec

\* Plan, phases, flags and links keep their types (TypeOK): counters stay in
\* their bounds and neither link ever holds more words than it can.
THEOREM TypeCorrect == Spec => []TypeOK
<1>1. IInv => TypeOK
  BY DEF IInv, CourseInv
<1> QED
  BY <1>1, Invariance, PTL

\* The done flag always speaks of the current stage (DoneIsCurrent), whatever
\* the plan: a callback that is late for its stage cannot end the next one.
THEOREM DoneCorrect == Spec => []DoneIsCurrent
<1>1. IInv => DoneIsCurrent
  BY DEF IInv, CourseInv
<1> QED
  BY <1>1, Invariance, PTL

\* The completed bridge stage leaves no measurement running (CompleteIsClean):
\* no start word comes after the answer, on either link or in either core.
THEOREM CompleteCorrect == Spec => []CompleteIsClean
<1>1. IInv => CompleteIsClean
  BY DEF IInv, BumpsInv, StartsComeFirst, FinishIsMeasured, CompleteIsClean
<1> QED
  BY <1>1, Invariance, PTL

\* The stage ends only after the whole distance (AnswerAfterDistance), for
\* every length of the bumps and either capacity of the links.
THEOREM AnswerCorrect == Spec => AnswerAfterDistance
<1>1. IInv /\ [Next]_vars => (phase # "COMPLETE" /\ phase' = "COMPLETE"
                               => bump_finish /\ distance = BumpLength)
  <2> SUFFICES ASSUME IInv, [Next]_vars, phase # "COMPLETE", phase' = "COMPLETE"
               PROVE  bump_finish /\ distance = BumpLength
    OBVIOUS
  <2>1. TypeOK /\ FinishIsMeasured /\ AnswersAreTrue
    BY DEF IInv, CourseInv, BumpsInv
  <2>2. CASE Callback0
    <3>1. FinishBumps(Head(up)) /\ up # <<>>
      BY <2>2 DEF Callback0, BridgeWord, StartBumps, CountAligned, JustStore, JumpFlag,
                  LaneWord, IdleWord, bridge0
    <3>2. Head(up) = up[1] /\ 1 \in 1 .. Len(up)
      BY <2>1, <3>1, Popped DEF TypeOK
    <3>3. Finished
      BY <2>1, <3>1, <3>2 DEF FinishBumps, AnswersAreTrue
    <3> QED
      BY <2>1, <3>3 DEF Finished, FinishIsMeasured
  <2>3. CASE Measure \/ SegmentEnd \/ MainLoop0
    BY <2>3 DEF Measure, SegmentEnd, MainLoop0, HandBack, SelectMode, Pack, Send, StageCode,
                FinishMeasure, CountJump, bridge0
  <2>4. CASE Callback1 \/ MainLoop1
    BY <2>4, Core1Leaves DEF core0, bridge0
  <2>5. CASE UNCHANGED vars
    BY <2>5 DEF vars, core0, bridge0
  <2> QED
    BY <2>2, <2>3, <2>4, <2>5 DEF Next
<1> QED
  BY <1>1, Invariance, PTL DEF Spec, AnswerAfterDistance

\* The two cores implement the course for every plan: the stages are done in
\* the order of the plan, each once, each ended only by its own completion.
THEOREM CourseCorrect == Spec => ImplementsCourse
<1>1. IInv /\ [Next]_vars => [Course!Next]_(Course!vars)
  BY NextMission DEF IInv
<1> QED
  BY <1>1, InitMission, Invariance, PTL DEF Spec, ImplementsCourse, Course!Spec

-----------------------------------------------------------------------------
(* Progress: the order of core 0's words                                    *)

\* What core 0 would tell core 1 now.
Now == [mode |-> mode, phase |-> phase, finish |-> bump_finish]

\* The words arrive in the order in which they were made: once core 0 has come
\* into B, and stays there, no word behind one in B is outside.
Lasts(B) ==
    /\ known \in B => /\ \A i \in 1 .. Len(down) : down[i] \in B
                      /\ main0 = "send" => packed \in B
                      /\ Now \in B
    /\ \A i \in 1 .. Len(down) : down[i] \in B =>
          /\ \A j \in i .. Len(down) : down[j] \in B
          /\ main0 = "send" => packed \in B
          /\ Now \in B
    /\ main0 = "send" /\ packed \in B => Now \in B

LEMMA LastsQuiet ==
    ASSUME NEW B, Lasts(B), Now \in B => Now' \in B, UNCHANGED <<known, down>>,
           main0' = "send" => \/ main0' = main0 /\ packed' = packed
                              \/ packed' = Now'
    PROVE  Lasts(B)'
BY DEF Lasts

LEMMA LastsSend ==
    ASSUME NEW B, TypeOK, Lasts(B), Send
    PROVE  Lasts(B)'
<1>1. /\ main0 = "send" /\ main0' = "stage" /\ known' = known
      /\ down' = down \/ down' = Append(down, packed)
      /\ Now' = Now
  BY DEF Send, bridge0, core1, Now
<1>2. CASE down' = down
  BY <1>1, <1>2 DEF Lasts
<1>3. CASE down' = Append(down, packed)
  <2>1. /\ Len(down) \in Nat /\ Len(down') = Len(down) + 1
        /\ \A i \in 1 .. Len(down) : down'[i] = down[i]
        /\ down'[Len(down) + 1] = packed
    BY <1>3, Pushed DEF TypeOK
  <2>2. \A i \in 1 .. Len(down') : i \in 1 .. Len(down) \/ i = Len(down) + 1
    BY <2>1
  <2> QED
    BY <1>1, <2>1, <2>2 DEF Lasts
<1> QED
  BY <1>1, <1>2, <1>3

LEMMA LastsCallback1 ==
    ASSUME NEW B, TypeOK, Lasts(B), Callback1
    PROVE  Lasts(B)'
<1>1. /\ down # <<>> /\ down' = Tail(down) /\ known' = Head(down)
      /\ main0' = main0 /\ packed' = packed /\ Now' = Now
  BY DEF Callback1, core0, bridge0, loop0, Now
<1>2. /\ Len(down) \in Nat /\ Len(down') = Len(down) - 1 /\ Len(down) > 0
      /\ \A i \in 1 .. Len(down') : down'[i] = down[i + 1]
      /\ known' = down[1]
  BY <1>1, Popped DEF TypeOK
<1>3. 1 \in 1 .. Len(down) /\ \A i \in 1 .. Len(down') : i + 1 \in 1 .. Len(down)
  BY <1>2
<1>4. \A i \in 1 .. Len(down') : \A j \in i .. Len(down') :
         j + 1 \in i + 1 .. Len(down) /\ down'[j] = down[j + 1]
  BY <1>2
<1> QED
  BY <1>1, <1>2, <1>3, <1>4 DEF Lasts

LEMMA LastsNext ==
    ASSUME NEW B, TypeOK, Lasts(B), [Next]_vars, Now \in B => Now' \in B
    PROVE  Lasts(B)'
<1>1. CASE Callback1
  BY <1>1, LastsCallback1
<1>2. CASE Send
  BY <1>2, LastsSend
<1>3. CASE Pack
  <2>1. UNCHANGED <<known, down>> /\ packed' = Now'
    BY <1>3 DEF Pack, Now, bridge0, core1
  <2> QED
    BY <2>1, LastsQuiet
<1>4. CASE UNCHANGED vars
  <2>1. UNCHANGED <<known, down, main0, packed>>
    BY <1>4 DEF vars, core0, core1, loop0
  <2> QED
    BY <2>1, LastsQuiet
<1>5. CASE MainLoop1
  <2>1. UNCHANGED <<known, down, core0>>
    BY <1>5 DEF MainLoop1, core1Only, ModeChange, CompareMode, NoteMode, EnterBack,
       EnterBump, SelectOption, PhaseChange, Frame, NoFrame, ExitCheck, NoExitCheck,
       BumpDistance, BackFrame, NoBackFrame, JumpStage, SendTaken, SendRefused
  <2>2. UNCHANGED <<known, down, main0, packed>>
    BY <2>1 DEF core0, loop0
  <2> QED
    BY <2>2, LastsQuiet
<1>6. CASE Callback0 \/ Measure \/ SegmentEnd
  <2>1. UNCHANGED <<known, down, main0, packed>>
    BY <1>6 DEF Callback0, Measure, SegmentEnd, core1, loop0
  <2> QED
    BY <2>1, LastsQuiet
<1>7. CASE HandBack \/ SelectMode \/ StageCode \/ FinishMeasure \/ CountJump
  <2>1. UNCHANGED <<known, down>> /\ main0' # "send"
    BY <1>7 DEF HandBack, SelectMode, StageCode, FinishMeasure, CountJump, core1
  <2> QED
    BY <2>1, LastsQuiet
<1> QED
  BY <1>1, <1>2, <1>3, <1>4, <1>5, <1>6, <1>7 DEF Next, MainLoop0

BackWords == { w \in DownWords : w.mode = "BACK" }
PastWords == { w \in DownWords : w.phase # "ALIGN" }
CompleteWords == { w \in DownWords : w.phase = "COMPLETE" }
ReportWords ==
    { w \in DownWords : w.phase = "COMPLETE" \/ (w.phase = "BUMP_DISTANCE" /\ w.finish) }
DrivenWords ==
    { w \in DownWords :
        w.phase \in {"EXIT_CHECK", "BUMP_DISTANCE"} => w.mode = "BRIDGE_BUMP" }

WordsInOrder ==
    /\ Lasts(BackWords) /\ Lasts(PastWords) /\ Lasts(CompleteWords)
    /\ Lasts(ReportWords) /\ Lasts(DrivenWords)
    /\ known \in DrivenWords

\* The way back is never left, and the bridge only when it is completed.
BackIsLast == mode = "BACK" => Current = "BACK" /\ ~pause
BumpsAreStarted == phase = "BUMP_DISTANCE" => bump_start

NowInv == CourseInv /\ BackIsLast /\ BumpsAreStarted /\ Now \in DrivenWords

LEMMA NowTyped == TypeOK => Now \in DownWords
BY DEF TypeOK, Now, DownWords

\* What a step of core 0 may change of what it tells.
LEMMA NowMoves ==
    ASSUME NowInv, [Next]_vars
    PROVE  /\ mode' = "BACK" => Current' = "BACK" /\ ~pause'
           /\ phase' = "BUMP_DISTANCE" => bump_start'
           /\ phase' \in {"EXIT_CHECK", "BUMP_DISTANCE"} => mode' = "BRIDGE_BUMP"
           /\ mode = "BACK" => mode' = "BACK"
           /\ phase # "ALIGN" => phase' # "ALIGN"
           /\ Late(phase) => Late(phase')
           /\ phase = "COMPLETE" => phase' = "COMPLETE"
           /\ phase = "BUMP_DISTANCE" /\ bump_finish =>
                 phase' = "COMPLETE" \/ (phase' = "BUMP_DISTANCE" /\ bump_finish')
<1>1. /\ TypeOK /\ BackIsLast /\ BumpsAreStarted
      /\ phase \in {"EXIT_CHECK", "BUMP_DISTANCE"} => mode = "BRIDGE_BUMP"
      /\ BridgeIsCurrent /\ DoneIsVision /\ DoneIsCurrent
  BY DEF NowInv, CourseInv, DrivenWords, Now
<1> USE DEF Late
<1>2. CASE UNCHANGED core0
  BY <1>1, <1>2 DEF core0, plan, bridge0, BackIsLast, BumpsAreStarted, Current
<1>3. CASE Callback0
  <2> DEFINE w == Head(up)
  <2>1. UNCHANGED <<index, pause, mode>> /\ (BridgeWord(w) \/ JumpFlag(w) \/ LaneWord(w) \/ IdleWord)
    BY <1>3 DEF Callback0
  <2> HIDE DEF w
  <2>2. Current' = Current
    BY <2>1 DEF Current
  <2>3. CASE BridgeWord(w)
    BY <1>1, <2>1, <2>2, <2>3 DEF BridgeWord, StartBumps, CountAligned, FinishBumps, JustStore,
       Starting, BackIsLast, BumpsAreStarted, TypeOK, Phases
  <2>4. CASE JumpFlag(w) \/ LaneWord(w) \/ IdleWord
    BY <1>1, <2>1, <2>2, <2>4 DEF JumpFlag, LaneWord, IdleWord, bridge0, BackIsLast, BumpsAreStarted
  <2> QED
    BY <2>1, <2>3, <2>4
<1>4. CASE HandBack
  BY <1>1, <1>4 DEF HandBack, bridge0, BackIsLast, BumpsAreStarted, BridgeIsCurrent,
     DoneIsVision, DoneIsCurrent, Current
<1>5. CASE SelectMode
  BY <1>1, <1>5 DEF SelectMode, plan, bridge0, BackIsLast, BumpsAreStarted, BridgeIsCurrent,
     Current
<1>6. CASE StageCode
  BY <1>1, <1>6 DEF StageCode, plan, bridge0, BackIsLast, BumpsAreStarted, Current
<1>7. CASE Measure \/ SegmentEnd \/ Pack \/ Send \/ FinishMeasure \/ CountJump
  BY <1>1, <1>7 DEF Measure, SegmentEnd, Pack, Send, FinishMeasure, CountJump, plan, bridge0,
     BackIsLast, BumpsAreStarted, Current
<1> QED
  BY <1>2, <1>3, <1>4, <1>5, <1>6, <1>7, Core1Leaves DEF Next, MainLoop0, vars

LEMMA NextNow == NowInv /\ CourseInv' /\ [Next]_vars => NowInv'
<1> HAVE NowInv /\ CourseInv' /\ [Next]_vars
<1>1. Now' \in DownWords
  BY NowTyped DEF CourseInv, NowInv, TypeOK, Now, DownWords
<1>2. Now'.mode = mode' /\ Now'.phase = phase'
  BY DEF Now
<1> QED
  BY <1>1, <1>2, NowMoves DEF NowInv, BackIsLast, BumpsAreStarted, DrivenWords

\* What arrives behind a word in B is in B.
LEMMA KnownLasts ==
    ASSUME NEW B, TypeOK, Lasts(B), [Next]_vars, known \in B
    PROVE  known' \in B
<1>1. CASE Callback1
  BY <1>1, Popped DEF Callback1, Lasts, TypeOK
<1>2. CASE UNCHANGED known
  BY <1>2
<1>3. ASSUME ~Callback1 PROVE UNCHANGED known
  BY <1>3 DEF Next, vars, core1, Callback0, Measure, SegmentEnd, MainLoop0, HandBack,
     SelectMode, Pack, Send, StageCode, FinishMeasure, CountJump, MainLoop1, core1Only,
     ModeChange, CompareMode, NoteMode, EnterBack, EnterBump, SelectOption, PhaseChange,
     Frame, NoFrame, ExitCheck, NoExitCheck, BumpDistance, BackFrame, NoBackFrame,
     JumpStage, SendTaken, SendRefused
<1> QED
  BY <1>1, <1>2, <1>3

LEMMA NextWords == NowInv /\ CourseInv' /\ WordsInOrder /\ [Next]_vars => WordsInOrder'
<1> HAVE NowInv /\ CourseInv' /\ WordsInOrder /\ [Next]_vars
<1>1. TypeOK /\ TypeOK'
  BY DEF NowInv, CourseInv
<1>2. Now \in DownWords /\ Now' \in DownWords
  BY <1>1, NowTyped DEF TypeOK, Now, DownWords
<1>3. /\ Now.mode = mode /\ Now.phase = phase /\ Now.finish = bump_finish
      /\ Now'.mode = mode' /\ Now'.phase = phase' /\ Now'.finish = bump_finish'
  BY DEF Now
<1>4. Now' \in DrivenWords
  BY NextNow DEF NowInv
<1>5. Lasts(BackWords)'
  <2>1. Now \in BackWords => Now' \in BackWords
    BY <1>2, <1>3, NowMoves DEF BackWords
  <2> QED
    BY <1>1, <2>1, LastsNext DEF WordsInOrder
<1>6. Lasts(PastWords)'
  <2>1. Now \in PastWords => Now' \in PastWords
    BY <1>2, <1>3, NowMoves DEF PastWords
  <2> QED
    BY <1>1, <2>1, LastsNext DEF WordsInOrder
<1>7. Lasts(CompleteWords)'
  <2>1. Now \in CompleteWords => Now' \in CompleteWords
    BY <1>2, <1>3, NowMoves DEF CompleteWords
  <2> QED
    BY <1>1, <2>1, LastsNext DEF WordsInOrder
<1>8. Lasts(ReportWords)'
  <2>1. Now \in ReportWords => Now' \in ReportWords
    BY <1>2, <1>3, NowMoves DEF ReportWords
  <2> QED
    BY <1>1, <2>1, LastsNext DEF WordsInOrder
<1>9. Lasts(DrivenWords)'
  BY <1>1, <1>4, LastsNext DEF WordsInOrder
<1>10. known' \in DrivenWords
  BY <1>1, KnownLasts DEF WordsInOrder
<1>11. BackWords' = BackWords /\ PastWords' = PastWords /\ CompleteWords' = CompleteWords
       /\ ReportWords' = ReportWords /\ DrivenWords' = DrivenWords
  BY DEF BackWords, PastWords, CompleteWords, ReportWords, DrivenWords, DownWords
<1> QED
  BY <1>5, <1>6, <1>7, <1>8, <1>9, <1>10, <1>11 DEF WordsInOrder

-----------------------------------------------------------------------------
(* Progress: what core 1 has reported                                       *)

\* Since it knows of the way back core 1 works for nothing else, and then the
\* words of a locked lane say so.
LaneIsLast ==
    /\ last_option = "BACK" =>
          /\ known.mode = "BACK"
          /\ main1 \in {"top", "enter_back", "option", "back", "send_back", "jump"}
    /\ last_option = "BACK" /\ back_locked /\ main1 = "send_back" => word.aligned

PhaseIsKnown ==
    /\ last_phase = "EXIT_CHECK" => known.phase # "ALIGN"
    /\ last_phase = "BUMP_DISTANCE" => Late(known.phase)

\* What counts as sent has been acted on or is on its way.
StartIsSent ==
    /\ main1 = "send_start" => word.bump_start
    /\ exit_sent /\ last_phase = "EXIT_CHECK" =>
          Late(phase) \/ \E i \in 1 .. Len(up) : up[i].bump_start

AckIsSent ==
    /\ main1 = "send_ack" => word.exited
    /\ finish_sent /\ last_phase = "BUMP_DISTANCE" =>
          phase = "COMPLETE" \/ \E i \in 1 .. Len(up) : up[i].exited

Core1Inv == LaneIsLast /\ PhaseIsKnown /\ StartIsSent /\ AckIsSent

PInv == NowInv /\ WordsInOrder /\ Core1Inv

\* A step of core 1's main loop.
LEMMA Core1Known == MainLoop1 => UNCHANGED <<phase, known>>
BY DEF MainLoop1, core1Only, core0, bridge0, ModeChange, CompareMode, NoteMode, EnterBack,
   EnterBump, SelectOption, PhaseChange, Frame, NoFrame, ExitCheck, NoExitCheck,
   BumpDistance, BackFrame, NoBackFrame, JumpStage, SendTaken, SendRefused

LEMMA Core1Lane == TypeOK /\ Core1Inv /\ MainLoop1 => LaneIsLast'
<1> HAVE TypeOK /\ Core1Inv /\ MainLoop1
<1>1. known' = known
  BY Core1Known
<1> USE <1>1 DEF Core1Inv, LaneIsLast, flags1, lane1, loop1
<1>2. CASE ModeChange
  BY <1>2 DEF ModeChange, CompareMode, NoteMode, EnterBack, EnterBump, SelectOption
<1>3. CASE PhaseChange
  BY <1>3 DEF PhaseChange
<1>4. CASE Frame \/ NoFrame \/ NoExitCheck
  BY <1>4 DEF Frame, NoFrame, NoExitCheck
<1>5. CASE ExitCheck
  BY <1>5 DEF ExitCheck
<1>6. CASE BumpDistance
  BY <1>6 DEF BumpDistance
<1>7. CASE BackFrame
  <2>1. main1' = "send_back" /\ last_option' = last_option /\ known.mode = "BACK"
        /\ main1 = "back"
    BY <1>7 DEF BackFrame
  <2>2. PICK odd \in BOOLEAN : word' = Word(back_locked', FALSE, FALSE, odd)
    BY <1>7, BoundsAssumption DEF BackFrame
  <2>3. word'.aligned = back_locked'
    BY <2>2 DEF Word
  <2> QED
    BY <2>1, <2>3
<1>8. CASE NoBackFrame
  BY <1>8 DEF NoBackFrame
<1>9. CASE JumpStage
  BY <1>9 DEF JumpStage
<1>10. CASE SendTaken \/ SendRefused
  BY <1>10 DEF SendTaken, SendRefused, After
<1> QED
  BY <1>2, <1>3, <1>4, <1>5, <1>6, <1>7, <1>8, <1>9, <1>10 DEF MainLoop1

\* A report is about to be sent, has been put on the link, or nothing has changed.
LEMMA Core1Reports ==
    ASSUME TypeOK, Core1Inv, MainLoop1
    PROVE  PhaseIsKnown' /\ StartIsSent' /\ AckIsSent'
<1>1. known' = known /\ phase' = phase
  BY Core1Known
<1> USE <1>1 DEF Core1Inv, PhaseIsKnown, StartIsSent, AckIsSent, Late, flags1, lane1, loop1
<1>2. CASE ModeChange
  BY <1>2 DEF ModeChange, CompareMode, NoteMode, EnterBack, EnterBump, SelectOption
<1>3. CASE PhaseChange
  BY <1>3 DEF PhaseChange
<1>4. CASE Frame \/ NoFrame \/ NoExitCheck \/ BackFrame \/ NoBackFrame
  <2>1. /\ UNCHANGED <<up, last_phase, exit_sent, finish_sent>>
        /\ main1' \notin {"send_start", "send_ack"}
    BY <1>4 DEF Frame, NoFrame, NoExitCheck, BackFrame, NoBackFrame
  <2> QED
    BY <2>1
<1>5. CASE ExitCheck
  BY <1>5, WordsTyped DEF ExitCheck
<1>6. CASE BumpDistance
  BY <1>6, WordsTyped DEF BumpDistance
<1>7. CASE JumpStage
  BY <1>7 DEF JumpStage
<1>8. CASE SendRefused
  BY <1>8 DEF SendRefused, After
<1>9. CASE SendTaken
  <2>1. /\ up' = Append(up, word) /\ main1 \in DOMAIN After /\ last_phase' = last_phase
        /\ exit_sent' => exit_sent \/ main1 = "send_start"
        /\ finish_sent' => finish_sent \/ main1 = "send_ack"
        /\ main1' \notin {"send_start", "send_ack"}
    BY <1>9 DEF SendTaken, After, TypeOK
  <2>2. /\ Len(up) \in Nat /\ Len(up') = Len(up) + 1
        /\ \A i \in 1 .. Len(up) : up'[i] = up[i]
        /\ up'[Len(up) + 1] = word
    BY <2>1, Pushed DEF TypeOK
  <2>3. /\ \A i \in 1 .. Len(up) : i \in 1 .. Len(up')
        /\ Len(up) + 1 \in 1 .. Len(up')
    BY <2>2
  <2>4. StartIsSent'
    BY <2>1, <2>2, <2>3
  <2>5. AckIsSent'
    BY <2>1, <2>2, <2>3
  <2> QED
    BY <2>1, <2>4, <2>5
<1> QED
  BY <1>2, <1>3, <1>4, <1>5, <1>6, <1>7, <1>8, <1>9 DEF MainLoop1

\* The phase the bridge's callback finds is the one core 1 knows, or a later one.
LEMMA KnownIsPast ==
    ASSUME TypeOK, WordsInOrder
    PROVE  known.phase # "ALIGN" => phase # "ALIGN"
<1>1. known \in DownWords
  BY DEF TypeOK
<1>2. known \in PastWords => Now \in PastWords
  BY DEF WordsInOrder, Lasts
<1> QED
  BY <1>1, <1>2 DEF PastWords, Now

\* A start or an answer that core 0 takes has its effect.
LEMMA TakenReports ==
    ASSUME NowInv, Callback0
    PROVE  /\ phase = "EXIT_CHECK" /\ Head(up).bump_start => phase' = "BUMP_DISTANCE"
           /\ phase = "BUMP_DISTANCE" /\ Head(up).exited => phase' = "COMPLETE" /\ done'
<1>1. phase \in {"EXIT_CHECK", "BUMP_DISTANCE"} => mode = "BRIDGE_BUMP"
  BY DEF NowInv, DrivenWords, Now
<1>2. BridgeWord(Head(up)) \/ JumpFlag(Head(up)) \/ LaneWord(Head(up)) \/ IdleWord
  BY DEF Callback0
<1> QED
  BY <1>1, <1>2 DEF BridgeWord, JumpFlag, LaneWord, IdleWord, StartBumps, CountAligned,
     FinishBumps, JustStore, Starting

LEMMA NextCore1 == IInv /\ PInv /\ [Next]_vars => Core1Inv'
<1> SUFFICES ASSUME IInv, PInv, [Next]_vars PROVE Core1Inv'
  OBVIOUS
<1>1. TypeOK /\ Core1Inv /\ LateStaysLate
  BY DEF IInv, CourseInv, BumpsInv, PInv
<1>2. CASE MainLoop1
  BY <1>1, <1>2, Core1Lane, Core1Reports DEF Core1Inv
<1>3. CASE Callback1
  <2>1. UNCHANGED <<phase, up, flags1, loop1>>
    BY <1>3 DEF Callback1, core0, bridge0
  <2>2. known \in BackWords => known' \in BackWords
    BY <1>1, KnownLasts DEF PInv, WordsInOrder
  <2>3. known \in PastWords => known' \in PastWords
    BY <1>1, KnownLasts DEF PInv, WordsInOrder
  <2>4. Late(known.phase) => Late(known'.phase)
    BY <1>1, <1>3, Popped DEF Callback1, LateStaysLate, TypeOK
  <2> QED
    BY <1>1, <2>1, <2>2, <2>3, <2>4 DEF Core1Inv, LaneIsLast, PhaseIsKnown, StartIsSent,
       AckIsSent, flags1, lane1, loop1, BackWords, PastWords, TypeOK
<1>4. CASE Callback0
  <2>1. UNCHANGED <<known, flags1, loop1>> /\ up' = Tail(up) /\ up # <<>>
    BY <1>4 DEF Callback0, core1
  <2>2. /\ Len(up) \in Nat /\ Len(up') = Len(up) - 1 /\ Head(up) = up[1]
        /\ \A i \in 1 .. Len(up') : up'[i] = up[i + 1]
    BY <1>1, <2>1, Popped DEF TypeOK
  <2>3. \A i \in 1 .. Len(up) : i = 1 \/ (i - 1 \in 1 .. Len(up') /\ up'[i - 1] = up[i])
    BY <2>2
  <2>4. (Late(phase) => Late(phase')) /\ (phase = "COMPLETE" => phase' = "COMPLETE")
    BY NowMoves DEF PInv
  <2>5. /\ phase = "EXIT_CHECK" /\ up[1].bump_start => Late(phase')
        /\ phase = "BUMP_DISTANCE" /\ up[1].exited => phase' = "COMPLETE"
    BY <1>4, <2>2, TakenReports DEF PInv, Late
  <2>6. /\ last_phase = "EXIT_CHECK" => Late(phase) \/ phase = "EXIT_CHECK"
        /\ last_phase = "BUMP_DISTANCE" => phase \in {"BUMP_DISTANCE", "COMPLETE"}
    BY <1>1, KnownIsPast DEF PInv, Core1Inv, PhaseIsKnown, LateStaysLate, Late, TypeOK, Phases
  <2>7. StartIsSent'
    BY <1>1, <2>1, <2>3, <2>4, <2>5, <2>6 DEF Core1Inv, StartIsSent, flags1, loop1
  <2>8. AckIsSent'
    BY <1>1, <2>1, <2>3, <2>4, <2>5, <2>6 DEF Core1Inv, AckIsSent, flags1, loop1
  <2> QED
    BY <1>1, <2>1, <2>7, <2>8 DEF Core1Inv, LaneIsLast, PhaseIsKnown, flags1, lane1, loop1
<1>5. CASE Measure \/ SegmentEnd \/ MainLoop0 \/ UNCHANGED vars
  <2>1. UNCHANGED <<phase, up, core1>>
    BY <1>5 DEF Measure, SegmentEnd, MainLoop0, HandBack, SelectMode, Pack, Send, StageCode,
       FinishMeasure, CountJump, bridge0, vars, core0
  <2> QED
    BY <1>1, <2>1 DEF Core1Inv, LaneIsLast, PhaseIsKnown, StartIsSent, AckIsSent, core1,
       flags1, lane1, loop1
<1> QED
  BY <1>2, <1>3, <1>4, <1>5 DEF Next

LEMMA InitProgress == Init => PInv
<1> HAVE Init
<1>1. known = Idle /\ down = <<>> /\ up = <<>> /\ Len(down) = 0 /\ main0 = "pause"
      /\ main1 = "top" /\ last_option = "IDLE" /\ last_phase = "ALIGN"
  BY EmptySeq DEF Init
<1>2. Now = Idle
  BY DEF Init, Now, Idle
<1>3. NowInv /\ Idle \in DrivenWords
  <2>1. Idle \in DrivenWords
    BY IdleTyped DEF DrivenWords
  <2>2. mode = "IDLE" /\ phase = "ALIGN"
    BY DEF Init
  <2> QED
    BY <1>2, <2>1, <2>2, InitCourse DEF NowInv, BackIsLast, BumpsAreStarted
<1>4. Lasts(BackWords) /\ Lasts(PastWords) /\ Lasts(CompleteWords)
      /\ Lasts(ReportWords) /\ Lasts(DrivenWords)
  BY <1>1, <1>2 DEF Lasts
<1>5. Core1Inv
  BY <1>1 DEF Core1Inv, LaneIsLast, PhaseIsKnown, StartIsSent, AckIsSent
<1> QED
  BY <1>1, <1>3, <1>4, <1>5 DEF PInv, WordsInOrder

LEMMA Progressing == Spec => [](IInv /\ PInv)
<1>1. IInv /\ PInv /\ IInv' /\ [Next]_vars => PInv'
  BY NextNow, NextWords, NextCore1 DEF IInv, PInv
<1> QED
  BY <1>1, InitProgress, Invariance, PTL DEF Spec

-----------------------------------------------------------------------------
(* Progress.  The provers know nothing of ENABLED but its place in WF and    *)
(* SF; what they need to know is Enabling, a condition on states: each fair  *)
(* action can be taken when its guard holds.                                 *)

Enabling ==
    /\ ENABLED <<MainLoop0>>_vars /\ ENABLED <<MainLoop1>>_vars
    /\ up # <<>> => ENABLED <<Callback0>>_vars
    /\ down # <<>> => ENABLED <<Callback1>>_vars
    /\ main1 = "back" /\ known.mode = "BACK" => ENABLED <<BackFrame>>_vars
    /\ bump_start /\ ~bump_finish /\ distance < BumpLength => ENABLED <<Measure>>_vars

\* Core 1 has noted the mode of the way back and is about to act upon it: the
\* lock is not its own yet.
Entering == last_option = "BACK" /\ main1 = "enter_back"
Entered == last_option = "BACK" /\ ~Entering

\* Core 1 has locked the heading.
Locked == back_locked /\ Entered

\* The words under way: the last one that still steers is the i-th; none steers.
StaleWord(i) ==
    /\ Locked /\ i \in 1 .. Len(up)
    /\ ~up[i].aligned /\ \A j \in 1 .. Len(up) : j > i => up[j].aligned
CleanLink == Locked /\ \A j \in 1 .. Len(up) : up[j].aligned
EmptyLink == up = <<>>
Told == CleanLink /\ aligned

\* Core 1 at one of the steps of its main loop.
LaneLoop(at) == Locked /\ main1 = at

\* Core 1 enters the way back once.
LEMMA EnteredStays ==
    IInv /\ PInv /\ [Next]_vars =>
      /\ Entered => Entered'
      /\ Entering => Entering' \/ Entered'
      /\ Entering /\ MainLoop1 => Entered'
<1> HAVE IInv /\ PInv /\ [Next]_vars
<1>1. last_option = "BACK" =>
        /\ known.mode = "BACK"
        /\ main1 \in {"top", "enter_back", "option", "back", "send_back", "jump"}
  BY DEF PInv, Core1Inv, LaneIsLast
<1>2. CASE MainLoop1
  <2>1. CASE ModeChange
    BY <1>1, <2>1 DEF Entered, Entering, flags1, ModeChange, CompareMode, NoteMode, EnterBack,
       EnterBump, SelectOption
  <2>2. CASE PhaseChange \/ Frame \/ NoFrame \/ NoExitCheck
    BY <2>2 DEF Entered, Entering, flags1, PhaseChange, Frame, NoFrame, NoExitCheck
  <2>3. CASE ExitCheck \/ BumpDistance
    <3>1. last_option' = last_option
      BY <2>3 DEF ExitCheck, BumpDistance, flags1
    <3>2. main1' \in {"send_start", "send_ack", "back"} /\ main1 # "enter_back"
      BY <2>3 DEF ExitCheck, BumpDistance
    <3> QED
      BY <3>1, <3>2 DEF Entered, Entering
  <2>4. CASE BackFrame \/ NoBackFrame \/ JumpStage \/ SendTaken \/ SendRefused
    <3>1. last_option' = last_option
      BY <2>4 DEF BackFrame, NoBackFrame, JumpStage, SendTaken, SendRefused, flags1
    <3>2. main1 # "enter_back"
      BY <2>4 DEF BackFrame, NoBackFrame, JumpStage, SendTaken, SendRefused, After
    <3>3. main1 \in DOMAIN After => After[main1] # "enter_back"
      BY DEF After
    <3>4. main1' # "enter_back"
      BY <2>4, <3>3 DEF BackFrame, NoBackFrame, JumpStage, SendTaken, SendRefused
    <3> QED
      BY <3>1, <3>2, <3>4 DEF Entered, Entering
  <2> QED
    BY <1>2, <2>1, <2>2, <2>3, <2>4 DEF MainLoop1
<1>3. CASE ~MainLoop1
  <2>1. UNCHANGED <<main1, last_option>>
    BY <1>3 DEF Next, vars, core1, loop1, flags1, Callback0, Callback1, Measure, SegmentEnd,
       MainLoop0, HandBack, SelectMode, Pack, Send, StageCode, FinishMeasure, CountJump
  <2> QED
    BY <1>3, <2>1 DEF Entered, Entering
<1> QED
  BY <1>2, <1>3

LEMMA LockedStays ==
    IInv /\ PInv /\ Locked /\ [Next]_vars => Locked' /\ known.mode = "BACK" /\ mode = "BACK"
<1> SUFFICES ASSUME IInv, PInv, Locked, [Next]_vars
             PROVE  Locked' /\ known.mode = "BACK" /\ mode = "BACK"
  OBVIOUS
<1>1. /\ TypeOK /\ known.mode = "BACK"
      /\ main1 \in {"top", "enter_back", "option", "back", "send_back", "jump"}
  BY DEF IInv, CourseInv, PInv, Core1Inv, LaneIsLast, Locked, Entered
<1>2. known \in BackWords
  BY <1>1 DEF TypeOK, BackWords
<1>3. Now \in BackWords
  BY <1>2 DEF PInv, WordsInOrder, Lasts
<1>4. mode = "BACK"
  BY <1>3 DEF BackWords, Now
<1> USE DEF Locked
<1>5. CASE UNCHANGED <<back_locked, last_option>>
  BY <1>1, <1>4, <1>5, EnteredStays
<1>6. CASE ModeChange
  <2>1. main1 # "enter_back" /\ main1 # "note"
    BY <1>1 DEF Entered, Entering
  <2>2. back_locked' = back_locked
    BY <1>6, <2>1 DEF ModeChange, CompareMode, NoteMode, EnterBack, EnterBump, SelectOption,
       flags1, lane1
  <2> QED
    BY <1>1, <1>4, <2>2, EnteredStays
<1>7. CASE BackFrame
  BY <1>1, <1>4, <1>7, EnteredStays DEF BackFrame, LaneFrame, lane1
<1>8. CASE ~(ModeChange \/ BackFrame)
  <2>1. UNCHANGED <<back_locked, last_option>>
    BY <1>8 DEF Next, vars, core1, flags1, lane1, Callback0, Callback1, Measure, SegmentEnd,
       MainLoop0, HandBack, SelectMode, Pack, Send, StageCode, FinishMeasure, CountJump,
       MainLoop1, PhaseChange, Frame, NoFrame, ExitCheck, NoExitCheck, BumpDistance,
       NoBackFrame, JumpStage, SendTaken, SendRefused
  <2> QED
    BY <1>5, <2>1
<1> QED
  BY <1>6, <1>7, <1>8

\* What happens to the link: the callback takes its first word, a send appends
\* one, and nothing else changes it.
LEMMA UpMoves ==
    [Next]_vars => \/ Callback0
                   \/ SendTaken /\ UNCHANGED <<phase, aligned>>
                   \/ up' = up /\ aligned' = aligned
<1> HAVE [Next]_vars
<1>1. CASE Callback1 \/ Measure \/ SegmentEnd \/ MainLoop0 \/ UNCHANGED vars
  BY <1>1 DEF Callback1, Measure, SegmentEnd, MainLoop0, HandBack, SelectMode, Pack, Send,
     StageCode, FinishMeasure, CountJump, vars, core0, bridge0
<1>2. CASE MainLoop1
  BY <1>2 DEF MainLoop1, core1Only, core0, bridge0, ModeChange, CompareMode, NoteMode,
     EnterBack, EnterBump, SelectOption, PhaseChange, Frame, NoFrame, ExitCheck,
     NoExitCheck, BumpDistance, BackFrame, NoBackFrame, JumpStage, SendTaken, SendRefused
<1> QED
  BY <1>1, <1>2 DEF Next

\* The callback takes the first word.
LEMMA LaneCallback ==
    IInv /\ PInv /\ Callback0 =>
      /\ StaleWord(2) => StaleWord(1)'
      /\ StaleWord(1) => CleanLink'
      /\ CleanLink => Told'
      /\ ~EmptyLink
<1> SUFFICES ASSUME IInv, PInv, Callback0
             PROVE  /\ StaleWord(2) => StaleWord(1)'
                    /\ StaleWord(1) => CleanLink'
                    /\ CleanLink => Told'
                    /\ ~EmptyLink
  OBVIOUS
<1>1. TypeOK /\ up # <<>> /\ up' = Tail(up)
  BY DEF IInv, CourseInv, Callback0
<1>2. /\ Len(up) \in Nat /\ Len(up) > 0 /\ Len(up') = Len(up) - 1 /\ Head(up) = up[1]
      /\ \A i \in 1 .. Len(up') : up'[i] = up[i + 1]
  BY <1>1, Popped DEF TypeOK
<1>3. \A i \in 1 .. Len(up') : i + 1 \in 1 .. Len(up)
  BY <1>2
<1>4. Len(up) <= 2
  BY <1>1, BoundsAssumption DEF TypeOK
<1>5. Locked => Locked' /\ mode = "BACK"
  BY LockedStays DEF Next
<1>6. mode = "BACK" => aligned' = up[1].aligned
  BY <1>2 DEF Callback0, BridgeWord, JumpFlag, LaneWord, IdleWord
<1>7. StaleWord(2) => StaleWord(1)'
  BY <1>2, <1>3, <1>4, <1>5 DEF StaleWord
<1>8. StaleWord(1) => CleanLink'
  BY <1>2, <1>3, <1>5 DEF StaleWord, CleanLink
<1>9. CleanLink => Told'
  BY <1>2, <1>3, <1>5, <1>6 DEF CleanLink, Told
<1> QED
  BY <1>1, <1>7, <1>8, <1>9 DEF EmptyLink

\* A send of core 1 appends a word that says that the heading is locked.
LEMMA LaneSend ==
    IInv /\ PInv /\ SendTaken =>
      /\ StaleWord(2) => StaleWord(2)'
      /\ StaleWord(1) => StaleWord(1)'
      /\ CleanLink => CleanLink'
      /\ ~EmptyLink'
<1> SUFFICES ASSUME IInv, PInv, SendTaken
             PROVE  /\ StaleWord(2) => StaleWord(2)'
                    /\ StaleWord(1) => StaleWord(1)'
                    /\ CleanLink => CleanLink'
                    /\ ~EmptyLink'
  OBVIOUS
<1>1. TypeOK /\ up' = Append(up, word)
  BY DEF IInv, CourseInv, SendTaken
<1>2. /\ Len(up) \in Nat /\ Len(up') = Len(up) + 1
      /\ \A i \in 1 .. Len(up) : up'[i] = up[i]
      /\ up'[Len(up) + 1] = word /\ up' # <<>>
  BY <1>1, Pushed, EmptySeq DEF TypeOK
<1>3. \A i \in 1 .. Len(up') : i \in 1 .. Len(up) \/ i = Len(up) + 1
  BY <1>2
<1>4. \A i \in 1 .. Len(up) : i \in 1 .. Len(up')
  BY <1>2
<1>5. Locked => Locked'
  BY LockedStays DEF Next, MainLoop1
<1>6. Locked => word.aligned
  BY DEF Locked, Entered, PInv, Core1Inv, LaneIsLast, SendTaken, After
<1>7. ASSUME NEW i \in 1 .. 2, StaleWord(i) PROVE StaleWord(i)'
  BY <1>2, <1>3, <1>4, <1>5, <1>6, <1>7 DEF StaleWord
<1>8. CleanLink => CleanLink'
  BY <1>2, <1>3, <1>5, <1>6 DEF CleanLink
<1> QED
  BY <1>2, <1>7, <1>8 DEF EmptyLink

\* As long as the heading is locked, the link drains of the words that steer, and
\* then stays clean.
LEMMA LaneFollow ==
    IInv /\ PInv /\ [Next]_vars =>
      /\ Locked => Locked'
      /\ StaleWord(2) => StaleWord(2)' \/ StaleWord(1)'
      /\ StaleWord(1) => StaleWord(1)' \/ CleanLink'
      /\ CleanLink => CleanLink'
      /\ Told => Told'
      /\ CleanLink /\ ~EmptyLink => Told' \/ ~EmptyLink'
<1> HAVE IInv /\ PInv /\ [Next]_vars
<1>1. Locked => Locked'
  BY LockedStays
<1>2. CASE Callback0
  BY <1>1, <1>2, LaneCallback DEF Told
<1>3. CASE SendTaken /\ aligned' = aligned
  BY <1>1, <1>3, LaneSend DEF Told
<1>4. CASE up' = up /\ aligned' = aligned
  BY <1>1, <1>4 DEF StaleWord, CleanLink, Told, EmptyLink
<1> QED
  BY <1>2, <1>3, <1>4, UpMoves

\* Core 1's main loop comes round to the frame again and again.
LEMMA LaneLoops ==
    IInv /\ PInv /\ Locked /\ [Next]_vars =>
      /\ LaneLoop("top") => LaneLoop("top")' \/ LaneLoop("option")'
      /\ LaneLoop("option") => LaneLoop("option")' \/ LaneLoop("back")'
      /\ LaneLoop("back") => LaneLoop("back")' \/ LaneLoop("send_back")' \/ LaneLoop("jump")'
      /\ LaneLoop("send_back") =>
           LaneLoop("send_back")' \/ (LaneLoop("jump")' /\ ~EmptyLink')
      /\ LaneLoop("jump") => LaneLoop("jump")' \/ LaneLoop("top")'
      /\ MainLoop1 => /\ LaneLoop("top") => LaneLoop("option")'
                      /\ LaneLoop("option") => LaneLoop("back")'
                      /\ LaneLoop("send_back") => LaneLoop("jump")' /\ ~EmptyLink'
                      /\ LaneLoop("jump") => LaneLoop("top")'
      /\ BackFrame => LaneLoop("send_back")'
<1> HAVE IInv /\ PInv /\ Locked /\ [Next]_vars
<1>1. Locked' /\ known.mode = "BACK"
  BY LockedStays
<1>2. CASE main1' = main1 /\ ~MainLoop1
  BY <1>1, <1>2 DEF LaneLoop, MainLoop1
<1>3. CASE MainLoop1
  <2>1. SendTaken => ~EmptyLink'
    BY LaneSend
  <2>2. LaneLoop("send_back") => SendTaken \/ (SendRefused /\ ~EmptyLink')
    BY <1>3 DEF LaneLoop, MainLoop1, ModeChange, CompareMode, NoteMode, EnterBack,
       EnterBump, SelectOption, PhaseChange, Frame, NoFrame, ExitCheck, NoExitCheck,
       BumpDistance, BackFrame, NoBackFrame, JumpStage, SendRefused, EmptyLink
  <2>3. LaneLoop("send_back") => LaneLoop("jump")' /\ ~EmptyLink'
    BY <1>1, <2>1, <2>2 DEF LaneLoop, SendTaken, SendRefused, After
  <2>4. /\ LaneLoop("top") => LaneLoop("option")'
        /\ LaneLoop("option") => LaneLoop("back")'
    <3>1. LaneLoop("top") => known.mode = last_option
      BY <1>1 DEF LaneLoop, Locked, Entered
    <3>2. LaneLoop("top") \/ LaneLoop("option") => CompareMode \/ SelectOption
      BY <1>3 DEF LaneLoop, MainLoop1, ModeChange, NoteMode, EnterBack, EnterBump,
         PhaseChange, Frame, NoFrame, ExitCheck, NoExitCheck, BumpDistance, BackFrame,
         NoBackFrame, JumpStage, SendTaken, SendRefused, After
    <3> QED
      BY <1>1, <3>1, <3>2 DEF LaneLoop, CompareMode, SelectOption
  <2>5. LaneLoop("back") => LaneLoop("send_back")' \/ LaneLoop("jump")'
    <3>1. LaneLoop("back") => BackFrame \/ NoBackFrame
      BY <1>3 DEF LaneLoop, MainLoop1, ModeChange, CompareMode, NoteMode, EnterBack,
         EnterBump, SelectOption, PhaseChange, Frame, NoFrame, ExitCheck, NoExitCheck,
         BumpDistance, JumpStage, SendTaken, SendRefused, After
    <3> QED
      BY <1>1, <3>1 DEF LaneLoop, BackFrame, NoBackFrame
  <2>6. LaneLoop("jump") => LaneLoop("top")'
    BY <1>1, <1>3 DEF LaneLoop, MainLoop1, ModeChange, CompareMode, NoteMode, EnterBack,
       EnterBump, SelectOption, PhaseChange, Frame, NoFrame, ExitCheck, NoExitCheck,
       BumpDistance, BackFrame, NoBackFrame, JumpStage, SendTaken, SendRefused, After
  <2>7. BackFrame => LaneLoop("send_back")'
    BY <1>1 DEF LaneLoop, BackFrame
  <2> QED
    BY <2>3, <2>4, <2>5, <2>6, <2>7
<1>4. ~MainLoop1 => main1' = main1
  BY DEF Next, vars, core1, loop1, Callback0, Callback1, Measure, SegmentEnd, MainLoop0,
     HandBack, SelectMode, Pack, Send, StageCode, FinishMeasure, CountJump
<1> QED
  BY <1>2, <1>3, <1>4

LEMMA LaneStages ==
    IInv /\ PInv /\ Locked =>
      /\ StaleWord(1) \/ StaleWord(2) \/ CleanLink
      /\ LaneLoop("top") \/ LaneLoop("option") \/ LaneLoop("back")
           \/ LaneLoop("send_back") \/ LaneLoop("jump")
<1> HAVE IInv /\ PInv /\ Locked
<1>1. Len(up) \in Nat /\ Len(up) <= 2
  BY BoundsAssumption, LenProperties DEF IInv, CourseInv, TypeOK
<1>2. StaleWord(1) \/ StaleWord(2) \/ CleanLink
  BY <1>1 DEF StaleWord, CleanLink
<1> QED
  BY <1>2 DEF PInv, Core1Inv, LaneIsLast, Locked, Entered, Entering, LaneLoop

LEMMA LaneEnabled ==
    IInv /\ PInv /\ Enabling =>
      /\ ENABLED <<MainLoop1>>_vars
      /\ ~EmptyLink => ENABLED <<Callback0>>_vars
      /\ StaleWord(1) \/ StaleWord(2) => ENABLED <<Callback0>>_vars
      /\ LaneLoop("back") => ENABLED <<BackFrame>>_vars
<1> HAVE IInv /\ PInv /\ Enabling
<1>1. StaleWord(1) \/ StaleWord(2) => ~EmptyLink
  BY EmptySeq DEF StaleWord, EmptyLink
<1>2. LaneLoop("back") => main1 = "back" /\ known.mode = "BACK"
  BY DEF LaneLoop, Locked, Entered, PInv, Core1Inv, LaneIsLast
<1> QED
  BY <1>1, <1>2 DEF EmptyLink, Enabling

\* A lock of the way back gets through for good (LockSettles).
THEOREM Settling == FairSpec /\ []Enabling => LockSettles
<1>1. (Locked => ~Steers) /\ ~Entering => (back_locked /\ last_option = "BACK" => ~Steers)
  BY DEF Locked, Entered
<1>2. Told => ~Steers
  BY DEF Told, Steers
<1>3. CleanLink => Locked
  BY DEF CleanLink
<1>4. Told => CleanLink
  BY DEF Told
<1>5. FairSpec /\ []Enabling => [](Locked => <>CleanLink)
  BY LaneFollow, LaneCallback, LaneStages, LaneEnabled, Progressing, PTL
     DEF FairSpec, Fairness, Spec
<1>6. FairSpec /\ []Enabling => [](Locked => <>LaneLoop("back"))
  BY LaneFollow, LaneLoops, LaneStages, LaneEnabled, Progressing, PTL
     DEF FairSpec, Fairness, Spec
<1>7. FairSpec /\ []Enabling => [](Locked => <>(~EmptyLink))
  BY <1>6, LaneFollow, LaneLoops, LaneStages, LaneEnabled, Progressing, PTL
     DEF FairSpec, Fairness, Spec
<1>8. FairSpec /\ []Enabling => [](CleanLink => <>Told)
  BY <1>3, <1>7, LaneFollow, LaneCallback, LaneEnabled, Progressing, PTL
     DEF FairSpec, Fairness, Spec
<1>9. Entered => ~Entering
  BY DEF Entered
<1>10. FairSpec /\ []Enabling => <>[]~Entering
  BY <1>9, EnteredStays, LaneEnabled, Progressing, PTL DEF FairSpec, Fairness, Spec
<1> QED
  BY <1>1, <1>2, <1>5, <1>8, <1>10, LaneFollow, Progressing, PTL
     DEF FairSpec, Spec, LockSettles

\* What core 1 has to report: the exit from the bridge, once it has seen it, and
\* the answer to the end of the measured distance, once it knows of it.
Reports == {"send_start", "send_ack"}
Due(r) ==
    \/ /\ r = "send_start" /\ phase = "EXIT_CHECK"
       /\ last_phase = "EXIT_CHECK" /\ Exited(exit)
    \/ /\ r = "send_ack" /\ phase = "BUMP_DISTANCE"
       /\ last_phase = "BUMP_DISTANCE" /\ known \in ReportWords
Carries(r, w) == IF r = "send_start" THEN w.bump_start ELSE w.exited
Over(r) == IF r = "send_start" THEN phase = "BUMP_DISTANCE" ELSE phase = "COMPLETE" /\ done

LEMMA PhaseMoves ==
    ASSUME NowInv, [Next]_vars
    PROVE  /\ phase = "EXIT_CHECK" => phase' = phase \/ phase' = "BUMP_DISTANCE"
           /\ phase = "BUMP_DISTANCE" => phase' = phase \/ (phase' = "COMPLETE" /\ done')
           /\ ~Callback0 => phase' = phase
<1>1. CASE Callback0
  <2>1. BridgeWord(Head(up)) \/ JumpFlag(Head(up)) \/ LaneWord(Head(up)) \/ IdleWord
    BY <1>1 DEF Callback0
  <2> QED
    BY <1>1, <2>1 DEF BridgeWord, JumpFlag, LaneWord, IdleWord, StartBumps, CountAligned,
       FinishBumps, JustStore, bridge0
<1>2. CASE ~Callback0
  BY <1>2, Core1Leaves DEF Next, vars, core0, bridge0, Measure, SegmentEnd, MainLoop0, HandBack,
     SelectMode, Pack, Send, StageCode, FinishMeasure, CountJump
<1> QED
  BY <1>1, <1>2

\* Core 1 knows the phase for which a report is due.
LEMMA PhaseOfKnown ==
    ASSUME IInv, PInv
    PROVE  /\ known.phase = "COMPLETE" => phase = "COMPLETE"
           /\ known.phase \in {"EXIT_CHECK", "BUMP_DISTANCE"} => known.mode = "BRIDGE_BUMP"
           /\ known \in ReportWords =>
                 \/ phase = "COMPLETE"
                 \/ phase = "BUMP_DISTANCE" /\ bump_finish
                    /\ known.phase = "BUMP_DISTANCE" /\ known.finish
           /\ last_phase = "EXIT_CHECK" /\ ~Late(phase) =>
                 known.phase = "EXIT_CHECK" /\ phase = "EXIT_CHECK"
<1>1. TypeOK /\ known \in DownWords /\ known.phase \in Phases /\ phase \in Phases
  BY DEF IInv, CourseInv, TypeOK, DownWords
<1>2. /\ known \in CompleteWords => Now \in CompleteWords
      /\ known \in ReportWords => Now \in ReportWords
      /\ known \in DrivenWords
  BY DEF PInv, WordsInOrder, Lasts
<1>3. Now.phase = phase /\ Now.finish = bump_finish
  BY DEF Now
<1>4. known.phase = "COMPLETE" => phase = "COMPLETE"
  BY <1>1, <1>2, <1>3 DEF CompleteWords
<1>5. known \in ReportWords =>
        \/ phase = "COMPLETE"
        \/ phase = "BUMP_DISTANCE" /\ bump_finish
           /\ known.phase = "BUMP_DISTANCE" /\ known.finish
  BY <1>2, <1>3, <1>4 DEF ReportWords
<1>6. last_phase = "EXIT_CHECK" /\ ~Late(phase) =>
        known.phase = "EXIT_CHECK" /\ phase = "EXIT_CHECK"
  <2>1. Late(known.phase) => Late(phase)
    BY DEF IInv, BumpsInv, LateStaysLate
  <2>2. last_phase = "EXIT_CHECK" => known.phase # "ALIGN"
    BY DEF PInv, Core1Inv, PhaseIsKnown
  <2>3. known.phase # "ALIGN" => phase # "ALIGN"
    BY <1>1, KnownIsPast DEF PInv
  <2> QED
    BY <1>1, <2>1, <2>2, <2>3 DEF Late, Phases
<1> QED
  BY <1>2, <1>4, <1>5, <1>6 DEF DrivenWords

LEMMA DueKnown ==
    ASSUME IInv, PInv, NEW r \in Reports, Due(r)
    PROVE  /\ known.mode = "BRIDGE_BUMP" /\ known.phase = phase /\ last_phase = phase
           /\ r = "send_start" => phase = "EXIT_CHECK" /\ Exited(exit)
           /\ r = "send_ack" => phase = "BUMP_DISTANCE" /\ known.finish
BY PhaseOfKnown DEF Due, Late, Reports

\* What is due stays due until core 0 acts on it.
LEMMA DueStays ==
    ASSUME IInv, PInv, [Next]_vars, NEW r \in Reports, Due(r)
    PROVE  Due(r)' \/ Over(r)'
<1>1. TypeOK
  BY DEF IInv, CourseInv
<1>2. known' \in ReportWords \/ known \notin ReportWords
  BY <1>1, KnownLasts DEF PInv, WordsInOrder
<1>3. ReportWords' = ReportWords
  BY DEF ReportWords, DownWords
<1>4. phase' = phase \/ Over(r)'
  BY PhaseMoves DEF Over, PInv, Due
<1>5. last_phase' = last_phase /\ (Exited(exit) => Exited(exit)')
  <2>1. known.phase = last_phase
    BY DueKnown
  <2>2. CASE PhaseChange
    BY <2>1, <2>2 DEF PhaseChange
  <2>3. CASE ExitCheck
    BY <2>3 DEF ExitCheck
  <2>4. CASE ~PhaseChange /\ ~ExitCheck
    BY <2>4 DEF Next, vars, core1, flags1, Callback0, Callback1, Measure, SegmentEnd,
       MainLoop0, HandBack, SelectMode, Pack, Send, StageCode, FinishMeasure, CountJump,
       MainLoop1, ModeChange, CompareMode, NoteMode, EnterBack, EnterBump, SelectOption,
       Frame, NoFrame, NoExitCheck, BumpDistance, BackFrame, NoBackFrame, JumpStage,
       SendTaken, SendRefused
  <2> QED
    BY <2>2, <2>3, <2>4
<1> QED
  BY <1>2, <1>3, <1>4, <1>5 DEF Due

\* As long as a report is due, core 1 sends no other word but one under way, and
\* comes round to the report again and again.
Others(r) == DOMAIN After \ {r}

LEMMA DueLoop ==
    ASSUME IInv, PInv, MainLoop1, NEW r \in Reports, Due(r)
    PROVE  /\ main1' \notin Others(r)
           /\ main1 = "top" => main1' \in {"note", "option"}
           /\ main1 = "note" => main1' = "enter_back"
           /\ main1 = "enter_back" => main1' = "enter_bump"
           /\ main1 = "enter_bump" => main1' = "option"
           /\ main1 = "option" => main1' = "phase"
           /\ main1 = "phase" => main1' = "frame"
           /\ main1 = "frame" => main1' = "exit"
           /\ main1 = "back" => main1' = "jump"
           /\ main1 = "jump" => main1' = "top"
           /\ r = "send_start" => /\ main1 = "exit" /\ ~exit_sent => main1' = "send_start"
                                  /\ main1 = "bump" => main1' = "back"
           /\ r = "send_ack" => /\ main1 = "exit" => main1' = "bump"
                                /\ main1 = "bump" /\ ~finish_sent => main1' = "send_ack"
           /\ main1 = r => main1' = "back" /\ (SendTaken \/ (SendRefused /\ up # <<>>))
<1>1. /\ known.mode = "BRIDGE_BUMP"
      /\ r = "send_start" => known.phase = "EXIT_CHECK" /\ Exited(exit)
      /\ r = "send_ack" => known.phase = "BUMP_DISTANCE" /\ known.finish
      /\ r = "send_start" \/ r = "send_ack"
  BY DueKnown DEF Reports
<1> USE <1>1 DEF Others, After
<1>2. CASE ModeChange \/ PhaseChange \/ NoFrame \/ NoExitCheck \/ NoBackFrame
  BY <1>2 DEF ModeChange, CompareMode, NoteMode, EnterBack, EnterBump, SelectOption,
     PhaseChange, NoFrame, NoExitCheck, NoBackFrame
<1>3. CASE Frame \/ BackFrame
  BY <1>3 DEF Frame, BackFrame
<1>4. CASE ExitCheck
  BY <1>4 DEF ExitCheck
<1>5. CASE BumpDistance
  BY <1>5 DEF BumpDistance
<1>6. CASE JumpStage
  BY <1>6 DEF JumpStage
<1>7. CASE SendTaken \/ SendRefused
  BY <1>7 DEF SendTaken, SendRefused
<1> QED
  BY <1>2, <1>3, <1>4, <1>5, <1>6, <1>7 DEF MainLoop1

\* The stages of a report: on the link in place i; not on the link, on which there
\* are n other words; another word still to be sent.
SentAt(r, i) == Due(r) /\ i \in 1 .. Len(up) /\ Carries(r, up[i])
Unsent(r) == Due(r) /\ main1 \notin Others(r) /\ \A i \in 1 .. Len(up) : ~Carries(r, up[i])
UnsentBehind(r, n) == Unsent(r) /\ Len(up) = n
OtherSend(r) == Due(r) /\ main1 \in Others(r)
Sent(r) == SentAt(r, 1) \/ SentAt(r, 2)

ReportLoop(r, at) == UnsentBehind(r, 0) /\ main1 = at

LEMMA ReportStages ==
    ASSUME NEW r \in Reports
    PROVE  IInv /\ Due(r) =>
             \/ Sent(r) \/ OtherSend(r)
             \/ UnsentBehind(r, 0) \/ UnsentBehind(r, 1) \/ UnsentBehind(r, 2)
<1> HAVE IInv /\ Due(r)
<1>1. Len(up) \in Nat /\ Len(up) <= 2
  BY BoundsAssumption, LenProperties DEF IInv, CourseInv, TypeOK
<1>2. Len(up) = 0 \/ Len(up) = 1 \/ Len(up) = 2
  <2>1. \A n \in Nat : n <= 2 => n = 0 \/ n = 1 \/ n = 2
    OBVIOUS
  <2> QED
    BY <1>1, <2>1
<1>3. \A i \in 1 .. Len(up) : i = 1 \/ i = 2
  BY <1>1, <1>2
<1> QED
  BY <1>2, <1>3 DEF Sent, SentAt, OtherSend, UnsentBehind, Unsent

\* An unsent report has not been forgotten.
LEMMA UnsentIsUnsent ==
    ASSUME IInv, PInv, NEW r \in Reports, Unsent(r)
    PROVE  /\ r = "send_start" => ~exit_sent
           /\ r = "send_ack" => ~finish_sent
BY DueKnown DEF PInv, Core1Inv, StartIsSent, AckIsSent, Unsent, Carries, Late, Reports

\* The callback of core 0 acts on a report and drops another word.
LEMMA ReportCallback ==
    ASSUME NEW r \in Reports
    PROVE  IInv /\ PInv /\ Callback0 =>
             /\ SentAt(r, 1) => Over(r)'
             /\ SentAt(r, 2) => SentAt(r, 1)' \/ Over(r)'
             /\ UnsentBehind(r, 2) => UnsentBehind(r, 1)' \/ Over(r)'
             /\ UnsentBehind(r, 1) => UnsentBehind(r, 0)' \/ Over(r)'
             /\ ~UnsentBehind(r, 0)
             /\ OtherSend(r) => OtherSend(r)' \/ Over(r)'
<1> HAVE IInv /\ PInv /\ Callback0
<1>1. TypeOK /\ up # <<>> /\ up' = Tail(up) /\ main1' = main1
  BY DEF IInv, CourseInv, Callback0, core1, loop1
<1>2. /\ Len(up) \in Nat /\ Len(up) > 0 /\ Len(up') = Len(up) - 1 /\ Head(up) = up[1]
      /\ \A i \in 1 .. Len(up') : up'[i] = up[i + 1]
  BY <1>1, Popped DEF TypeOK
<1>3. \A i \in 1 .. Len(up') : i + 1 \in 1 .. Len(up)
  BY <1>2
<1>4. Due(r) => Due(r)' \/ Over(r)'
  BY DueStays DEF Next
<1>5. SentAt(r, 1) => Over(r)'
  BY <1>2, TakenReports DEF PInv, SentAt, Due, Carries, Over, Reports
<1>6. SentAt(r, 2) => SentAt(r, 1)' \/ Over(r)'
  <2> SUFFICES ASSUME SentAt(r, 2) PROVE SentAt(r, 1)' \/ Over(r)'
    OBVIOUS
  <2>1. 1 \in 1 .. Len(up') /\ up'[1] = up[2]
    BY <1>2 DEF SentAt
  <2> QED
    BY <1>4, <2>1 DEF SentAt, Carries
<1>7. Unsent(r) => Unsent(r)' \/ Over(r)'
  BY <1>1, <1>2, <1>3, <1>4 DEF Unsent, Carries
<1>8. OtherSend(r) => OtherSend(r)' \/ Over(r)'
  BY <1>1, <1>4 DEF OtherSend
<1> QED
  BY <1>2, <1>5, <1>6, <1>7, <1>8 DEF UnsentBehind

\* A step of core 1 goes on to the next stage.
LEMMA ReportCore1 ==
    ASSUME NEW r \in Reports
    PROVE  IInv /\ PInv /\ MainLoop1 =>
             /\ SentAt(r, 1) => SentAt(r, 1)'
             /\ SentAt(r, 2) => SentAt(r, 2)'
             /\ UnsentBehind(r, 2) => UnsentBehind(r, 2)' \/ Sent(r)'
             /\ UnsentBehind(r, 1) => UnsentBehind(r, 1)' \/ Sent(r)'
             /\ UnsentBehind(r, 0) => UnsentBehind(r, 0)' \/ Sent(r)'
             /\ OtherSend(r) => ~OtherSend(r)' /\ Due(r)'
<1> SUFFICES ASSUME IInv, PInv, MainLoop1, Due(r)
             PROVE  /\ SentAt(r, 1) => SentAt(r, 1)'
                    /\ SentAt(r, 2) => SentAt(r, 2)'
                    /\ UnsentBehind(r, 2) => UnsentBehind(r, 2)' \/ Sent(r)'
                    /\ UnsentBehind(r, 1) => UnsentBehind(r, 1)' \/ Sent(r)'
                    /\ UnsentBehind(r, 0) => UnsentBehind(r, 0)' \/ Sent(r)'
                    /\ OtherSend(r) => ~OtherSend(r)' /\ Due(r)'
  BY DEF SentAt, UnsentBehind, Unsent, OtherSend
<1>1. TypeOK /\ Len(up) \in Nat /\ Len(up) <= 2
  BY BoundsAssumption, LenProperties DEF IInv, CourseInv, TypeOK
<1>2. main1' \notin Others(r)
  BY DueLoop
<1>3. Due(r)'
  <2>1. Due(r)' \/ Over(r)'
    BY DueStays DEF Next
  <2>2. phase' = phase
    BY Core1Known
  <2> QED
    BY <2>1, <2>2 DEF Over, Due, Reports
<1>4. CASE up' = up
  BY <1>2, <1>3, <1>4 DEF SentAt, Sent, UnsentBehind, Unsent, OtherSend, Carries
<1>5. CASE SendTaken
  <2>1. /\ up' = Append(up, word) /\ main1 \in DOMAIN After /\ Len(up) < UpCapacity
    BY <1>5 DEF SendTaken
  <2>2. /\ Len(up') = Len(up) + 1
        /\ \A i \in 1 .. Len(up) : up'[i] = up[i]
        /\ up'[Len(up) + 1] = word
    BY <1>1, <2>1, Pushed DEF TypeOK
  <2>3. Len(up) = 0 \/ Len(up) = 1
    <3>1. \A n \in Nat, c \in {1, 2} : n < c => n = 0 \/ n = 1
      OBVIOUS
    <3> QED
      BY <1>1, <2>1, <3>1, BoundsAssumption
  <2>4. ASSUME Unsent(r) PROVE Sent(r)'
    <3>1. main1 = r
      BY <2>1, <2>4 DEF Unsent, Others
    <3>2. Carries(r, word)
      BY <3>1 DEF Carries, Reports, PInv, Core1Inv, StartIsSent, AckIsSent
    <3>3. CASE Len(up) = 0
      BY <1>3, <2>2, <3>2, <3>3 DEF Sent, SentAt, Carries
    <3>4. CASE Len(up) = 1
      BY <1>3, <2>2, <3>2, <3>4 DEF Sent, SentAt, Carries
    <3> QED
      BY <2>3, <3>3, <3>4
  <2>5. ASSUME NEW i \in 1 .. 2, SentAt(r, i) PROVE SentAt(r, i)'
    BY <1>1, <1>3, <2>2, <2>5 DEF SentAt, Carries
  <2> QED
    BY <1>2, <1>3, <2>4, <2>5 DEF UnsentBehind, OtherSend
<1>6. up' = up \/ SendTaken
  BY DEF MainLoop1, core1Only, core0, bridge0, ModeChange, CompareMode, NoteMode,
     EnterBack, EnterBump, SelectOption, PhaseChange, Frame, NoFrame, ExitCheck,
     NoExitCheck, BumpDistance, BackFrame, NoBackFrame, JumpStage, SendRefused
<1> QED
  BY <1>4, <1>5, <1>6

\* Without words of its own to wait for, core 1 comes to the send, and the empty
\* link takes the report.
LEMMA ReportLoops ==
    ASSUME NEW r \in Reports
    PROVE  IInv /\ PInv /\ MainLoop1 =>
             /\ ReportLoop(r, "top") => ReportLoop(r, "note")' \/ ReportLoop(r, "option")'
             /\ ReportLoop(r, "note") => ReportLoop(r, "enter_back")'
             /\ ReportLoop(r, "enter_back") => ReportLoop(r, "enter_bump")'
             /\ ReportLoop(r, "enter_bump") => ReportLoop(r, "option")'
             /\ ReportLoop(r, "option") => ReportLoop(r, "phase")'
             /\ ReportLoop(r, "phase") => ReportLoop(r, "frame")'
             /\ ReportLoop(r, "frame") => ReportLoop(r, "exit")'
             /\ ReportLoop(r, "exit") =>
                  IF r = "send_start" THEN ReportLoop(r, r)' ELSE ReportLoop(r, "bump")'
             /\ ReportLoop(r, "bump") =>
                  IF r = "send_ack" THEN ReportLoop(r, r)' ELSE ReportLoop(r, "back")'
             /\ ReportLoop(r, "back") => ReportLoop(r, "jump")'
             /\ ReportLoop(r, "jump") => ReportLoop(r, "top")'
             /\ ReportLoop(r, r) => Sent(r)'
<1> HAVE IInv /\ PInv /\ MainLoop1
<1>1. ASSUME NEW at, ReportLoop(r, at)
      PROVE  Due(r) /\ Unsent(r) /\ main1 = at /\ up = <<>>
  BY <1>1, EmptySeq DEF ReportLoop, UnsentBehind, Unsent, IInv, CourseInv, TypeOK
<1>2. ASSUME NEW at, ReportLoop(r, at) PROVE UnsentBehind(r, 0)' \/ Sent(r)'
  BY <1>2, ReportCore1 DEF ReportLoop
<1>3. ASSUME NEW at, ReportLoop(r, at), at # r PROVE UnsentBehind(r, 0)'
  <2>1. main1 \notin DOMAIN After
    BY <1>1, <1>3 DEF Unsent, Others
  <2>2. up' = up
    BY <2>1 DEF MainLoop1, core1Only, ModeChange, CompareMode, NoteMode, EnterBack,
       EnterBump, SelectOption, PhaseChange, Frame, NoFrame, ExitCheck, NoExitCheck,
       BumpDistance, BackFrame, NoBackFrame, JumpStage, SendTaken, SendRefused
  <2>3. up = <<>>
    BY <1>1, <1>3
  <2>4. ~Sent(r)'
    BY <2>2, <2>3, EmptySeq DEF Sent, SentAt
  <2> QED
    BY <1>2, <1>3, <2>4
<1>4. ASSUME ReportLoop(r, r) PROVE Sent(r)'
  <2>1. SendTaken
    BY <1>1, <1>4, DueLoop
  <2>2. Len(up') = Len(up) + 1 /\ Len(up) = 0
    BY <1>4, <2>1, Pushed DEF SendTaken, ReportLoop, UnsentBehind, IInv, CourseInv, TypeOK
  <2> QED
    BY <1>2, <1>4, <2>2 DEF UnsentBehind
<1>5. ASSUME NEW at, ReportLoop(r, at)
      PROVE  /\ r = "send_start" => ~exit_sent
             /\ r = "send_ack" => ~finish_sent
  BY <1>1, <1>5, UnsentIsUnsent
<1> QED
  BY <1>1, <1>3, <1>4, <1>5, DueLoop DEF ReportLoop, Reports

LEMMA ReportLoopStages ==
    ASSUME NEW r \in Reports
    PROVE  IInv /\ UnsentBehind(r, 0) =>
             \/ ReportLoop(r, "top") \/ ReportLoop(r, "note") \/ ReportLoop(r, "enter_back")
             \/ ReportLoop(r, "enter_bump") \/ ReportLoop(r, "option") \/ ReportLoop(r, "phase")
             \/ ReportLoop(r, "frame")
             \/ ReportLoop(r, "exit") \/ ReportLoop(r, "bump") \/ ReportLoop(r, "back")
             \/ ReportLoop(r, "jump") \/ ReportLoop(r, r)
BY DEF IInv, CourseInv, TypeOK, ReportLoop, UnsentBehind, Unsent, Others, After

\* Other steps leave the stage alone.
LEMMA ReportRest ==
    ASSUME NEW r \in Reports
    PROVE  IInv /\ PInv /\ [Next]_vars /\ ~Callback0 /\ ~MainLoop1 =>
             /\ SentAt(r, 1) => SentAt(r, 1)'
             /\ SentAt(r, 2) => SentAt(r, 2)'
             /\ UnsentBehind(r, 2) => UnsentBehind(r, 2)'
             /\ UnsentBehind(r, 1) => UnsentBehind(r, 1)'
             /\ UnsentBehind(r, 0) => UnsentBehind(r, 0)' /\ main1' = main1
             /\ OtherSend(r) => OtherSend(r)'
<1> HAVE IInv /\ PInv /\ [Next]_vars /\ ~Callback0 /\ ~MainLoop1
<1>1. up' = up /\ main1' = main1
  BY DEF Next, vars, core1, loop1, Callback1, Measure, SegmentEnd, MainLoop0, HandBack,
     SelectMode, Pack, Send, StageCode, FinishMeasure, CountJump
<1>2. phase' = phase
  BY PhaseMoves DEF PInv
<1>3. Due(r) => Due(r)'
  BY <1>2, DueStays DEF Due, Over, Reports
<1> QED
  BY <1>1, <1>3 DEF SentAt, UnsentBehind, Unsent, OtherSend, Carries

LEMMA ReportEnabled ==
    ASSUME NEW r \in Reports
    PROVE  Enabling =>
             /\ ENABLED <<MainLoop1>>_vars
             /\ SentAt(r, 1) \/ SentAt(r, 2) \/ UnsentBehind(r, 1) \/ UnsentBehind(r, 2)
                  => ENABLED <<Callback0>>_vars
<1> HAVE Enabling
<1>1. SentAt(r, 1) \/ SentAt(r, 2) \/ UnsentBehind(r, 1) \/ UnsentBehind(r, 2) => up # <<>>
  BY EmptySeq DEF SentAt, UnsentBehind
<1> QED
  BY <1>1 DEF Enabling

LEMMA ReportLoopRest ==
    ASSUME NEW r \in Reports
    PROVE  IInv /\ PInv /\ [Next]_vars /\ ~MainLoop1 =>
             /\ ReportLoop(r, "top") => ReportLoop(r, "top")'
             /\ ReportLoop(r, "note") => ReportLoop(r, "note")'
             /\ ReportLoop(r, "enter_back") => ReportLoop(r, "enter_back")'
             /\ ReportLoop(r, "enter_bump") => ReportLoop(r, "enter_bump")'
             /\ ReportLoop(r, "option") => ReportLoop(r, "option")'
             /\ ReportLoop(r, "phase") => ReportLoop(r, "phase")'
             /\ ReportLoop(r, "frame") => ReportLoop(r, "frame")'
             /\ ReportLoop(r, "exit") => ReportLoop(r, "exit")'
             /\ ReportLoop(r, "bump") => ReportLoop(r, "bump")'
             /\ ReportLoop(r, "back") => ReportLoop(r, "back")'
             /\ ReportLoop(r, "jump") => ReportLoop(r, "jump")'
             /\ ReportLoop(r, r) => ReportLoop(r, r)'
<1> HAVE IInv /\ PInv /\ [Next]_vars /\ ~MainLoop1
<1>1. Callback0 => ~UnsentBehind(r, 0)
  BY ReportCallback
<1>2. UnsentBehind(r, 0) => UnsentBehind(r, 0)' /\ main1' = main1
  BY <1>1, ReportRest
<1> QED
  BY <1>2 DEF ReportLoop

\* A report that is due is acted on in the end, refused sends notwithstanding.
LEMMA Reporting ==
    ASSUME NEW r \in Reports
    PROVE  FairSpec /\ []Enabling => (Due(r) ~> Over(r))
<1> USE DEF Sent
<1>1. IInv /\ PInv /\ Callback0 =>
        /\ SentAt(r, 1) => Over(r)'
        /\ SentAt(r, 2) => SentAt(r, 1)' \/ Over(r)'
        /\ UnsentBehind(r, 2) => UnsentBehind(r, 1)' \/ Over(r)'
        /\ UnsentBehind(r, 1) => UnsentBehind(r, 0)' \/ Over(r)'
        /\ ~UnsentBehind(r, 0)
        /\ OtherSend(r) => OtherSend(r)' \/ Over(r)'
  BY ReportCallback
<1>2. IInv /\ PInv /\ MainLoop1 =>
        /\ SentAt(r, 1) => SentAt(r, 1)'
        /\ SentAt(r, 2) => SentAt(r, 2)'
        /\ UnsentBehind(r, 2) => UnsentBehind(r, 2)' \/ SentAt(r, 1)' \/ SentAt(r, 2)'
        /\ UnsentBehind(r, 1) => UnsentBehind(r, 1)' \/ SentAt(r, 1)' \/ SentAt(r, 2)'
        /\ UnsentBehind(r, 0) => UnsentBehind(r, 0)' \/ SentAt(r, 1)' \/ SentAt(r, 2)'
        /\ OtherSend(r) => ~OtherSend(r)' /\ Due(r)'
  BY ReportCore1
<1>3. IInv /\ PInv /\ [Next]_vars /\ ~Callback0 /\ ~MainLoop1 =>
        /\ SentAt(r, 1) => SentAt(r, 1)'
        /\ SentAt(r, 2) => SentAt(r, 2)'
        /\ UnsentBehind(r, 2) => UnsentBehind(r, 2)'
        /\ UnsentBehind(r, 1) => UnsentBehind(r, 1)'
        /\ UnsentBehind(r, 0) => UnsentBehind(r, 0)'
        /\ OtherSend(r) => OtherSend(r)'
  BY ReportRest
<1>4. IInv /\ Due(r) => \/ SentAt(r, 1) \/ SentAt(r, 2) \/ OtherSend(r)
                        \/ UnsentBehind(r, 0) \/ UnsentBehind(r, 1) \/ UnsentBehind(r, 2)
  BY ReportStages
<1>5. Enabling =>
        /\ ENABLED <<MainLoop1>>_vars
        /\ SentAt(r, 1) \/ SentAt(r, 2) \/ UnsentBehind(r, 1) \/ UnsentBehind(r, 2)
             => ENABLED <<Callback0>>_vars
  BY ReportEnabled
<1>6. FairSpec /\ []Enabling => (SentAt(r, 1) \/ SentAt(r, 2) ~> Over(r))
  BY <1>1, <1>2, <1>3, <1>5, Progressing, PTL DEF FairSpec, Fairness, Spec
<1>7. IInv /\ PInv /\ [Next]_vars /\ ~MainLoop1 =>
        /\ ReportLoop(r, "top") => ReportLoop(r, "top")'
        /\ ReportLoop(r, "note") => ReportLoop(r, "note")'
        /\ ReportLoop(r, "enter_back") => ReportLoop(r, "enter_back")'
        /\ ReportLoop(r, "enter_bump") => ReportLoop(r, "enter_bump")'
        /\ ReportLoop(r, "option") => ReportLoop(r, "option")'
        /\ ReportLoop(r, "phase") => ReportLoop(r, "phase")'
        /\ ReportLoop(r, "frame") => ReportLoop(r, "frame")'
        /\ ReportLoop(r, "exit") => ReportLoop(r, "exit")'
        /\ ReportLoop(r, "bump") => ReportLoop(r, "bump")'
        /\ ReportLoop(r, "back") => ReportLoop(r, "back")'
        /\ ReportLoop(r, "jump") => ReportLoop(r, "jump")'
        /\ ReportLoop(r, r) => ReportLoop(r, r)'
  BY ReportLoopRest
<1>8. IInv /\ UnsentBehind(r, 0) =>
        \/ ReportLoop(r, "top") \/ ReportLoop(r, "note") \/ ReportLoop(r, "enter_back")
        \/ ReportLoop(r, "enter_bump") \/ ReportLoop(r, "option") \/ ReportLoop(r, "phase")
        \/ ReportLoop(r, "frame")
        \/ ReportLoop(r, "exit") \/ ReportLoop(r, "bump") \/ ReportLoop(r, "back")
        \/ ReportLoop(r, "jump") \/ ReportLoop(r, r)
  BY ReportLoopStages
<1>9. FairSpec /\ []Enabling => (UnsentBehind(r, 0) ~> SentAt(r, 1) \/ SentAt(r, 2))
  <2>1. CASE r = "send_start"
    <3>1. IInv /\ PInv /\ MainLoop1 =>
            /\ ReportLoop(r, "top") => ReportLoop(r, "note")' \/ ReportLoop(r, "option")'
            /\ ReportLoop(r, "note") => ReportLoop(r, "enter_back")'
            /\ ReportLoop(r, "enter_back") => ReportLoop(r, "enter_bump")'
            /\ ReportLoop(r, "enter_bump") => ReportLoop(r, "option")'
            /\ ReportLoop(r, "option") => ReportLoop(r, "phase")'
            /\ ReportLoop(r, "phase") => ReportLoop(r, "frame")'
            /\ ReportLoop(r, "frame") => ReportLoop(r, "exit")'
            /\ ReportLoop(r, "exit") => ReportLoop(r, r)'
            /\ ReportLoop(r, "bump") => ReportLoop(r, "back")'
            /\ ReportLoop(r, "back") => ReportLoop(r, "jump")'
            /\ ReportLoop(r, "jump") => ReportLoop(r, "top")'
            /\ ReportLoop(r, r) => SentAt(r, 1)' \/ SentAt(r, 2)'
      BY <2>1, ReportLoops
    <3> QED
      BY <1>5, <1>7, <1>8, <3>1, Progressing, PTL DEF FairSpec, Fairness, Spec
  <2>2. CASE r = "send_ack"
    <3>1. IInv /\ PInv /\ MainLoop1 =>
            /\ ReportLoop(r, "top") => ReportLoop(r, "note")' \/ ReportLoop(r, "option")'
            /\ ReportLoop(r, "note") => ReportLoop(r, "enter_back")'
            /\ ReportLoop(r, "enter_back") => ReportLoop(r, "enter_bump")'
            /\ ReportLoop(r, "enter_bump") => ReportLoop(r, "option")'
            /\ ReportLoop(r, "option") => ReportLoop(r, "phase")'
            /\ ReportLoop(r, "phase") => ReportLoop(r, "frame")'
            /\ ReportLoop(r, "frame") => ReportLoop(r, "exit")'
            /\ ReportLoop(r, "exit") => ReportLoop(r, "bump")'
            /\ ReportLoop(r, "bump") => ReportLoop(r, r)'
            /\ ReportLoop(r, "back") => ReportLoop(r, "jump")'
            /\ ReportLoop(r, "jump") => ReportLoop(r, "top")'
            /\ ReportLoop(r, r) => SentAt(r, 1)' \/ SentAt(r, 2)'
      BY <2>2, ReportLoops
    <3> QED
      BY <1>5, <1>7, <1>8, <3>1, Progressing, PTL DEF FairSpec, Fairness, Spec
  <2> QED
    BY <2>1, <2>2 DEF Reports
<1>10. FairSpec /\ []Enabling =>
         (UnsentBehind(r, 1) \/ UnsentBehind(r, 2)
            ~> SentAt(r, 1) \/ SentAt(r, 2) \/ Over(r) \/ UnsentBehind(r, 0))
  BY <1>1, <1>2, <1>3, <1>5, Progressing, PTL DEF FairSpec, Fairness, Spec
<1>11. FairSpec /\ []Enabling =>
         (OtherSend(r) ~> Over(r) \/ (Due(r) /\ ~OtherSend(r)))
  BY <1>1, <1>2, <1>3, <1>5, Progressing, PTL DEF FairSpec, Fairness, Spec
<1> QED
  BY <1>4, <1>6, <1>9, <1>10, <1>11, Progressing, PTL DEF FairSpec

\* An exit that core 1 has seen is acted on by core 0 (ExitIsReported).
THEOREM ExitReporting == FairSpec /\ []Enabling => ExitIsReported
<1>1. PICK r \in Reports : r = "send_start"
  BY DEF Reports
<1>2. FairSpec /\ []Enabling => (Due(r) ~> Over(r))
  BY Reporting
<1>3. Over(r) => phase \in {"BUMP_DISTANCE", "COMPLETE"}
  BY <1>1 DEF Over
<1>4. IInv /\ PInv /\ Exited(exit) /\ last_phase = "EXIT_CHECK" =>
        Due(r) \/ phase \in {"BUMP_DISTANCE", "COMPLETE"}
  BY <1>1, PhaseOfKnown DEF Due, Late
<1> QED
  BY <1>2, <1>3, <1>4, Progressing, PTL DEF FairSpec, ExitIsReported

\* Over the bumps: the distance is covered, the end of the measurement is stored,
\* every word that core 0 makes reports it, and core 1 knows of it.
Bumping == phase = "BUMP_DISTANCE"
Completed == phase = "COMPLETE" /\ done
Measured == Bumping /\ distance = BumpLength
MeasuredAt(at) == Measured /\ ~bump_finish /\ main0 = at
Stored == Bumping /\ bump_finish
Fresh == Stored /\ (main0 = "send" => packed \in ReportWords)
FreshAt(at) == Fresh /\ main0 = at
CompletedAt(at) == Completed /\ main0 = at
OldReport(i) ==
    /\ Fresh /\ i \in 1 .. Len(down) /\ down[i] \notin ReportWords
    /\ \A j \in 1 .. Len(down) : j > i => down[j] \in ReportWords
NewReports == Fresh /\ \A i \in 1 .. Len(down) : down[i] \in ReportWords
NoReports == down = <<>>
Informed == Bumping /\ known \in ReportWords
InformedAt(at) == Informed /\ main1 = at
InformedSends == Informed /\ main1 \in DOMAIN After

LEMMA BumpingStays ==
    IInv /\ PInv /\ [Next]_vars =>
      /\ Bumping => Bumping' \/ Completed'
      /\ Measured => Measured' \/ Completed'
      /\ Stored => Stored' \/ Completed'
      /\ Informed => Informed' \/ Completed'
<1> HAVE IInv /\ PInv /\ [Next]_vars
<1>1. Bumping => Bumping' \/ Completed'
  BY PhaseMoves DEF PInv, Bumping, Completed
<1>2. Bumping /\ Bumping' => (distance = BumpLength => distance' = BumpLength)
  <2>1. CASE Callback0
    BY <2>1 DEF Bumping, Callback0, BridgeWord, JumpFlag, LaneWord, IdleWord, StartBumps,
       CountAligned, FinishBumps, JustStore, bridge0
  <2>2. CASE Measure
    BY <2>2, BoundsAssumption DEF Measure
  <2>3. CASE ~Callback0 /\ ~Measure
    BY <2>3, Core1Leaves DEF Next, vars, core0, bridge0, SegmentEnd, MainLoop0, HandBack,
       SelectMode, Pack, Send, StageCode, FinishMeasure, CountJump
  <2> QED
    BY <2>1, <2>2, <2>3
<1>3. Stored => Stored' \/ Completed'
  BY <1>1, NowMoves DEF PInv, Stored, Bumping
<1>4. ReportWords' = ReportWords /\ (known \in ReportWords => known' \in ReportWords)
  BY KnownLasts DEF IInv, CourseInv, PInv, WordsInOrder, ReportWords, DownWords
<1> QED
  BY <1>1, <1>2, <1>3, <1>4 DEF Measured, Informed

\* The main loop of core 0 goes round.
LEMMA Loop0Moves ==
    [Next]_vars =>
      /\ ~MainLoop0 => main0' = main0
      /\ MainLoop0 => /\ main0 = "pause" => main0' = "mode"
                      /\ main0 = "mode" => main0' = "pack"
                      /\ main0 = "pack" => main0' = "send"
                      /\ main0 = "send" => main0' = "stage"
                      /\ main0 = "stage" => main0' \in {"pause", "finish", "jump"}
                      /\ main0 \in {"finish", "jump"} => main0' = "pause"
<1> HAVE [Next]_vars
<1>1. ~MainLoop0 => main0' = main0
  BY Core1Leaves DEF Next, vars, core0, loop0, Callback0, Measure, SegmentEnd
<1>2. CASE MainLoop0
  BY <1>2 DEF MainLoop0, HandBack, SelectMode, Pack, Send, StageCode, FinishMeasure, CountJump
<1> QED
  BY <1>1, <1>2

LEMMA MeasuredMoves ==
    IInv /\ PInv /\ [Next]_vars /\ Measured' =>
      /\ MeasuredAt("pause") => Stored' \/ MeasuredAt("pause")' \/ MeasuredAt("mode")'
      /\ MeasuredAt("mode") => Stored' \/ MeasuredAt("mode")' \/ MeasuredAt("pack")'
      /\ MeasuredAt("pack") => Stored' \/ MeasuredAt("pack")' \/ MeasuredAt("send")'
      /\ MeasuredAt("send") => Stored' \/ MeasuredAt("send")' \/ MeasuredAt("stage")'
      /\ MeasuredAt("stage") => Stored' \/ MeasuredAt("stage")' \/ MeasuredAt("finish")'
      /\ MeasuredAt("jump") => Stored' \/ MeasuredAt("jump")' \/ MeasuredAt("pause")'
      /\ MeasuredAt("finish") => Stored' \/ MeasuredAt("finish")'
      /\ MainLoop0 =>
           /\ MeasuredAt("pause") => Stored' \/ MeasuredAt("mode")'
           /\ MeasuredAt("mode") => Stored' \/ MeasuredAt("pack")'
           /\ MeasuredAt("pack") => Stored' \/ MeasuredAt("send")'
           /\ MeasuredAt("send") => Stored' \/ MeasuredAt("stage")'
           /\ MeasuredAt("stage") => Stored' \/ MeasuredAt("finish")'
           /\ MeasuredAt("jump") => Stored' \/ MeasuredAt("pause")'
           /\ MeasuredAt("finish") => Stored'
<1> HAVE IInv /\ PInv /\ [Next]_vars /\ Measured'
<1>1. ~bump_finish' \/ Stored'
  BY DEF Measured, Stored
<1>2. MainLoop0 /\ MeasuredAt("stage") => main0' = "finish"
  <2> SUFFICES ASSUME MainLoop0, MeasuredAt("stage") PROVE main0' = "finish"
    OBVIOUS
  <2>1. StageCode
    BY DEF MainLoop0, MeasuredAt, HandBack, SelectMode, Pack, Send, FinishMeasure, CountJump
  <2>2. mode = "BRIDGE_BUMP" /\ bump_start
    BY DEF PInv, NowInv, DrivenWords, Now, BumpsAreStarted, MeasuredAt, Measured, Bumping
  <2> QED
    BY <2>1, <2>2, BoundsAssumption DEF StageCode, MeasuredAt, Measured, Bumping
<1>3. MainLoop0 /\ MeasuredAt("finish") => bump_finish'
  BY DEF MainLoop0, MeasuredAt, HandBack, SelectMode, Pack, Send, StageCode, FinishMeasure,
     CountJump
<1> QED
  BY <1>1, <1>2, <1>3, Loop0Moves DEF MeasuredAt

LEMMA MeasuredStages ==
    IInv /\ Measured =>
      \/ Stored \/ MeasuredAt("pause") \/ MeasuredAt("mode") \/ MeasuredAt("pack")
      \/ MeasuredAt("send") \/ MeasuredAt("stage") \/ MeasuredAt("finish") \/ MeasuredAt("jump")
BY DEF IInv, CourseInv, TypeOK, Measured, MeasuredAt, Stored

LEMMA NowReports == IInv /\ Stored => Now \in ReportWords
BY NowTyped DEF IInv, CourseInv, Stored, Bumping, Now, ReportWords

\* From the next round on the words of core 0 report the end.
LEMMA FreshMoves ==
    IInv /\ PInv /\ [Next]_vars /\ Stored /\ Stored' =>
      /\ Fresh => Fresh'
      /\ MainLoop0 => Fresh'
<1> HAVE IInv /\ PInv /\ [Next]_vars /\ Stored /\ Stored'
<1>1. ReportWords' = ReportWords
  BY DEF ReportWords, DownWords
<1>2. CASE ~MainLoop0
  <2>1. main0' = main0 /\ packed' = packed
    BY <1>2, Core1Leaves DEF Next, vars, core0, loop0, Callback0, Measure, SegmentEnd
  <2> QED
    BY <1>1, <1>2, <2>1 DEF Fresh
<1>3. CASE Pack
  <2>1. packed' = Now
    BY <1>3 DEF Pack, Now
  <2> QED
    BY <1>1, <2>1, NowReports DEF Fresh
<1>4. CASE MainLoop0 /\ ~Pack
  <2>1. main0' # "send"
    BY <1>4 DEF MainLoop0, HandBack, SelectMode, Send, StageCode, FinishMeasure, CountJump
  <2> QED
    BY <2>1 DEF Fresh
<1> QED
  BY <1>2, <1>3, <1>4

\* The link to core 1 drains of older words, and an empty link takes a report.
LEMMA DownMoves ==
    [Next]_vars => \/ Callback1
                   \/ Send /\ known' = known
                   \/ down' = down /\ known' = known
<1> HAVE [Next]_vars
<1>1. CASE Callback0 \/ Measure \/ SegmentEnd \/ MainLoop0 \/ UNCHANGED vars
  BY <1>1 DEF Callback0, Measure, SegmentEnd, MainLoop0, HandBack, SelectMode, Pack, Send,
     StageCode, FinishMeasure, CountJump, vars, core1
<1>2. CASE MainLoop1
  BY <1>2 DEF MainLoop1, core1Only, ModeChange, CompareMode, NoteMode, EnterBack,
     EnterBump, SelectOption, PhaseChange, Frame, NoFrame, ExitCheck, NoExitCheck,
     BumpDistance, BackFrame, NoBackFrame, JumpStage, SendTaken, SendRefused
<1> QED
  BY <1>1, <1>2 DEF Next

LEMMA FreshCallback1 ==
    IInv /\ PInv /\ Callback1 /\ Fresh' =>
      /\ OldReport(2) => OldReport(1)'
      /\ OldReport(1) => NewReports'
      /\ NewReports => Informed'
      /\ ~NoReports
<1> HAVE IInv /\ PInv /\ Callback1 /\ Fresh'
<1>1. TypeOK /\ down # <<>> /\ down' = Tail(down) /\ known' = Head(down)
  BY DEF IInv, CourseInv, Callback1
<1>2. /\ Len(down) \in Nat /\ Len(down) > 0 /\ Len(down') = Len(down) - 1
      /\ known' = down[1]
      /\ \A i \in 1 .. Len(down') : down'[i] = down[i + 1]
  BY <1>1, Popped DEF TypeOK
<1>3. \A i \in 1 .. Len(down') : i + 1 \in 1 .. Len(down)
  BY <1>2
<1>4. Len(down) <= 2 /\ 1 \in 1 .. Len(down)
  BY <1>1, <1>2, BoundsAssumption DEF TypeOK
<1>5. ReportWords' = ReportWords
  BY DEF ReportWords, DownWords
<1>6. OldReport(2) => OldReport(1)'
  BY <1>2, <1>3, <1>4, <1>5 DEF OldReport
<1>7. OldReport(1) => NewReports'
  BY <1>2, <1>3, <1>5 DEF OldReport, NewReports
<1>8. NewReports => Informed'
  BY <1>2, <1>4, <1>5 DEF NewReports, Informed, Fresh, Stored, Bumping
<1> QED
  BY <1>1, <1>6, <1>7, <1>8 DEF NoReports

LEMMA FreshSend ==
    IInv /\ PInv /\ Send /\ Fresh /\ Fresh' =>
      /\ OldReport(2) => OldReport(2)'
      /\ OldReport(1) => OldReport(1)'
      /\ NewReports => NewReports'
      /\ ~NoReports'
<1> SUFFICES ASSUME IInv, PInv, Send, Fresh, Fresh'
             PROVE  /\ OldReport(2) => OldReport(2)'
                    /\ OldReport(1) => OldReport(1)'
                    /\ NewReports => NewReports'
                    /\ ~NoReports'
  OBVIOUS
<1>1. /\ TypeOK /\ packed \in ReportWords
      /\ down' = Append(down, packed) \/ (down' = down /\ down # <<>>)
  BY BoundsAssumption, EmptySeq DEF IInv, CourseInv, Send, Fresh
<1>2. ReportWords' = ReportWords
  BY DEF ReportWords, DownWords
<1>3. CASE down' = down /\ down # <<>>
  BY <1>2, <1>3 DEF OldReport, NewReports, NoReports
<1>4. CASE down' = Append(down, packed)
  <2>1. /\ Len(down) \in Nat /\ Len(down') = Len(down) + 1
        /\ \A i \in 1 .. Len(down) : down'[i] = down[i]
        /\ down'[Len(down) + 1] = packed /\ down' # <<>>
    BY <1>1, <1>4, Pushed, EmptySeq DEF TypeOK
  <2>2. \A i \in 1 .. Len(down') : i \in 1 .. Len(down) \/ i = Len(down) + 1
    BY <2>1
  <2>3. \A i \in 1 .. Len(down) : i \in 1 .. Len(down')
    BY <2>1
  <2>4. ASSUME NEW i \in 1 .. 2, OldReport(i) PROVE OldReport(i)'
    BY <1>1, <1>2, <2>1, <2>2, <2>3, <2>4 DEF OldReport
  <2>5. NewReports => NewReports'
    BY <1>1, <1>2, <2>1, <2>2 DEF NewReports
  <2> QED
    BY <2>1, <2>4, <2>5 DEF NoReports
<1> QED
  BY <1>1, <1>3, <1>4

LEMMA FreshFollow ==
    IInv /\ PInv /\ [Next]_vars /\ Fresh' =>
      /\ OldReport(2) => OldReport(2)' \/ OldReport(1)'
      /\ OldReport(1) => OldReport(1)' \/ NewReports'
      /\ NewReports => NewReports' \/ Informed'
      /\ NewReports /\ ~NoReports => ~NoReports' \/ Informed'
<1> HAVE IInv /\ PInv /\ [Next]_vars /\ Fresh'
<1>1. ReportWords' = ReportWords
  BY DEF ReportWords, DownWords
<1>2. OldReport(2) \/ OldReport(1) \/ NewReports => Fresh
  BY DEF OldReport, NewReports
<1>3. CASE Callback1
  BY <1>3, FreshCallback1
<1>4. CASE Send
  BY <1>2, <1>4, FreshSend
<1>5. CASE down' = down
  BY <1>1, <1>5 DEF OldReport, NewReports, NoReports
<1> QED
  BY <1>3, <1>4, <1>5, DownMoves

LEMMA FreshLoops ==
    IInv /\ PInv /\ [Next]_vars /\ Fresh' =>
      /\ FreshAt("pause") => FreshAt("pause")' \/ FreshAt("mode")'
      /\ FreshAt("mode") => FreshAt("mode")' \/ FreshAt("pack")'
      /\ FreshAt("pack") => FreshAt("pack")' \/ FreshAt("send")'
      /\ FreshAt("send") => FreshAt("send")' \/ ~NoReports'
      /\ FreshAt("stage") =>
           FreshAt("stage")' \/ FreshAt("finish")' \/ FreshAt("jump")' \/ FreshAt("pause")'
      /\ FreshAt("finish") => FreshAt("finish")' \/ FreshAt("pause")'
      /\ FreshAt("jump") => FreshAt("jump")' \/ FreshAt("pause")'
      /\ MainLoop0 =>
           /\ FreshAt("pause") => FreshAt("mode")'
           /\ FreshAt("mode") => FreshAt("pack")'
           /\ FreshAt("pack") => FreshAt("send")'
           /\ FreshAt("send") => ~NoReports'
           /\ FreshAt("stage") => FreshAt("finish")' \/ FreshAt("jump")' \/ FreshAt("pause")'
           /\ FreshAt("finish") => FreshAt("pause")'
           /\ FreshAt("jump") => FreshAt("pause")'
<1> HAVE IInv /\ PInv /\ [Next]_vars /\ Fresh'
<1>1. FreshAt("send") /\ MainLoop0 => Send
  BY DEF FreshAt, MainLoop0, HandBack, SelectMode, Pack, StageCode, FinishMeasure, CountJump
<1>2. FreshAt("send") /\ MainLoop0 => ~NoReports'
  BY <1>1, FreshSend DEF FreshAt
<1> QED
  BY <1>2, Loop0Moves DEF FreshAt

LEMMA FreshStages ==
    IInv /\ PInv /\ Fresh =>
      /\ OldReport(1) \/ OldReport(2) \/ NewReports
      /\ \/ FreshAt("pause") \/ FreshAt("mode") \/ FreshAt("pack") \/ FreshAt("send")
         \/ FreshAt("stage") \/ FreshAt("finish") \/ FreshAt("jump")
<1> HAVE IInv /\ PInv /\ Fresh
<1>1. TypeOK /\ Len(down) \in Nat /\ Len(down) <= 2
  BY BoundsAssumption, LenProperties DEF IInv, CourseInv, TypeOK
<1>2. OldReport(1) \/ OldReport(2) \/ NewReports
  BY <1>1 DEF OldReport, NewReports
<1>3. \/ FreshAt("pause") \/ FreshAt("mode") \/ FreshAt("pack") \/ FreshAt("send")
      \/ FreshAt("stage") \/ FreshAt("finish") \/ FreshAt("jump")
  BY <1>1 DEF TypeOK, FreshAt
<1> QED
  BY <1>2, <1>3

\* Core 1, informed, comes to the test of the phase, and then the answer is due.
LEMMA InformedMoves ==
    ASSUME IInv, PInv, [Next]_vars, Informed', NEW r \in Reports, r = "send_ack"
    PROVE  /\ ~MainLoop1 => main1' = main1
           /\ MainLoop1 /\ Informed =>
                /\ main1 = "top" => main1' \in {"note", "option"}
                /\ main1 = "note" => main1' = "enter_back"
                /\ main1 = "enter_back" => main1' = "enter_bump"
                /\ main1 = "enter_bump" => main1' = "option"
                /\ main1 = "option" => main1' = "phase"
                /\ main1 = "phase" => Due(r)'
                /\ main1 = "frame" => main1' = "exit"
                /\ main1 = "exit" => main1' = "bump"
                /\ main1 = "bump" => main1' \in {"send_ack", "back"}
                /\ main1 = "back" => main1' = "jump"
                /\ main1 = "jump" => main1' = "top"
                /\ main1 \in DOMAIN After => main1' \in {"back", "jump", "top"}
<1>1. ~MainLoop1 => main1' = main1
  BY DEF Next, vars, core1, loop1, Callback0, Callback1, Measure, SegmentEnd, MainLoop0,
     HandBack, SelectMode, Pack, Send, StageCode, FinishMeasure, CountJump
<1>2. ASSUME MainLoop1, Informed
      PROVE  /\ main1 = "top" => main1' \in {"note", "option"}
             /\ main1 = "note" => main1' = "enter_back"
             /\ main1 = "enter_back" => main1' = "enter_bump"
             /\ main1 = "enter_bump" => main1' = "option"
             /\ main1 = "option" => main1' = "phase"
             /\ main1 = "phase" => Due(r)'
             /\ main1 = "frame" => main1' = "exit"
             /\ main1 = "exit" => main1' = "bump"
             /\ main1 = "bump" => main1' \in {"send_ack", "back"}
             /\ main1 = "back" => main1' = "jump"
             /\ main1 = "jump" => main1' = "top"
             /\ main1 \in DOMAIN After => main1' \in {"back", "jump", "top"}
  <2>1. known.mode = "BRIDGE_BUMP" /\ known.phase = "BUMP_DISTANCE"
    BY <1>2, PhaseOfKnown DEF Informed, Bumping
  <2>2. PhaseChange => Due(r)'
    BY <2>1 DEF PhaseChange, Due, Informed, Bumping
  <2> USE <2>1, <2>2 DEF After
  <2>3. CASE ModeChange \/ PhaseChange \/ NoFrame \/ NoExitCheck \/ NoBackFrame
    BY <2>3 DEF ModeChange, CompareMode, NoteMode, EnterBack, EnterBump, SelectOption,
       PhaseChange, NoFrame, NoExitCheck, NoBackFrame
  <2>4. CASE Frame \/ BackFrame \/ ExitCheck
    BY <2>4 DEF Frame, BackFrame, ExitCheck
  <2>5. CASE BumpDistance
    BY <2>5 DEF BumpDistance
  <2>6. CASE JumpStage
    BY <2>6 DEF JumpStage
  <2>7. CASE SendTaken \/ SendRefused
    BY <2>7 DEF SendTaken, SendRefused
  <2> QED
    BY <1>2, <2>3, <2>4, <2>5, <2>6, <2>7 DEF MainLoop1
<1> QED
  BY <1>1, <1>2

\* A completed stage is handed back when the main loop comes round.
HandedBack == pause /\ phase = "COMPLETE"

LEMMA CompletedMoves ==
    IInv /\ PInv /\ [Next]_vars /\ Completed =>
      /\ Completed' \/ HandedBack'
      /\ MainLoop0 /\ main0 = "pause" => HandedBack'
<1> HAVE IInv /\ PInv /\ [Next]_vars /\ Completed
<1>1. phase' = "COMPLETE" /\ phase = "COMPLETE" /\ done
  BY NowMoves DEF PInv, Completed
<1>2. ~pause
  BY <1>1 DEF IInv, CourseInv, DoneIsVision
<1>3. CASE HandBack
  BY <1>1, <1>2, <1>3 DEF HandBack, HandedBack
<1>4. CASE ~HandBack
  <2>1. done'
    <3>1. CASE Callback0
      BY <1>1, <3>1 DEF Callback0, BridgeWord, JumpFlag, LaneWord, IdleWord, StartBumps,
         CountAligned, FinishBumps, JustStore
    <3>2. CASE Measure \/ SegmentEnd \/ SelectMode \/ Pack \/ Send \/ StageCode
               \/ FinishMeasure \/ CountJump
      BY <1>1, <3>2 DEF Measure, SegmentEnd, SelectMode, Pack, Send, StageCode,
         FinishMeasure, CountJump, plan
    <3>3. CASE Callback1 \/ MainLoop1 \/ UNCHANGED vars
      BY <1>1, <3>3, Core1Leaves DEF vars, core0, plan
    <3> QED
      BY <1>4, <3>1, <3>2, <3>3 DEF Next, MainLoop0
  <2>2. ~(MainLoop0 /\ main0 = "pause")
    BY <1>4 DEF MainLoop0, SelectMode, Pack, Send, StageCode, FinishMeasure, CountJump
  <2> QED
    BY <1>1, <2>1, <2>2 DEF Completed
<1> QED
  BY <1>3, <1>4

LEMMA CompletedLoops ==
    IInv /\ PInv /\ [Next]_vars /\ Completed' =>
      /\ ~MainLoop0 =>
           /\ CompletedAt("pause") => CompletedAt("pause")'
           /\ CompletedAt("mode") => CompletedAt("mode")'
           /\ CompletedAt("pack") => CompletedAt("pack")'
           /\ CompletedAt("send") => CompletedAt("send")'
           /\ CompletedAt("stage") => CompletedAt("stage")'
           /\ CompletedAt("finish") => CompletedAt("finish")'
           /\ CompletedAt("jump") => CompletedAt("jump")'
      /\ MainLoop0 =>
           /\ CompletedAt("pause") => HandedBack'
           /\ CompletedAt("mode") => CompletedAt("pack")'
           /\ CompletedAt("pack") => CompletedAt("send")'
           /\ CompletedAt("send") => CompletedAt("stage")'
           /\ CompletedAt("stage") =>
                CompletedAt("finish")' \/ CompletedAt("jump")' \/ CompletedAt("pause")'
           /\ CompletedAt("finish") => CompletedAt("pause")'
           /\ CompletedAt("jump") => CompletedAt("pause")'
BY CompletedMoves, Loop0Moves DEF CompletedAt

LEMMA CompletedStages ==
    IInv /\ Completed =>
      \/ CompletedAt("pause") \/ CompletedAt("mode") \/ CompletedAt("pack")
      \/ CompletedAt("send") \/ CompletedAt("stage") \/ CompletedAt("finish")
      \/ CompletedAt("jump")
BY DEF IInv, CourseInv, TypeOK, CompletedAt

\* A number that keeps within its bound does not grow for ever unless it falls for
\* ever: true of every number, but an induction, which is out of the provers' reach.
DistanceIsBounded ==
    []<><<distance' > distance>>_vars => []<><<distance' < distance>>_vars

\* The timer goes on measuring until the whole distance is covered.
LEMMA BumpingMoves ==
    IInv /\ PInv /\ [Next]_vars /\ Bumping =>
      /\ Bumping' => ~(distance' < distance)
      /\ Measure => distance' > distance
      /\ Enabling => Measured \/ ENABLED <<Measure>>_vars
<1> HAVE IInv /\ PInv /\ [Next]_vars /\ Bumping
<1>1. /\ distance \in 0 .. BumpLength /\ bump_start
      /\ bump_finish => distance = BumpLength
  BY DEF IInv, CourseInv, TypeOK, PInv, NowInv, BumpsAreStarted, BumpsInv, FinishIsMeasured,
     Bumping
<1>2. Measure => distance' > distance
  BY <1>1, BoundsAssumption DEF Measure
<1>3. Bumping' => ~(distance' < distance)
  <2>1. CASE Callback0
    <3>1. Bumping' => distance' = distance
      BY <2>1 DEF Bumping, Callback0, BridgeWord, JumpFlag, LaneWord, IdleWord, StartBumps,
         CountAligned, FinishBumps, JustStore, bridge0
    <3> QED
      BY <1>1, <3>1, BoundsAssumption
  <2>2. CASE Measure
    BY <1>1, <1>2, <2>2, BoundsAssumption DEF Measure
  <2>3. CASE ~Callback0 /\ ~Measure
    <3>1. distance' = distance
      BY <2>3, Core1Leaves DEF Next, vars, core0, bridge0, SegmentEnd, MainLoop0, HandBack,
         SelectMode, Pack, Send, StageCode, FinishMeasure, CountJump
    <3> QED
      BY <1>1, <3>1, BoundsAssumption
  <2> QED
    BY <2>1, <2>2, <2>3
<1>4. Enabling => Measured \/ ENABLED <<Measure>>_vars
  <2>1. distance = BumpLength \/ distance < BumpLength
    BY <1>1, BoundsAssumption
  <2> QED
    BY <1>1, <2>1 DEF Enabling, Measured
<1> QED
  BY <1>2, <1>3, <1>4

LEMMA FreshEnabled ==
    Enabling => /\ ENABLED <<MainLoop0>>_vars /\ ENABLED <<MainLoop1>>_vars
                /\ OldReport(1) \/ OldReport(2) \/ ~NoReports => ENABLED <<Callback1>>_vars
<1>1. OldReport(1) \/ OldReport(2) => ~NoReports
  BY EmptySeq DEF OldReport, NoReports
<1> QED
  BY <1>1 DEF Enabling, NoReports

\* The distance once covered, its end is stored.
LEMMA EndIsStored == FairSpec /\ []Enabling => (Measured ~> Stored \/ Completed)
<1> QED
  BY BumpingStays, MeasuredMoves, MeasuredStages, FreshEnabled, Progressing, PTL
     DEF FairSpec, Fairness, Spec

\* The end once stored, core 1 gets to know of it.
LEMMA EndIsTold == FairSpec /\ []Enabling => (Stored ~> Informed \/ Completed)
<1>1. Fresh => Stored
  BY DEF Fresh
<1>2. (OldReport(1) \/ OldReport(2) \/ NewReports) => Fresh
  BY DEF OldReport, NewReports
<1>3. FairSpec /\ []Enabling => (Stored ~> Fresh \/ Completed)
  BY BumpingStays, FreshMoves, FreshEnabled, Progressing, PTL DEF FairSpec, Fairness, Spec
<1>4. IInv /\ PInv /\ [Next]_vars /\ Fresh => Fresh' \/ Completed'
  BY <1>1, BumpingStays, FreshMoves
<1>5. FairSpec /\ []Enabling => (Fresh ~> NewReports \/ Completed)
  BY <1>2, <1>4, FreshFollow, FreshCallback1, FreshStages, FreshEnabled, Progressing, PTL
     DEF FairSpec, Fairness, Spec
<1>6. FairSpec /\ []Enabling => (NewReports ~> (NewReports /\ ~NoReports) \/ Informed \/ Completed)
  BY <1>2, <1>4, FreshFollow, FreshLoops, FreshStages, FreshEnabled, Progressing, PTL
     DEF FairSpec, Fairness, Spec
<1>7. FairSpec /\ []Enabling => (NewReports /\ ~NoReports ~> Informed \/ Completed)
  BY <1>2, <1>4, FreshFollow, FreshCallback1, FreshEnabled, Progressing, PTL
     DEF FairSpec, Fairness, Spec
<1> QED
  BY <1>3, <1>5, <1>6, <1>7, PTL

LEMMA InformedLoops ==
    ASSUME NEW r \in Reports, r = "send_ack"
    PROVE  IInv /\ PInv /\ [Next]_vars /\ Informed' =>
             /\ ~MainLoop1 =>
                  /\ InformedAt("top") => InformedAt("top")'
                  /\ InformedAt("note") => InformedAt("note")'
                  /\ InformedAt("enter_back") => InformedAt("enter_back")'
                  /\ InformedAt("enter_bump") => InformedAt("enter_bump")'
                  /\ InformedAt("option") => InformedAt("option")'
                  /\ InformedAt("phase") => InformedAt("phase")'
                  /\ InformedAt("frame") => InformedAt("frame")'
                  /\ InformedAt("exit") => InformedAt("exit")'
                  /\ InformedAt("bump") => InformedAt("bump")'
                  /\ InformedAt("back") => InformedAt("back")'
                  /\ InformedAt("jump") => InformedAt("jump")'
                  /\ InformedSends => InformedSends'
             /\ MainLoop1 =>
                  /\ InformedAt("top") => InformedAt("note")' \/ InformedAt("option")'
                  /\ InformedAt("note") => InformedAt("enter_back")'
                  /\ InformedAt("enter_back") => InformedAt("enter_bump")'
                  /\ InformedAt("enter_bump") => InformedAt("option")'
                  /\ InformedAt("option") => InformedAt("phase")'
                  /\ InformedAt("phase") => Due(r)'
                  /\ InformedAt("frame") => InformedAt("exit")'
                  /\ InformedAt("exit") => InformedAt("bump")'
                  /\ InformedAt("bump") => InformedSends' \/ InformedAt("back")'
                  /\ InformedAt("back") => InformedAt("jump")'
                  /\ InformedAt("jump") => InformedAt("top")'
                  /\ InformedSends =>
                       InformedAt("back")' \/ InformedAt("jump")' \/ InformedAt("top")'
<1> HAVE IInv /\ PInv /\ [Next]_vars /\ Informed'
<1>1. "send_ack" \in DOMAIN After
  BY DEF After
<1> QED
  BY <1>1, InformedMoves DEF InformedAt, InformedSends

LEMMA InformedStages ==
    IInv /\ Informed =>
      \/ InformedAt("top") \/ InformedAt("note") \/ InformedAt("enter_back")
      \/ InformedAt("enter_bump") \/ InformedAt("option") \/ InformedAt("phase")
      \/ InformedAt("frame") \/ InformedAt("exit")
      \/ InformedAt("bump") \/ InformedAt("back") \/ InformedAt("jump") \/ InformedSends
BY DEF IInv, CourseInv, TypeOK, InformedAt, InformedSends, After

LEMMA InformedFollow == IInv /\ PInv /\ [Next]_vars /\ Informed => Informed' \/ Completed'
BY BumpingStays

\* Core 1, once it knows of the end, owes the answer.
LEMMA AnswerIsDue ==
    ASSUME NEW r \in Reports, r = "send_ack"
    PROVE  FairSpec /\ []Enabling => (Informed ~> Due(r) \/ Completed)
<1>1. IInv /\ PInv /\ [Next]_vars /\ Informed' =>
        /\ ~MainLoop1 =>
             /\ InformedAt("top") => InformedAt("top")'
             /\ InformedAt("note") => InformedAt("note")'
             /\ InformedAt("enter_back") => InformedAt("enter_back")'
             /\ InformedAt("enter_bump") => InformedAt("enter_bump")'
             /\ InformedAt("option") => InformedAt("option")'
             /\ InformedAt("phase") => InformedAt("phase")'
             /\ InformedAt("frame") => InformedAt("frame")'
             /\ InformedAt("exit") => InformedAt("exit")'
             /\ InformedAt("bump") => InformedAt("bump")'
             /\ InformedAt("back") => InformedAt("back")'
             /\ InformedAt("jump") => InformedAt("jump")'
             /\ InformedSends => InformedSends'
        /\ MainLoop1 =>
             /\ InformedAt("top") => InformedAt("note")' \/ InformedAt("option")'
             /\ InformedAt("note") => InformedAt("enter_back")'
             /\ InformedAt("enter_back") => InformedAt("enter_bump")'
             /\ InformedAt("enter_bump") => InformedAt("option")'
             /\ InformedAt("option") => InformedAt("phase")'
             /\ InformedAt("phase") => Due(r)'
             /\ InformedAt("frame") => InformedAt("exit")'
             /\ InformedAt("exit") => InformedAt("bump")'
             /\ InformedAt("bump") => InformedSends' \/ InformedAt("back")'
             /\ InformedAt("back") => InformedAt("jump")'
             /\ InformedAt("jump") => InformedAt("top")'
             /\ InformedSends =>
                  InformedAt("back")' \/ InformedAt("jump")' \/ InformedAt("top")'
  BY InformedLoops
<1>2. FairSpec /\ []Enabling => (Informed ~> InformedAt("top") \/ InformedAt("phase") \/ Due(r) \/ Completed)
  BY <1>1, InformedStages, InformedFollow, FreshEnabled, Progressing, PTL
     DEF FairSpec, Fairness, Spec
<1>3. InformedAt("top") \/ InformedAt("phase") => Informed
  BY DEF InformedAt
<1>4. FairSpec /\ []Enabling => (InformedAt("top") \/ InformedAt("phase") ~> Due(r) \/ Completed)
  BY <1>1, <1>3, InformedFollow, FreshEnabled, Progressing, PTL DEF FairSpec, Fairness, Spec
<1> QED
  BY <1>2, <1>4, PTL

\* The main loop of core 0 hands a completed stage back.
LEMMA CompletedIsHandedBack == FairSpec /\ []Enabling => (Completed ~> HandedBack)
<1>1. CompletedAt("pause") \/ CompletedAt("mode") \/ CompletedAt("pack") \/ CompletedAt("send")
      \/ CompletedAt("stage") \/ CompletedAt("finish") \/ CompletedAt("jump") => Completed
  BY DEF CompletedAt
<1>2. IInv /\ PInv /\ [Next]_vars /\ Completed => Completed' \/ HandedBack'
  BY CompletedMoves
<1> QED
  BY <1>1, <1>2, CompletedLoops, CompletedStages, FreshEnabled, Progressing, PTL
     DEF FairSpec, Fairness, Spec

LEMMA DistanceIsCovered ==
    FairSpec /\ []Enabling /\ DistanceIsBounded => (Bumping ~> Measured \/ Completed)
<1>1. IInv /\ PInv /\ [Next]_vars /\ Bumping => Bumping' \/ Completed'
  BY BumpingStays
<1> QED
  BY <1>1, BumpingMoves, Progressing, PTL
     DEF FairSpec, Fairness, Spec, DistanceIsBounded

\* The bumps come to an end: the distance, its end, the report, the answer and the
\* completion get through, whatever is refused and preempted (BumpsEnd).
THEOREM BumpsEnding == FairSpec /\ []Enabling /\ DistanceIsBounded => BumpsEnd
<1>1. PICK r \in Reports : r = "send_ack"
  BY DEF Reports
<1>2. FairSpec /\ []Enabling => (Due(r) ~> Over(r))
  BY Reporting
<1>3. FairSpec /\ []Enabling => (Informed ~> Due(r) \/ Completed)
  BY <1>1, AnswerIsDue
<1>4. Over(r) => Completed
  BY <1>1 DEF Over, Completed
<1>5. HandedBack <=> (pause /\ phase = "COMPLETE")
  BY DEF HandedBack
<1>6. Bumping <=> phase = "BUMP_DISTANCE"
  BY DEF Bumping
<1> QED
  BY <1>2, <1>3, <1>4, <1>5, <1>6, DistanceIsCovered, EndIsStored, EndIsTold,
     CompletedIsHandedBack, PTL
     DEF BumpsEnd
=============================================================================
