------------------------------ MODULE Mission ------------------------------
(***************************************************************************)
(* The course of stages, run by both cores.  Core 0 keeps the plan, the    *)
(* phase of the bridge stage and the distance over the bumps; core 1 works *)
(* on copies of mode, phase and bump_finish that core 0 sends once per     *)
(* main loop, and answers with words that core 0 reads according to the    *)
(* mode it is in when they arrive.                                         *)
(*                                                                         *)
(* Each core is a main loop, one action per test or group of writes of     *)
(* shared data (the README lists the groups), preempted by the callback of *)
(* its link; on core 0 also by the 1 ms timer interrupt.  A link is a      *)
(* queue, as AppipcSpec promises.  What the camera sees is arbitrary.  The *)
(* forced turn is left to BlindTurn: here it shows only as an aligned word *)
(* that does not count.  The path is replayed, never recorded.             *)
(***************************************************************************)
EXTENDS Naturals, Sequences, BridgeExit

CONSTANTS
    Plan,           \* vision_mode_plan
    ConfirmCount,   \* BRIDGE_ALIGNED_CONFIRM_COUNT
    JumpTarget,     \* jumps of the jumping stage (3), on either core
    BackConfirm,    \* BACK_ALIGN_CONFIRM_FRAMES
    BumpLength,     \* length of the bumps, in ticks of the speed loop
    Segments,       \* mul_header.segment_num of the recorded path
    ControlBits,    \* bit 0 of the controls that frames give: FALSE, TRUE or both
    UpCapacity,     \* words a link holds: AppipcSpec allows 2, the mailbox and
    DownCapacity    \* one read from it whose callback has not run; 1 without

Stages == {"BRIDGE_BUMP", "JUMP", "BACK"}

\* No phase or count is ever set back, so a stage can be done once, and
\* VISION_BACK, which nothing ends, comes last.
ASSUME PlanAssumption ==
    /\ Plan \in Seq(Stages)
    /\ \A i, j \in 1 .. Len(Plan) : Plan[i] = Plan[j] => i = j
    /\ \A i \in 1 .. Len(Plan) : Plan[i] = "BACK" => i = Len(Plan)
ASSUME BoundsAssumption ==
    /\ ConfirmCount \in Nat \ {0} /\ JumpTarget \in Nat \ {0} /\ BackConfirm \in Nat \ {0}
    /\ BumpLength \in Nat \ {0} /\ Segments \in Nat
    /\ ControlBits \subseteq BOOLEAN /\ ControlBits # {}
    /\ UpCapacity \in {1, 2} /\ DownCapacity \in {1, 2}

Modes == Stages \union {"IDLE"}
Phases == {"ALIGN", "EXIT_CHECK", "BUMP_DISTANCE", "COMPLETE"}

\* A word of core 1.  odd is bit 0: the jump flag in the jumping stage, a bit
\* of the control value of a valid word in the others.
UpWords == [ aligned : BOOLEAN, bump_start : BOOLEAN, exited : BOOLEAN, odd : BOOLEAN ]
Word(aligned, bump_start, exited, odd) ==
    [aligned |-> aligned, bump_start |-> bump_start, exited |-> exited, odd |-> odd]
NoWord == Word(FALSE, FALSE, FALSE, FALSE)
JumpWord == Word(FALSE, FALSE, FALSE, TRUE)
StartWord == Word(FALSE, TRUE, FALSE, FALSE)
AckWord == Word(FALSE, FALSE, TRUE, FALSE)

\* A word of core 0.
DownWords == [ mode : Modes, phase : Phases, finish : BOOLEAN ]

VARIABLES
    \* core 0
    index,          \* vision_plan_index
    pause,          \* pause_flag: TRUE while the path is replayed
    done,           \* vision_phase_done_flag
    mode,           \* vision_detect_mode
    phase,          \* vision_phase_bab
    aligned_count,  \* bridge_aligned_count
    aligned,        \* bridge_aligned_from_core1
    bump_start,     \* vision_bump_start
    bump_finish,    \* vision_bump_finish
    distance,       \* distance_recover
    jump_word,      \* is_jump_from_core1
    jump_updated,   \* is_jump_updated
    jump_count,     \* jump_count
    segment,        \* current_segment
    main0,          \* next step of its main loop
    packed,         \* the word of appipc_send_core0_data under way
    \* the links
    down,           \* core 0 to core 1
    up,             \* core 1 to core 0
    \* core 1
    known,          \* function_option, vision_phase_bab, core0_vision_bump_finish
    last_option,    \* last_function_option
    last_phase,     \* last_vision_phase_bab
    latched,        \* bridge_failsafe_exit_latched
    exit,           \* stage and white_frame_count of bridge_exit_params
    exit_sent,      \* bridge_exit_ipc_sent
    finish_sent,    \* bump_finish_ipc_sent
    seen_jumps,     \* actual_jump_count
    back_count,     \* back_align_count
    back_locked,    \* back_yaw_locked
    main1,          \* next step of its main loop
    word            \* the word of the send under way

plan == <<index, pause, done, segment>>
bridge0 == <<phase, aligned_count, aligned, bump_start, bump_finish, distance>>
jumps0 == <<jump_word, jump_updated, jump_count>>
loop0 == <<main0, packed>>
lane1 == <<back_count, back_locked>>
flags1 == <<last_option, last_phase, latched, exit, exit_sent, finish_sent, seen_jumps, lane1>>
loop1 == <<main1, word>>
core0 == <<plan, mode, bridge0, jumps0, loop0>>
core1 == <<known, flags1, loop1>>
vars == <<core0, down, up, core1>>

\* Plan, phases and flags of both cores and the words between them.
TypeOK ==
    /\ index \in 0 .. Len(Plan) /\ segment \in Nat
    /\ pause \in BOOLEAN /\ done \in BOOLEAN
    /\ mode \in Modes /\ phase \in Phases
    /\ aligned_count \in 0 .. ConfirmCount /\ aligned \in BOOLEAN
    /\ bump_start \in BOOLEAN /\ bump_finish \in BOOLEAN
    /\ distance \in 0 .. BumpLength
    /\ jump_word \in BOOLEAN /\ jump_updated \in BOOLEAN
    /\ jump_count \in 0 .. JumpTarget
    /\ main0 \in {"pause", "mode", "pack", "send", "stage", "finish", "jump"}
    /\ packed \in DownWords
    /\ down \in Seq(DownWords) /\ Len(down) <= DownCapacity
    /\ up \in Seq(UpWords) /\ Len(up) <= UpCapacity
    /\ known \in DownWords
    /\ last_option \in Modes /\ last_phase \in Phases
    /\ latched \in BOOLEAN /\ exit \in Searches
    /\ back_count \in 0 .. BackConfirm /\ back_locked \in BOOLEAN
    /\ exit_sent \in BOOLEAN /\ finish_sent \in BOOLEAN
    /\ seen_jumps \in 0 .. JumpTarget
    /\ main1 \in {"top", "note", "enter_back", "enter_bump", "option",
                  "phase", "frame", "exit", "bump", "back", "jump",
                  "send_frame", "send_start", "send_ack", "send_back", "send_jump"}
    /\ word \in UpWords

Idle == [mode |-> "IDLE", phase |-> "ALIGN", finish |-> FALSE]

Init ==
    /\ index = 0 /\ segment = 0 /\ pause = TRUE /\ done = FALSE
    /\ mode = "IDLE" /\ phase = "ALIGN" /\ aligned_count = 0 /\ aligned = FALSE
    /\ bump_start = FALSE /\ bump_finish = FALSE /\ distance = 0
    /\ jump_word = FALSE /\ jump_updated = FALSE /\ jump_count = 0
    /\ main0 = "pause" /\ packed = Idle
    /\ down = <<>> /\ up = <<>>
    /\ known = Idle /\ last_option = "IDLE" /\ last_phase = "ALIGN"
    /\ latched = FALSE /\ exit = NewSearch /\ exit_sent = FALSE /\ finish_sent = FALSE
    /\ seen_jumps = 0 /\ back_count = 0 /\ back_locked = FALSE
    /\ main1 = "top" /\ word = NoWord

-----------------------------------------------------------------------------
(* Core 0: appipc_callback                                                  *)

Starting(w) == bump_start \/ w.bump_start

StartBumps(w) ==
    /\ Starting(w) /\ phase \in {"ALIGN", "EXIT_CHECK"}
    /\ phase' = "BUMP_DISTANCE"
    /\ bump_start' = TRUE /\ bump_finish' = FALSE
    /\ distance' = 0 /\ aligned_count' = 0 /\ aligned' = FALSE
    /\ UNCHANGED done

\* An aligned word counts, unless a forced turn is requested or under way.
CountAligned(w) ==
    /\ ~Starting(w) /\ phase = "ALIGN"
    /\ aligned_count' \in
          {0} \union (IF w.aligned THEN {aligned_count + 1} \cap 0 .. ConfirmCount ELSE {})
    /\ phase' = IF aligned_count' = ConfirmCount THEN "EXIT_CHECK" ELSE phase
    /\ aligned' = w.aligned
    /\ UNCHANGED <<bump_start, bump_finish, distance, done>>

\* Mutant: bump_finish is left set.
FinishBumpsOnly(w) ==
    /\ phase = "BUMP_DISTANCE" /\ w.exited
    /\ phase' = "COMPLETE"
    /\ done' = TRUE
    /\ bump_start' = FALSE
    /\ aligned' = w.aligned
    /\ UNCHANGED <<aligned_count, bump_finish, distance>>

FinishBumps(w) ==
    /\ phase = "BUMP_DISTANCE" /\ w.exited
    /\ phase' = "COMPLETE"
    /\ done' = TRUE
    /\ bump_start' = FALSE /\ bump_finish' = FALSE
    /\ aligned' = w.aligned
    /\ UNCHANGED <<aligned_count, distance>>

JustStore(w) ==
    /\ \/ phase = "COMPLETE"
       \/ phase = "BUMP_DISTANCE" /\ ~w.exited
       \/ phase = "EXIT_CHECK" /\ ~Starting(w)
    /\ bump_start' = Starting(w)
    /\ aligned' = w.aligned
    /\ UNCHANGED <<phase, aligned_count, bump_finish, distance, done>>

BridgeWord(w) ==
    /\ mode = "BRIDGE_BUMP"
    /\ StartBumps(w) \/ CountAligned(w) \/ FinishBumps(w) \/ JustStore(w)
    /\ UNCHANGED <<jump_word, jump_updated>>

\* In the jumping stage any word is a jump flag: data & 1.
JumpFlag(w) ==
    /\ mode = "JUMP"
    /\ jump_word' = w.odd /\ jump_updated' = TRUE
    /\ UNCHANGED <<bridge0, done>>

\* On the way back a word says whether core 1 has locked the heading.
LaneWord(w) ==
    /\ mode = "BACK"
    /\ aligned' = w.aligned
    /\ UNCHANGED <<phase, aligned_count, bump_start, bump_finish, distance, done,
                   jump_word, jump_updated>>

IdleWord ==
    /\ mode = "IDLE"
    /\ UNCHANGED <<bridge0, done, jump_word, jump_updated>>

Callback0 ==
    /\ up # <<>>
    /\ up' = Tail(up)
    /\ BridgeWord(Head(up)) \/ JumpFlag(Head(up)) \/ LaneWord(Head(up)) \/ IdleWord
    /\ UNCHANGED <<index, pause, segment, mode, jump_count, loop0, down, core1>>

-----------------------------------------------------------------------------
(* Core 0: what the timer interrupt does to the course                      *)

Measure ==
    /\ bump_start /\ ~bump_finish /\ distance < BumpLength
    /\ distance' = distance + 1
    /\ UNCHANGED <<plan, mode, phase, aligned_count, aligned, bump_start, bump_finish,
                   jumps0, loop0, down, up, core1>>

\* The timer adds the stored control to the commanded heading of the way back
\* until a word says that it is locked.
Steers == mode = "BACK" /\ ~aligned

\* segment_check: the path's last segment is not interrupted.
SegmentEnd ==
    /\ pause /\ segment + 1 < Segments
    /\ segment' = segment + 1
    /\ pause' = FALSE
    /\ UNCHANGED <<index, done, mode, bridge0, jumps0, loop0, down, up, core1>>

-----------------------------------------------------------------------------
(* Core 0: the main loop                                                    *)

Current == IF index < Len(Plan) THEN Plan[index + 1] ELSE "IDLE"

\* Mutant: the done flag is left set.
HandBackStillDone ==
    /\ main0 = "pause"
    /\ IF ~pause /\ done
         THEN pause' = TRUE /\ index' = IF index < Len(Plan) THEN index + 1 ELSE index
         ELSE UNCHANGED <<pause, index>>
    /\ main0' = "mode"
    /\ UNCHANGED <<done, segment, mode, bridge0, jumps0, packed, down, up, core1>>

HandBack ==
    /\ main0 = "pause"
    /\ IF ~pause /\ done
         THEN /\ done' = FALSE /\ pause' = TRUE
              /\ index' = IF index < Len(Plan) THEN index + 1 ELSE index
         ELSE UNCHANGED <<done, pause, index>>
    /\ main0' = "mode"
    /\ UNCHANGED <<segment, mode, bridge0, jumps0, packed, down, up, core1>>

SelectMode ==
    /\ main0 = "mode"
    /\ mode' = IF pause THEN "IDLE" ELSE Current
    /\ main0' = "pack"
    /\ UNCHANGED <<plan, bridge0, jumps0, packed, down, up, core1>>

\* The arguments are read one after the other, but bump_finish is set by the
\* main loop itself, and core 1 looks at it only in a word with BUMP_DISTANCE.
Pack ==
    /\ main0 = "pack"
    /\ packed' = [mode |-> mode, phase |-> phase, finish |-> bump_finish]
    /\ main0' = "send"
    /\ UNCHANGED <<plan, mode, bridge0, jumps0, down, up, core1>>

\* The result of the send is ignored: the next round sends again.
Send ==
    /\ main0 = "send"
    /\ \/ Len(down) < DownCapacity /\ down' = Append(down, packed)
       \/ down # <<>> /\ UNCHANGED down
    /\ main0' = "stage" /\ packed' = Idle
    /\ UNCHANGED <<plan, mode, bridge0, jumps0, up, core1>>

\* The stage's code: a jump flag is taken in two steps, the end of the bumps
\* is tested in one and stored in another.
StageCode ==
    /\ main0 = "stage"
    /\ LET bumpsOver == /\ mode = "BRIDGE_BUMP" /\ phase = "BUMP_DISTANCE"
                        /\ bump_start /\ ~bump_finish /\ distance >= BumpLength
           jumpSeen == mode = "JUMP" /\ jump_updated
       IN  /\ main0' = IF bumpsOver THEN "finish"
                       ELSE IF jumpSeen /\ jump_count < JumpTarget THEN "jump"
                       ELSE "pause"
           /\ jump_updated' = (jump_updated /\ ~jumpSeen)
    /\ mode' = IF mode = "BRIDGE_BUMP" /\ phase = "COMPLETE" THEN "IDLE" ELSE mode
    /\ UNCHANGED <<plan, bridge0, jump_word, jump_count, packed, down, up, core1>>

FinishMeasure ==
    /\ main0 = "finish"
    /\ bump_finish' = TRUE
    /\ main0' = "pause"
    /\ UNCHANGED <<plan, mode, phase, aligned_count, aligned, bump_start, distance, jumps0,
                   packed, down, up, core1>>

\* Mutant: the stage is done one jump early.
CountJumpEarly ==
    /\ main0 = "jump"
    /\ IF jump_word
         THEN /\ jump_count' = jump_count + 1
              /\ done' = (done \/ jump_count + 2 >= JumpTarget)
         ELSE UNCHANGED <<jump_count, done>>
    /\ main0' = "pause"
    /\ UNCHANGED <<index, pause, segment, mode, bridge0, jump_word, jump_updated,
                   packed, down, up, core1>>

CountJump ==
    /\ main0 = "jump"
    /\ IF jump_word
         THEN /\ jump_count' = jump_count + 1
              /\ done' = (done \/ jump_count + 1 = JumpTarget)
         ELSE UNCHANGED <<jump_count, done>>
    /\ main0' = "pause"
    /\ UNCHANGED <<index, pause, segment, mode, bridge0, jump_word, jump_updated,
                   packed, down, up, core1>>

MainLoop0 ==
    \/ HandBack \/ SelectMode \/ Pack \/ Send \/ StageCode \/ FinishMeasure \/ CountJump

-----------------------------------------------------------------------------
(* Core 1: appipc_speed_callback                                            *)

Callback1 ==
    /\ down # <<>>
    /\ known' = Head(down)
    /\ down' = Tail(down)
    /\ UNCHANGED <<core0, up, flags1, loop1>>

-----------------------------------------------------------------------------
(* Core 1: the main loop                                                    *)

core1Only == <<core0, down, known>>

\* A change of the mode is noticed, noted and acted upon, and the stage's code
\* chosen, each by a read of its own: the mode may change between any two.
CompareMode ==
    /\ main1 = "top"
    /\ main1' = IF last_option # known.mode THEN "note" ELSE "option"
    /\ UNCHANGED <<core1Only, up, flags1, word>>

NoteMode ==
    /\ main1 = "note"
    /\ last_option' = known.mode
    /\ main1' = "enter_back"
    /\ UNCHANGED <<core1Only, up, last_phase, latched, exit, exit_sent, finish_sent,
                   seen_jumps, lane1, word>>

EnterBack ==
    /\ main1 = "enter_back"
    /\ IF known.mode = "BACK"
         THEN main1' = "option" /\ back_count' = 0 /\ back_locked' = FALSE
         ELSE main1' = "enter_bump" /\ UNCHANGED lane1
    /\ UNCHANGED <<core1Only, up, last_option, last_phase, latched, exit, exit_sent,
                   finish_sent, seen_jumps, word>>

EnterBump ==
    /\ main1 = "enter_bump"
    /\ IF known.mode = "BRIDGE_BUMP"
         THEN latched' = FALSE /\ exit_sent' = FALSE
         ELSE UNCHANGED <<latched, exit_sent>>
    /\ main1' = "option"
    /\ UNCHANGED <<core1Only, up, last_option, last_phase, exit, finish_sent,
                   seen_jumps, lane1, word>>

SelectOption ==
    /\ main1 = "option"
    /\ main1' = IF known.mode = "BRIDGE_BUMP" THEN "phase" ELSE "back"
    /\ UNCHANGED <<core1Only, up, flags1, word>>

ModeChange == CompareMode \/ NoteMode \/ EnterBack \/ EnterBump \/ SelectOption

\* A new phase starts with its own flags cleared.
PhaseChange ==
    /\ main1 = "phase"
    /\ last_phase' = known.phase
    /\ LET entered(p) == last_phase # known.phase /\ known.phase = p IN
          /\ latched' = (latched /\ ~entered("ALIGN") /\ ~entered("BUMP_DISTANCE"))
          /\ exit_sent' = (exit_sent /\ ~entered("ALIGN") /\ ~entered("EXIT_CHECK"))
          /\ exit' = IF entered("EXIT_CHECK") THEN NewSearch ELSE exit
          /\ finish_sent' = (finish_sent /\ ~entered("BUMP_DISTANCE"))
    /\ main1' = "frame"
    /\ UNCHANGED <<core1Only, up, last_option, seen_jumps, lane1, word>>

\* A frame of the aligning phase; a box that is all black latches the way out.
Frame ==
    /\ main1 = "frame" /\ known.phase = "ALIGN"
    /\ \E box \in {"all_black", "mixed"}, inside \in BOOLEAN, odd \in ControlBits :
          /\ latched' = (latched \/ Failsafe(box))
          /\ word' = Word(inside, latched', FALSE, odd)
    /\ main1' = "send_frame"
    /\ UNCHANGED <<core1Only, up, last_option, last_phase, exit, exit_sent,
                   finish_sent, seen_jumps, lane1>>

\* Another phase, or no frame is ready.
NoFrame ==
    /\ main1 = "frame"
    /\ main1' = "exit"
    /\ UNCHANGED <<core1Only, up, flags1, word>>

\* Pictures are looked at, when there is one, until the exit is seen; it is
\* reported until the link has taken the report.
ExitCheck ==
    /\ main1 = "exit" /\ known.phase = "EXIT_CHECK"
    /\ \/ UNCHANGED exit
       \/ ~Exited(exit) /\ \E box \in Boxes : exit' = ExitProcessing(exit, box)
    /\ IF Exited(exit') /\ ~exit_sent
         THEN main1' = "send_start" /\ word' = StartWord
         ELSE main1' = "back" /\ UNCHANGED word
    /\ UNCHANGED <<core1Only, up, last_option, last_phase, latched, exit_sent,
                   finish_sent, seen_jumps, lane1>>

NoExitCheck ==
    /\ main1 = "exit" /\ known.phase # "EXIT_CHECK"
    /\ main1' = "bump"
    /\ UNCHANGED <<core1Only, up, flags1, word>>

\* Mutant: the answer does not wait for bump_finish.
BumpDistanceAtOnce ==
    /\ main1 = "bump"
    /\ IF known.phase = "BUMP_DISTANCE" /\ ~finish_sent
         THEN main1' = "send_ack" /\ word' = AckWord
         ELSE main1' = "back" /\ UNCHANGED word
    /\ UNCHANGED <<core1Only, up, flags1>>

\* The answer to bump_finish, likewise until the link has taken it.
BumpDistance ==
    /\ main1 = "bump"
    /\ IF known.phase = "BUMP_DISTANCE" /\ known.finish /\ ~finish_sent
         THEN main1' = "send_ack" /\ word' = AckWord
         ELSE main1' = "back" /\ UNCHANGED word
    /\ UNCHANGED <<core1Only, up, flags1>>

\* Mutant: a lost line unlocks the heading.
LaneFrameUnlocks(inside, white) ==
    /\ back_count' = IF ~inside THEN 0
                     ELSE IF back_count < BackConfirm THEN back_count + 1 ELSE back_count
    /\ back_locked' = (back_count' >= BackConfirm \/ white)

\* A frame of the way back: the heading locks when the fresh line has been in
\* the box for BackConfirm frames, or when the white area ahead is reached.
LaneFrame(inside, white) ==
    \/ back_locked /\ UNCHANGED lane1
    \/ /\ ~back_locked
       /\ back_count' = IF ~inside THEN 0
                        ELSE IF back_count < BackConfirm THEN back_count + 1 ELSE back_count
       /\ back_locked' = (back_count' >= BackConfirm \/ white)

\* The mode is read again here: it may have changed since SelectOption.
BackFrame ==
    /\ main1 = "back" /\ known.mode = "BACK"
    /\ \E inside, white \in BOOLEAN, odd \in ControlBits :
          /\ LaneFrame(inside, white)
          /\ word' = Word(back_locked', FALSE, FALSE, odd /\ ~back_locked')
    /\ main1' = "send_back"
    /\ UNCHANGED <<core1Only, up, last_option, last_phase, latched, exit, exit_sent,
                   finish_sent, seen_jumps>>

\* Another mode, or no frame is ready.
NoBackFrame ==
    /\ main1 = "back"
    /\ main1' = "jump"
    /\ UNCHANGED <<core1Only, up, flags1, word>>

\* A frame in which camera_jump_processing, JumpTarget times at most, saw a jump.
JumpStage ==
    /\ main1 = "jump"
    /\ \/ /\ known.mode = "JUMP" /\ seen_jumps < JumpTarget
          /\ seen_jumps' = seen_jumps + 1
          /\ word' = JumpWord
          /\ main1' = "send_jump"
       \/ main1' = "top" /\ UNCHANGED <<seen_jumps, word>>
    /\ UNCHANGED <<core1Only, up, last_option, last_phase, latched, exit, exit_sent,
                   finish_sent, lane1>>

After == [ send_frame |-> "back", send_start |-> "back", send_ack |-> "back",
           send_back |-> "jump", send_jump |-> "top" ]

\* Mutant: a full mailbox is not noticed.
SendTakenAlways ==
    /\ main1 \in DOMAIN After
    /\ up' = Append(up, word)
    /\ exit_sent' = (exit_sent \/ main1 = "send_start")
    /\ finish_sent' = (finish_sent \/ main1 = "send_ack")
    /\ main1' = After[main1] /\ word' = NoWord
    /\ UNCHANGED <<core1Only, last_option, last_phase, latched, exit, seen_jumps, lane1>>

\* appipc_send_bridge_data or appipc_send_u32: taken or refused.  Only the
\* start of the bumps and the answer look at the result and are sent again.
SendTaken ==
    /\ main1 \in DOMAIN After
    /\ Len(up) < UpCapacity
    /\ up' = Append(up, word)
    /\ exit_sent' = (exit_sent \/ main1 = "send_start")
    /\ finish_sent' = (finish_sent \/ main1 = "send_ack")
    /\ main1' = After[main1] /\ word' = NoWord
    /\ UNCHANGED <<core1Only, last_option, last_phase, latched, exit, seen_jumps, lane1>>

\* Mutant: a refused word counts as sent.
SendRefusedForgotten ==
    /\ main1 \in DOMAIN After
    /\ up # <<>>
    /\ exit_sent' = (exit_sent \/ main1 = "send_start")
    /\ finish_sent' = (finish_sent \/ main1 = "send_ack")
    /\ main1' = After[main1] /\ word' = NoWord
    /\ UNCHANGED <<core1Only, up, last_option, last_phase, latched, exit, seen_jumps, lane1>>

SendRefused ==
    /\ main1 \in DOMAIN After
    /\ up # <<>>
    /\ main1' = After[main1] /\ word' = NoWord
    /\ UNCHANGED <<core1Only, up, flags1>>

MainLoop1 ==
    \/ ModeChange \/ PhaseChange \/ Frame \/ NoFrame \/ ExitCheck \/ NoExitCheck
    \/ BumpDistance \/ BackFrame \/ NoBackFrame \/ JumpStage \/ SendTaken \/ SendRefused

-----------------------------------------------------------------------------

Next ==
    \/ Callback0 \/ Measure \/ SegmentEnd \/ MainLoop0
    \/ Callback1 \/ MainLoop1

Spec == Init /\ [][Next]_vars

\* Both main loops run for ever and both interrupts are taken; while the
\* distance is measured the car drives forward at a fixed speed, and on the
\* way back the camera keeps delivering pictures.
Fairness ==
    /\ WF_vars(MainLoop0) /\ WF_vars(MainLoop1)
    /\ WF_vars(Callback0) /\ WF_vars(Callback1)
    /\ WF_vars(Measure) /\ SF_vars(BackFrame)

FairSpec == Spec /\ Fairness

-----------------------------------------------------------------------------
(* Properties                                                               *)

\* The plan and the two cores' protocol implement the course of MissionSpec:
\* stages in order, each once, each ended only by its own completion.
Course == INSTANCE MissionSpec WITH
    driving <- pause, bridge <- phase, jumps <- jump_count
ImplementsCourse == Course!Spec

\* "The answer is returned by core 1 only after core 0 has finished measuring"
\* (appipc.h): core 0 takes an answer for the end of the stage without looking
\* at bump_finish, and it is set whenever an answer arrives.
AnswerAfterDistance ==
    [][phase # "COMPLETE" /\ phase' = "COMPLETE" => bump_finish /\ distance = BumpLength]_vars

\* The completed stage leaves no measurement running: no word of core 1 that
\* was under way, and no store of the main loop that was preempted, sets
\* bump_start or bump_finish again.
CompleteIsClean == phase = "COMPLETE" => ~bump_start /\ ~bump_finish

\* vision_phase_done_flag always speaks of the current stage: a stage is
\* neither skipped nor counted twice.
DoneIsCurrent ==
    done => \/ Current = "BRIDGE_BUMP" /\ phase = "COMPLETE"
            \/ Current = "JUMP" /\ jump_count = JumpTarget

\* The bumps come to an end: distance, bump_finish, answer and completion all
\* get through, whatever is refused and preempted on the way, and the path
\* replay gets the car back.
BumpsEnd == phase = "BUMP_DISTANCE" ~> pause /\ phase = "COMPLETE"

\* An exit seen by core 1 is acted on by core 0, refused sends notwithstanding.
ExitIsReported ==
    (Exited(exit) /\ last_phase = "EXIT_CHECK") ~> phase \in {"BUMP_DISTANCE", "COMPLETE"}

\* A lock of the way back gets through for good: words that are still on their
\* way from before it may make core 0 steer, but from some point on it never
\* steers again, whatever the camera sees and however many words are refused.
LockSettles == <>[](back_locked /\ last_option = "BACK" => ~Steers)

\* "Once locked, aligned = 1 and control = 0 are sent until VISION_BACK is left"
\* (main_cm7_1.c): core 0 never steers again once it has been told of the lock.
LockIsKept == [][mode = "BACK" /\ mode' = "BACK" /\ ~Steers => ~Steers']_vars
=============================================================================
