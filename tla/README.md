# Formal models of the bridge-course car (ygcz_demo)

The program drives a two-wheeled balancing car over a course: it replays a
recorded path and, where a path segment ends, hands the car to vision, which
aligns it with a single-plank bridge, crosses it, measures the bumps behind it,
jumps, or follows the lane back.  It runs on the two Cortex-M7 cores of a
CYT4BB7: core 0 balances, steers and keeps the plan; core 1 owns the camera.

The modules here model the part of it in which several actors share state: the
link between the cores, the protocol of the two cores, core 1's alignment with the
bridge and the forced turns it asks for, the flags that the main loop and two
interrupts of core 0 share while the car lines up, the jumps from the picture to
the landing, and the path that the timer interrupt records and replays and the
main loop stores and loads.

## 1. The system

| component | state | operations | interacts with |
|---|---|---|---|
| link between the cores (`appipc.c`) | lock, data word and interrupt of two IPC channels | send (refused when locked), receive interrupt, start-up drain | callbacks of both cores |
| stage plan and phases, core 0 (`main_cm7_0.c`) | `vision_plan_index`, `pause_flag`, `vision_phase_done_flag`, `vision_detect_mode`, `vision_phase_bab`, jump flag and count | `appipc_callback`, main loop | timer interrupt, link |
| vision loop, core 1 (`main_cm7_1.c`) | copies of mode and phase, latches of what was sent | `appipc_speed_callback`, main loop | camera, link |
| forced turn, core 0 (`cm7_0_isr.c`, `main_cm7_0.c`) | active, recovery, fault, latch, guard, timers, `vision_target_speed` | 1 ms timer interrupt | main loop, link callback |
| heading command, core 0 (`cm7_0_isr.c`) | `target_yaw_remote`, guard start, ramps | every 5 ms | yaw PID |
| exit and jump detection (`camera.c`) | white/black stage, frame counts, steps | one call per frame | vision loop |
| bridge recognition and alignment (`camera_proc.c`) | alignment phase, hold and blind timers | one call per frame | vision loop |
| path record (`ins.c`) | points, segment table | `ins_update`, `path_segment_finish`, `path_record_finish` | timer interrupt, remote control |
| path store (`flash.c`) | pages of headers and points | store, load | buttons, main loop |
| path replay (`ins.c`) | `path_index`, segment bounds, reverse and turn flags | `Track_update`, `Track2_update`, `segment_check` | speed and yaw PID |
| jump sequence, legs (`servo.c`) | `jump_flag`, `jump_time`, servo angles | `jump_control`, `leg_control` | timer interrupt |
| remote control, buttons (`remote_control.c`, `button.c`) | switch positions, edges, protection flags | `remote_update` | everything |
| motor driver link (`small_driver_uart_control.c`) | seven-byte receive buffer | send frame, receive interrupt | speed loop |
| balance control (`pid.c`, `filter.c`, `imu.c`) | floating-point filters | every tick | motors |
| screens, vendor libraries | - | - | - |

What is hard here is concurrency without locks.  The timer interrupt and the link
interrupt of core 0 have the same NVIC priority (3: `appipc.c:13`,
`zf_driver_pit.c:178`), so neither preempts the other, but both preempt the main
loop between any two of its statements; and the other core runs in parallel.
State is passed through `volatile` globals, words may be refused
(`APPIPC_BUSY`), and most refusals are ignored because the next round sends
again.  Only two words are retried, the start of the bumps and the answer to
`bump_finish`.  `PROJECT.json` lists the hazards line by line.

What makes each component correct:

* link: a taken word is handed over once, in order; the mailbox never stays locked;
* plan and protocol: stages in order, each once, each ended by its own completion; an exit or an end of the bumps that was seen is acted on;
* forced turn: one request, one turn; turn, recovery and fault exclude one another and end in time; a fault stands still until the stage is left;
* recognition and alignment: guesses run out; completion is confirmed by fresh lines; a
  blind turn begins where its comment says it does, and always reaches core 0 as one request;
* heading: the command stays in the permitted range and changes by ramp steps;
* record, store, replay: indexes stay in their tables; what is loaded is what was stored, or nothing; a replay ends;
* exit and jump detection: an edge sets off one jump, an exit that was seen is not lost;
* jump: every request becomes one leap, a leap is whole and ends;
* way back: the command stays near the heading on entry, a lock gets through.

## 2. The modules

| module | models | role |
|---|---|---|
| `AppipcSpec` | the promise of one link direction: a queue of two words | abstract |
| `Appipc` | `appipc.c` and the register accesses of the IPC driver | implements `AppipcSpec` |
| `MissionSpec` | the course: replay, stage, replay, ... | abstract |
| `BridgeExit` | leaving the bridge: white, then black (`camera_bridge_exit_processing`) | part of `Mission` |
| `Mission` | both main loops, both callbacks, two links as queues | implements `MissionSpec` |
| `JumpDetect` | where to jump (`camera_jump_processing`) | part of `JumpStage` |
| `JumpStage` | a jump: picture, word, main loop, timer, legs | |
| `TurnSpec` | the heading's state machine with bounded turn and recovery | abstract |
| `BlindTurn` | the aligning stage on core 0: two interrupts and the main loop | implements `TurnSpec` |
| `YawGuard` | the commanded heading of bridge stage and way back, in integer angles | |
| `BridgeDetect` | fresh, estimated and missing lines (`camproc_bridge_detect`) | part of `BridgeAlign` |
| `BridgeAlign` | `camproc_bridge_align_update` and core 1's requests to core 0 | |
| `PathStore` | recording (`ins.c`) and the flash areas (`flash.c`), with loss of power | |
| `TrackReplay` | `Track_update`, `Track2_update` and the segments of a replay | |
| `AppipcProofs`, `BlindTurnProofs`, `YawGuardProofs`, `MissionProofs`, `JumpStageProofs`, `BridgeAlignProofs`, `PathStoreProofs`, `TrackReplayProofs` | theorems about the module each is named after | proofs |
| `MC...` | values for the constants | model checking |

### Appipc
One action per register access of `appipc_send_u32` (take the lock, write the
word, raise the interrupt) and per step of the receiver (interrupt entry with its
clear, read, release, callback).  The receiver has two contexts, the interrupt
and the main thread inside `appipc_rx_init`; the thread runs only while the
interrupt does not.  Every behaviour begins with the receiver's start-up, during
which the other core may send already; the history variable `settled` says that it
is over and that nothing was left under way, from which moment on the link keeps
its promise (`AppipcSpec.StartUp`).  The lock and data register are the
chip's; how they behave is taken from the driver's use of them
(`cy_ipc_drv.c:129-148, 234-251`).  The second direction (`appipc_speed_...`) is
the same code on another channel.  `InFlight` maps the registers to the abstract queue.

### Mission
Core 0's main loop is seven steps per round: hand-back (`main_cm7_0.c:346-371`),
mode (387-394), collecting and sending the word (395), the stage's code (398-484)
and its two delayed writes (`bump_finish` at 481, the jump at 423-432).  Core 1's
loop is mode change, phase change, frame, exit check, bump distance, way back,
jump, each followed by its send; mode and phase are read again at each of them, as
in the code.  The mode change is five steps, one per read of `function_option`
(`main_cm7_1.c:369, 371, 373, 379, 393`): a word may come between any two, so the
change that is noticed, the mode that is noted and the entry that is run can
belong to different modes.  The links are queues of at most `UpCapacity` and `DownCapacity`
words; a send may be refused whenever a word is under way, as `AppipcSpec` allows.
The camera is arbitrary: any frame may have its line in the box, show a white or a
black box or a jump.  The exit is found by `BridgeExit`, run for run of white
pictures; the way back counts fresh lines in the box up to `BackConfirm` and
tells core 0 of its lock in every word (`LaneFrame`, `LaneWord`), and `Steers` is
the condition under which the timer of core 0 adds vision's correction.
The distance is counted in rounds of the speed loop up to `BumpLength`.
A word keeps bit 0 (`odd`), because the jumping stage reads every word as a jump
flag; `ControlBits` are the values it may have in words that carry a control.

### JumpDetect, JumpStage
`Look` is one picture of core 1 (`main_cm7_1.c:643-671`, `camera.c:734-800`), `Send`
its word, `Callback`, `Stage` and `Jump` the mark, the test and the request of core
0, `ReadSwitch` the protection switch of the remote control, and `Tick` one call of
the timer interrupt: `leg_control` every `LegPeriod` ticks, the protection, and
`jump_control` with its table of steps.  The stage rests on durations, so this model
has time: a course of stretches of alternating kind whose edges are `Spacing` ticks
apart or more, an edge that takes `Border` ticks to pass through the box, a picture
at least every `FrameTime` and a main-loop round of at most `LoopTime` ticks.
`Seeing` is the time in which an edge has passed through the box and `MultiFrame`
pictures of what is behind it have come; `TimesAssumption` asks that request, leap
and `Cooldown` fit between two edges.  The
camera is taken to see the stretch it is over during a leap as well, a protected car
to drive no further, and the mode to stay VISION_JUMP until the last request.
`leaps` and `poses` are history variables.  That the stage begins with the jump count
of the first jump, that its words are the word 1, and the word's refusal are left to
`Mission`.

### BlindTurn
`Callback(w)` is `appipc_callback` in the bridge stage; `Timer(kind)` is
`pit0_ch0_isr` in a tick in which only the guard (1 ms), also the angle loop
(5 ms) or also the speed loop (20 ms) is due; the main loop tests its branches one
by one, clears `bridge_control_updated`, then writes speed and heading.  In the
branch that follows vision (`AlignBranch`, `main_cm7_0.c:510-547`) it also reads
the stored word field by field (`Look`: 518, 521, 524), and the negation at 527 is
a load and a store (`LoadControl`, `StoreControl`), so that a word or a tick may
come between any two of them.  The
gyro's answers (90 degrees from the guard's start, 55 degrees turned, 90 degrees
turned) are arbitrary in every tick.  Time counts rounds of the angle loop; the
cooldown counts down to the absolute time the code compares with.  `served` and
`asked` are history variables.  A decoded word obeys `WordsAssumption`
(`appipc.c:157-184`).

### YawGuard
The same stage seen from the heading: guard block, recovery, turn, guarded
vision, and the other phases; and the way back, which begins at the present heading
(`BackTick`).  Requests, releases, timeouts and the lock are arbitrary inputs.  The
heading may change by `Slew` in a tick.

### BridgeDetect, BridgeAlign
One `Frame` is one round of core 1's main loop with a new picture
(`main_cm7_1.c:430-562`): recognition, alignment, counters, word.  Recognition
(`Detect`) gives a fresh line, one estimated from a single edge, the last one held,
or none; pictures are arbitrary.  A line is the box its ends lie in (2 pixels, the
6 and 8 of the fallback, outside), its slope in this frame and filtered, and the
offset the look-ahead target asks for after gain, dead band and limit.  The two
slopes are arbitrary except that a line in a box is not steep (atan(14/25), 29
degrees, from the fallback box and the least height of a line) and that the first
line after a reset is not filtered.  The order of the update is the code's:
`Completed`, `Turning`, and for a frame that is looked at `EndTurn`, `NearMode`,
`CountInside`, `StayInBox`, `Confirm` or `Steer` with the slew limit, the reversal
of the near mode, and the learning of the bend.  `MakeRequests` chooses whether the
mailbox takes the word.  Points in time are ages that stop at their limit.
`estimates` and `view` are history variables.  `ParametersAssumption` is what the
function itself demands of its settings, `SettingsAssumption` what the settings of
`main_cm7_1.c` add to it.  The failsafe exit in the same frame and the lock of the
way back belong to `Mission`; where the lane runs is arbitrary there.
`stage` is what core 1 looks at lines for: the aligning phase, the way back, or
nothing.  `Leave` and `Return` are the changes of phase or mode it gets to know of:
all state begins afresh only if the phase itself has changed (`main_cm7_1.c:396-415`);
if only the mode was another, or the change came and went between two rounds, it is
kept as it was.  The way back runs the same recognition (594) on state that is reset
on entry (`EnterBack`, `BackFrame`) and leaves the alignment of the bridge alone; it
is taken to be the last stage of a plan.

### PathStore
`Tick` is `ins_update`: end of a segment, end of the recording, or a new point.
The main loop reads buttons and switches (`ReadInputs`), waits for the header as
the code does, writes header, segment table and points, one action per page
(`WriteHeader`, `WriteSegments`, `WritePoints`), and loads in three steps, so that
the interrupt comes between any two.  `PowerLoss` keeps the flash, or leaves the
page that was being written erased or written up to some word.  A point is the
power cycle that recorded it and its index; that tells a stored path from every
other.  A page read as another kind of page has no valid check value.  `saved` is
what the operator meant by the last store of each course, or `Unknown` where no
path is promised: after a store cut short, and where the recorder did not
complete course 3's header (both switches moved in one round, a load in the
middle of a recording, points after a full segment table).  A power cycle is
followed until a replay is started.  Courses are numbered 0, 1 and 2 as
`course_record_flag` is; `flash.h` calls them 1, 2 and 3.  `Area` is the pages a
store of a course may need, `RoomyLayout` says that no two courses share any and
that the longest path fits: the layout of `path_store` and the assumption of three
theorems, which the layout of the source does not keep (finding 3).

### TrackReplay
A path is given by the numbers of points up to the end of each of its segments
(`ends`), as the stored table adds up.  One `Tick` is a 20 ms round with a replay on; it runs `segment_check`, the
nearest point, the look-ahead point, the turn ahead and the end, in the code's
order.  `Nearest` and `Ahead` are the sets of points each search may return,
`FutureTurns` the points that may be taken for a turn.  Unsigned subtractions
wrap at `Wide`.  The operator is taken to load before a replay and not during
one.  `Load` does not call `track_init`, as in the code, so a second load starts
with the indices of the first replay.

### Granularity
A preemption between two statements matters only when they touch the same shared
data.  These groups of statements are single actions: the whole of an interrupt
handler (nothing of equal or higher priority touches its data); core 1's tests of
the phase (396-428), which use nothing but that one
value and whose re-reads can only see a later phase whose own case is then run or
repeated in the next round; the writes of one branch of core 0's main loop that read
nothing shared.  Tests and the writes that depend on them are separate actions.

## 3. The runs

| run | configuration | shows |
|---|---|---|
| `link` | 3 words, from power-on; 6,305 states | no order of the first sends and the start-up leaves the mailbox locked; after it the registers implement the queue: taken words are handed over once and in order |
| `turn` | 10 words of the stage, timeouts 1-2 rounds, 286,962 states | standing still in a fault, one turn per request, refinement of `TurnSpec` and its progress, coming to a stop, the end of reverse driving |
| `turn_side` | all words of the stage | **violated**: finding 2 |
| `mission` | jumps, bridge, way back; links of 2 words up and 1 down; 455,530 states | refinement of `MissionSpec`, no stale done flag, no measurement left running, no answer before the measurement; bumps, exit and lock get through |
| `back_lock` | the way back alone | **violated**: finding 4 |
| `heading` | angles -6..6, limits 3 and 5, way back 2, steps 2 and 1; 2.5 million states | ranges of the command in every branch, ramp steps |
| `align` | headings 0, 20, 45, offsets -2, 0, 1; 172,790 states | blind turns are requested, once each; completion is confirmed; no swinging near the target |
| `align_blind` | the same with the source's clamp of 40 degrees | **violated**: finding 1 |
| `path_store` | courses 0 and 2 with room enough, 2 power cycles, 2 stores; 2.7 million states | a load gives what the last complete store was to keep, no course disturbs another, segments have all points, only a store cut short gives a load beyond the table |
| `path_areas` | courses 0 and 1 laid out as in `flash.h`, to scale | **violated**: finding 3 |
| `track` | paths of up to 3 segments and 9 points, 2 loads; 8,225 states | no index leaves its table, every pause of the first replay once and in order, a turn ahead is dropped, a replay ends |
| `jump` | 3 edges 14 ticks apart, a leap of 6 ticks, loops of 2 and 3; 77,220 states | one jump per edge, one leap per jump, leaps are whole and end |

Bounds.  Three words tell a word from its neighbours in the link, which holds two.
The timeouts 2, 1, 2 and 1 keep the order of 4000, 100, 4000 and 300 ms as far as
the code compares them, and let every timer be short of, at and past its end.
In `mission` `ConfirmCount` 1 is the source's; `JumpTarget` 2 (3 in the source) has a
first, a last jump and one after it; `BumpLength` 1 has before and after;
`BackConfirm` and `WhiteFrames` 2 have a run that is broken and one that is not;
`Segments` 4 gives one segment more than stages.  `UpCapacity` 2 is the link's own
limit; the words down repeat what the last one said, so the mailbox alone
(`DownCapacity` 1) gives the same stale copies (the safety properties were checked
with 2 as well, 0.8 million states).  `ControlBits` {TRUE} is the bit that can be
mistaken for a jump.  The plan jumps first, see below; the source's plan is the way
back alone (`main_cm7_0.c:51-54`), which `back_lock` uses.  In `jump` the steps of
the leap have lengths 1, 1, 2 and 2 for 80, 30, 160 and 90 ms, so that every pose
has a first and a last tick, and `LegPeriod` 2 puts `leg_control` at either;
`Spacing` is the least that `TimesAssumption` admits: with one tick less
`EveryJumpIsALeap` fails.  The angles keep 55 < 90, step < limit,
15 < 55, and a heading that can pass each limit by a tick; `CommandBound` cuts
off commands beyond twice the heading's range, which only the bump phase, where
the code has no limit, can reach.  In `turn` the words are
those that matter to one request (a request, a release and a fresh line come with
one control value, and a release comes alone); the theorems of section 4 have every word.
In `align` the angles that are compared are the source's in degrees, and the frame
counts are the source's too, but for one single-edge and one held frame instead of
six and two and one frame of grace instead of two.  The one exception is the
clamp `FullAngle`: 45 instead of 40 degrees, because with the source's value no
blind turn is ever reached (finding 1) and the properties about it would hold of
nothing.  The headings lie on either side of 8, 12, 15, 30 and 45; `ReleaseTime` is
longer than `BlindTime` as 250 ms is longer than 100; the offsets and gains give
controls of both signs, steps beyond and within the near slew limit, and a
reversal in one step.  In `path_store` a page holds one point and a
path up to two, so that points take a page, several or none, the table of two
segments can be full or not, and a store can meet the remains of the one before
it, in the same power cycle or after a restart.  `path_areas` keeps the order of
the areas and that the longest path is longer than course 1's.  In `track` paths
have segments of one point and more, shorter and longer than the search (2) and
the look-ahead for turns (2); `Wide` 64 is far beyond every index.

Fairness, weak unless said otherwise.  Link: code that has been entered goes on, an enabled
interrupt is taken; senders need not send.  `BlindTurn`: the timer recurs and
reaches its 20 ms round, the main loop gets the processor back, frames keep
coming and so do words.  There fairness is asked of ticks only during a turn, a
recovery or a fault, where a tick counts or changes nothing whatever the gyro
answers: elsewhere it would force the gyro to trip the guard one day.  `Mission`: main loops and callbacks run; over the bumps
the car drives forward at a fixed speed, so the distance grows.  No word has to be
taken at a particular time: refused words are retried by the code, which is what
`BumpsEnd` and `ExitIsReported` check.  `BackFrame` is strongly fair: on the way back
the camera keeps delivering pictures, though in any one round there may be none.
`JumpStage`: timer and loops run, and the protection switch is let go of time and
again (`ReadSwitch(TRUE, FALSE)`, strongly fair), without which a leap stands still
for ever.  `TrackReplay`: the car follows the path, so
that time and again a round finds a later look-ahead point, ends a segment or ends
the replay; and vision stages get done.

Every property of a passing run is known to fail for a plausible fault of the
code: the definitions commented "Mutant" replace one definition of the model each.

### Findings
1. **The blind turn is out of reach.** `camproc_bridge_align_update` clamps the
   heading to `lookahead_full_angle_d10` (`camera_proc.c:1380-1383`), 40 degrees in
   `main_cm7_1.c:64`, and then asks whether it is at least
   `blind_trigger_angle_d10` (1576), 45 degrees in `main_cm7_1.c:87`.  No bend is
   ever learnt, so a line lost in a bend is not followed by the blind turn of the
   comment at `camera_proc.c:1172`, and core 1 never sets `force_blind_request`.
2. **A forced turn may go to the wrong side.** The main loop negates
   `bridge_control_from_core1` in place when it backs off (`main_cm7_0.c:527`); the
   timer interrupt takes the sign of that variable (`cm7_0_isr.c:182`).
3. **A long path of course 1 overwrites course 2.** `flash_write_all_points`
   (`flash.c:147-207`) does not stop at `COURSE1_POINT_END_PAGE` (`flash.h:81`): 2048
   points take 13 pages from page 2, course 2's header is on page 11.
4. **The lock of the way back is undone.** Core 1 reads the mode again and again in a
   round, for its change (`main_cm7_1.c:369-379`) and then for the lane (592).  When the word with the
   new mode comes in between, a frame that reaches the white area locks and tells core
   0, and the next round clears the lock as part of the mode change (373-378): core 0
   is told to steer again, against "once locked, aligned = 1 and control = 0 are sent
   until VISION_BACK is left" (`main_cm7_1.c:631`).  `LockSettles` shows that this
   cannot repeat: from some point on a lock is kept.

More divergences are visible in the models, though no run is spent on them.
A word may be lost in start-up: `appipc_rx_init` reads and releases any locked
mailbox (`appipc.c:127-130`) while a sender may hold the lock and not have written
yet; it returns `APPIPC_OK`
("sent successfully", `appipc.h:59`) for a word that is never handed over.
`OkWordIsHandedOver` is therefore about the time after the start-up (`settled`).
In the jumping stage the cooldown "avoids repeated triggering" (`camera.c:787`) but is
0 ms (`main_cm7_1.c:23`): it is the alternation of the kinds that keeps an edge from
being counted twice.  The stage is done when the third leap is asked for
(`main_cm7_0.c:428-431`), so that the replay of the path resumes in the air.
The failsafe exit is latched on core 1 (`main_cm7_1.c:434-437`) but no longer sent once
core 0 has counted to the exit check; the search there finds a black box again.
In the alignment: completion is latched (`camera_proc.c:1117-1125`) against
"not latched" in `camera_proc.h:101`; "consecutive fresh" bends
(`camera_proc.c:1574`) may have estimated frames between them, and a withheld or
estimated control enters the comparison with the next, so that the reference may
average both sides; the frame that ends a blind turn without a line is sent as
valid (1137).
The callback may run in the main thread (`appipc.c:129`), against `appipc.h:25`.
The tick after a fault has locked the heading, the guard commands the edge of the
permitted range (`cm7_0_isr.c:332-338` after 224 or 308), against "stay protected"
(`cm7_0_isr.c:299`).  The crossing does not keep the locked heading but commands
-1 (`cm7_0_isr.c:357-360`), against `cm7_0_isr.c:67` and `main_cm7_0.c:462`.

A second replay in one power cycle starts with the segment and the index at which
the first ended, because the calls of `track_init` are commented out
(`main_cm7_0.c:313`).  The indices stay in their tables; the properties about
pauses and the end are stated for the first replay.

In a plan with the bridge before the jumps the untimed model has one more
schedule: core 1 misses the whole bump phase, its answer reaches core 0 in the
jumping stage and is read as a jump flag, and two words around the clear at
`main_cm7_0.c:419` make one jump count twice.  The bumps last seconds and a
main-loop round 20 ms, so this is recorded as a hazard only.

## 4. The proofs

Every safety property of the passing runs, type invariants and refinements
included, is also a theorem: `Spec => []P`, or `Spec => P` for a property of steps;
the properties under fairness follow under "Progress".  All hold for every value of
the constants that the named assumptions of the module admit.
Each proof module states an invariant `IInv`, proves `Init => IInv` and
`IInv /\ [Next]_vars => IInv'` with one lemma per kind of step, and derives its
theorems from that.  What `IInv` adds to the properties, and why, is this.

`AppipcProofs` (any set of words).  A lock says nothing about who holds it, and the
registers alone do not tell which word will be handed over.  `OneOwner` names the
owner after the start-up: a sender that is writing, the interrupt it raised, or the
handler that reads; `WordKept` says that the word stays in the data register until
the lock is free.  With them every register access is a step of `AppipcSpec` or a
stutter (`Refinement`).

`BlindTurnProofs` (any words, positive times).  Proved are `TypeOK`, the invariants
`TurnsExclusive`, `TurnOnlyWhileAligning`, `FaultKeepsGuard` and `ServedIsLatched`,
the action properties `FaultIsKept`, `FaultNeverDrives` and `OneTurnPerRequest`, and
the refinement `ImplementsTurn`.  `IInv` adds `CompleteBranch` (the main loop is in
its completion branch only when the phase is complete, so its change of mode cannot
leave a turn behind) and `GuardNotBefore` (the guard is armed only in the aligning
phase).  Neither `FaultKeepsGuard` nor `TurnOnlyWhileAligning` is inductive alone:
the first needs exclusion, because the branches that re-arm the guard are those of
an active turn or recovery, and the second needs `CompleteBranch`.  `FaultNeverDrives`
follows from `FaultKeepsGuard`: in a fault the speed the main loop stores is zeroed
by the guard before the speed loop reads it.

`YawGuardProofs` (all limits and ramp steps of `LimitsAssumption`, any heading and
correction).  `TypeOK`, `CommandInRange`, `RampsInRange` and the action property
`NoJump`.  A ramp keeps to its range only if its end is known, so `IInv` adds that a
turn is confined to the armed aligning stage (`TurnInStage`), the way back's control
to its stage (`LaneInBack`), that the guard is not armed before the aligning stage
(`NotArmedBefore`), and that the command of a turn or a recovery is its ramp, whose
end lies at a known distance from where the turn began or ended (`BlindRamp`,
`RecoveryRamp`).

`MissionProofs` (any plan, any number of segments, jumps and frames, any length of
the bumps, links of one word or two).  `CourseInv` ties mode, phase, pause and `done`
of core 0 to the stage of the plan and gives `DoneIsCurrent` and the refinement of
`MissionSpec`.  `BumpsInv` is about words under way: `bump_finish` stands for a
whole distance (`FinishIsMeasured`); every copy of it, and every answer, is true
whenever it arrives (`ReportsAreTrue`, `AnswersAreTrue`); the phases known to core 1
go forward only (`LateStaysLate`); and no start of the bumps is behind an answer in
any queue (`StartsComeFirst`).  `CompleteIsClean` and `AnswerAfterDistance` follow.

`JumpStageProofs` (any list of edges, any leap, period and cooldown of
`TimesAssumption`).  The argument is one of time: `Awaited` bounds the age of an edge
by the pictures it still waits for, `InTime` the age at which its request is on the
link, in the main loop or in the leap, `OneRequest` says that it is in one of these
places only, `Seen` that the cooldown is over before the next edge.  `OneJumpPerEdge`
and `EveryJumpIsALeap` follow; `LegsFollow` ties the poses to `jump_time` for
`LeapIsWhole`.

`BridgeAlignProofs` (any lines, offsets and settings of `ParametersAssumption` and
`SettingsAssumption`, any frame counts).  `Requested` ties the phase to the request
and to what was seen of the bend, `Confirmed` the counters of the completion to what
the tracker has seen (the history `view`), outside the way back, whose frames are not
the tracker's, `OnOneSide` the side kept near the target
to the control, `Counted` the images that were only estimated to those of one edge.
From them follow `TurnIsRequested`, `OneRequestPerTurn`, `CompleteIsConfirmed` and
`NoSuddenReverse`.

`PathStoreProofs` (any layout and any sizes of tables, pages and flash, any number
of stores and power cycles).  `IInv` holds in every layout and gives `TypeOK`:
`RecorderNow` says that segments and points agree, `StoreRuns` how far a store is,
`HeaderReady` that the wait of 30 ms has completed course 3's header, `LoadRuns` that
a load has what it has read unless the recorder wrote the same header in between.
Under `RoomyLayout`, `StoresAreSeparate` follows because a load reads its area only
(`SamePages`) and a store writes in its own (`WriteInArea`); and with `StoredSoFar`
(the pages a store has written are as meant) and `Kept` (what was kept can be
loaded until the course is stored again), `LoadGivesStored` and `LoadFits`.

`TrackReplayProofs` (any set of stored paths, any tables that fit their indices).
`InTables`, `Fresh` and `Loaded` say how far the end of the segment (`last`) may be, also in a second
replay that begins where the first ended, `TurnAhead` that a turn lies before the
last point and is dropped at the end, `SegmentExists` and `IndexInSegment` where the
first replay is.  `TypeOK`, `EveryPauseIsMade` and `NoTurnLeftOver` follow.

### Progress

The ten properties under fairness are theorems too, each of the form
`FairSpec /\ []Enabling => P`.  The provers know WF and SF, but of ENABLED only its
name, so the theorems state what they need of it:

- `Enabling`, one for each module, says that a fair action is enabled when its guard
  holds.  It is a fact about single states, and every reachable state of the runs'
  instances has it: TLC found it invariant under the cfgs `MCAppipc`, `MCBlindTurn`,
  `MCMission`, `MCMissionLock`, `MCJumpStage` and `MCTrackReplay`.  It is a hypothesis of the
  theorems and no property of a run, since no fault of the code would show in it.  (In
  `BlindTurn` it presupposes that `Words` is not empty.)
- `...IsBounded`, where a number is counted up (`rounds`, `distance`, `jump_time`,
  `index`): it does not grow for ever unless it falls for ever.  That each of them has
  a bound is proved (`TimeLimits`, and `TypeCorrect` of the other modules); that a bounded number cannot grow for
  ever is an induction, which no installed prover does.  TLC agrees on the instances.
- `EndsKnown`, in `TurnsEnd` only: the end of a turn is enabled only during a turn.  That is
  a law of logic, as ENABLED (P /\ A) implies a state predicate P, and TLC
  cannot evaluate ENABLED of an action on the mapped variable.
- `NoMixedWords`, in `BackingOutEnds` only: no word both asks for a turn and releases
  it.  Such a word begins and ends a turn in one tick, which clears the update mark that
  ends the backing out.  `OrderlyWords` shows that core 1 sends such a word only while
  it repeats a release that the mailbox has refused; with `MCFewWords` the run `turn`
  makes the same assumption.

The rest is proved, for every value of the constants: which steps lead on from where,
and that nothing else leads away.  The stages of each argument are predicates of
their module.

- `Draining`, `Delivery`: a lock that is taken is always still to be seen by the
  sender, the pending interrupt or a context of the receiver (`LockIsSeen`, an invariant
  that holds in the start-up too); the interrupt first, then the thread it preempts, gets
  on until the lock is free.  A word passes from its sender to the register and, with
  the lock held, to the handler (`Unannounced`, `Announced`, `Fetched`).
- `TurnsEnd`: as long as a turn or a recovery lasts, no step takes `rounds` back and
  each speed round of the timer adds one (`RoundsAddUp`).  `StandStill`: one speed round after the
  fault is enough.  `BackingOutEnds`: the main loop, found between its test and its
  write, overwrites the speed once more; the next word sets the mark again, and no branch
  but the aligning one holds, which gives another speed.
- `Settling`: core 1 enters the way back once (`Entering`, `Entered`), and from then on
  a lock stays; behind it the link holds stale words only until they have been
  handed over (`StaleWord`, `CleanLink`); the next word tells core 0 (`Told`).
  `ExitReporting`: a report of core 1 is due until core 0's phase shows that it has arrived (`Due`,
  `Over`); the loop comes round to its send again and again, the link has room time and
  again, and a word that is behind others moves up (`UnsentBehind`, `SentAt`).
  `BumpsEnding` chains four of these: distance, report, answer, and the main loop's
  completion, which is never taken back meanwhile.
- `LeapEnding`: only the protection and the loops hold up the timer.  While a leap is
  under way each loop catches up (`UnderWayLoops`), ticks without protection recur, and each
  of them adds to `jump_time` (`UnderWayGrows`).
- `ReplayEnding`: in the first replay the index never passes the end of its segment
  (`NotPast`), so that the look-ahead never falls back; a pause is followed by a later
  index, and the replay stays on until it stops.

## 5. What is not modelled

Image processing, balance control and leg kinematics compute in floating point
over data the properties above take as arbitrary; the alignment's line filter and
look-ahead geometry are arbitrary in the same way, and so is the lane of the way
back, of which only the lock and its words are modelled.  Display, buzzer and vendor
libraries keep no state that matters here.  The motor link (`small_driver_uart_control.c`)
resynchronises its seven-byte frames by position; nothing but the measured speed
depends on it, which is arbitrary in every model.  Start-up of core 0 changes nothing that the models
do not begin with: it initialises devices, and although the timer and the link are
on before it ends (`main_cm7_0.c:220-228`), the mode is still VISION_IDLE, in which
the callback does nothing, and no replay is on.  Of the remote control the switches are modelled where they act (the
recording, the protection), its frames and sticks are not.  The speed and the heading
a replay commands, and the page of the camera threshold, are left out.

## 6. Plan

Done: the link, the forced turn, the mission of both cores with exit and way back,
the heading, the alignment and its requests, the jumps, record, store and replay,
each with its theorems.

Left:

1. The composition of `BridgeAlign`'s words with `BlindTurn`'s callback: that a
   request core 0 acts on is the one core 1 made, and that a release gets through.
   Both sides are modelled and proved about; between them lies the promise of
   `AppipcSpec`, and the words of `BlindTurn` are arbitrary, so that nothing proved
   there depends on it.
2. The receiver of the motor link: which frames are dropped after a lost byte, and
   whether it gets back into step.
