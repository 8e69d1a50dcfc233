-------------------------- MODULE JumpStageProofs --------------------------
(***************************************************************************)
(* Theorems of JumpStage for every list of edges, every number of frames,  *)
(* every cooldown, every step of the leap and every period of the loops    *)
(* that keep TimesAssumption, checked by TLAPS: an edge is seen once, its  *)
(* request becomes one leap, a leap is whole, and it comes to its end      *)
(* under the fairness of JumpStage.                                        *)
(***************************************************************************)
EXTENDS JumpStage, SequenceTheorems, TLAPS

triggers == detection.triggers

\* An edge that has been reached and not yet seen: it waits for its pictures,
\* of which one comes every FrameTime ticks.
Awaited ==
    triggers < region =>
        /\ region = triggers + 1
        /\ age < Border \/ age < Border + detection.frames * FrameTime + unseen
        /\ detection.since = Cooldown

\* An edge that has been seen: no run of pictures is begun by it, and the
\* cooldown is over when the next one comes.
Seen ==
    triggers >= region =>
        /\ region = triggers
        /\ detection.frames = 0
        /\ detection.since = Cooldown \/ age < Seeing + detection.since

\* The request of an edge is in one place, before the next edge comes.
Busy == main1 = "send" \/ mail \/ jump_updated \/ main0 = "jump" \/ jump_flag

OneRequest ==
    /\ Busy => triggers = region /\ region > 0
    /\ main1 = "send" => ~mail /\ ~jump_updated /\ main0 # "jump" /\ ~jump_flag
    /\ mail => ~jump_updated /\ main0 # "jump" /\ ~jump_flag
    /\ jump_updated => main0 # "jump" /\ ~jump_flag
    /\ main0 = "jump" => ~jump_flag

\* How long after the edge the request is where it is.
InTime ==
    /\ main1 = "send" \/ mail => age < Seeing
    /\ jump_updated /\ main0 = "switch" => age < Seeing + spent
    /\ jump_updated /\ main0 = "stage" => age < Seeing + LoopTime + spent
    /\ main0 = "jump" => age < Seeing + LoopTime + spent
    /\ jump_flag => age < Seeing + 2 * LoopTime + jump_time
    /\ ~jump_flag => jump_time = 0

\* The commands of a leap so far.
PosesSoFar ==
    IF jump_time <= StepEnds[1] THEN <<"thrust">>
    ELSE IF jump_time <= StepEnds[3] THEN <<"thrust", "tuck">>
    ELSE <<"thrust", "tuck", "buffer">>

LegsFollow ==
    jump_time > 0 => poses = PosesSoFar /\ legs \in {"off", poses[Len(poses)]}

IInv ==
    /\ TypeOK
    /\ Awaited /\ Seen
    /\ OneRequest /\ InTime
    /\ EveryJumpIsALeap
    /\ LegsFollow

-----------------------------------------------------------------------------
(* Constants and operators                                                  *)

LEMMA Times ==
    /\ StepEnds[1] \in Nat /\ StepEnds[2] \in Nat /\ StepEnds[3] \in Nat /\ StepEnds[4] \in Nat
    /\ LeapTime = StepEnds[4] /\ LeapTime > 3
    /\ LegPeriod \in Nat /\ LegPeriod > 0 /\ Border \in Nat /\ Border > 0
    /\ FrameTime \in Nat /\ FrameTime > 0 /\ LoopTime \in Nat /\ LoopTime > 0
    /\ Cooldown \in Nat /\ Spacing \in Nat
<1>1. StepEnds[1] \in Nat /\ StepEnds[2] \in Nat /\ StepEnds[3] \in Nat /\ StepEnds[4] \in Nat
  <2>1. StepEnds \in Seq(Nat) /\ Len(StepEnds) = 4
    BY TimesAssumption
  <2>2. 1 \in 1 .. Len(StepEnds) /\ 2 \in 1 .. Len(StepEnds)
        /\ 3 \in 1 .. Len(StepEnds) /\ 4 \in 1 .. Len(StepEnds)
    BY <2>1
  <2> QED
    BY <2>1, <2>2, ElementOfSeq
<1>2. LeapTime = StepEnds[4] /\ LeapTime > 3
  BY <1>1, TimesAssumption DEF LeapTime
<1> QED
  BY <1>1, <1>2, TimesAssumption, DetectAssumption

\* The last of MultiFrame pictures is not later than the rest.
LEMMA Pictured ==
    ASSUME NEW f \in 0 .. MultiFrame - 1
    PROVE  /\ f * FrameTime \in Nat
           /\ (f + 1) * FrameTime = f * FrameTime + FrameTime
           /\ Seeing \in Nat
           /\ Border + f * FrameTime + FrameTime <= Seeing
<1>1. \A a, b \in Nat : a * b \in Nat
  OBVIOUS
<1>2. f \in Nat /\ MultiFrame \in Nat /\ MultiFrame - f - 1 \in Nat
  BY DetectAssumption
<1>3. f * FrameTime \in Nat /\ MultiFrame * FrameTime \in Nat
      /\ (MultiFrame - f - 1) * FrameTime \in Nat
  BY <1>1, <1>2, Times
<1>4. MultiFrame * FrameTime = f * FrameTime + FrameTime + (MultiFrame - f - 1) * FrameTime
      /\ (f + 1) * FrameTime = f * FrameTime + FrameTime
  BY <1>2, Times
<1> QED
  BY <1>3, <1>4, Times DEF Seeing

LEMMA Spaced ==
    /\ Seeing \in Nat /\ Seeing >= Border + FrameTime
    /\ Spacing + 2 >= Seeing + 2 * LoopTime + LeapTime
    /\ Spacing + 2 >= Seeing + Cooldown
<1>1. 0 \in 0 .. MultiFrame - 1
  BY DetectAssumption
<1> QED
  BY <1>1, Pictured, Times, TimesAssumption

LEMMA DetectionTyped ==
    ASSUME NEW d \in Detections
    PROVE  /\ d.frames \in 0 .. MultiFrame - 1 /\ d.triggers \in 0 .. Len(DotTypes)
           /\ d.since \in 0 .. Cooldown
           /\ Elapse(d) \in Detections
           /\ Elapse(d).frames = d.frames /\ Elapse(d).triggers = d.triggers
           /\ Elapse(d).since = IF d.since < Cooldown THEN d.since + 1 ELSE d.since
<1>1. /\ d = [frames |-> d.frames, triggers |-> d.triggers, since |-> d.since]
      /\ d.frames \in 0 .. MultiFrame - 1 /\ d.triggers \in 0 .. Len(DotTypes)
      /\ d.since \in 0 .. Cooldown
  BY DEF Detections
<1> DEFINE n == IF d.since < Cooldown THEN d.since + 1 ELSE d.since
<1>2. n \in 0 .. Cooldown
  BY <1>1, Times
<1>3. Elapse(d) = [frames |-> d.frames, triggers |-> d.triggers, since |-> n]
  BY <1>1 DEF Elapse
<1> HIDE DEF n
<1>4. Elapse(d) \in Detections
  BY <1>1, <1>2, <1>3 DEF Detections
<1> QED
  BY <1>1, <1>3, <1>4 DEF n

\* What a picture does to a detection.
LEMMA Pictures1 ==
    ASSUME NEW d \in Detections, NEW picture
    PROVE  LET e == JumpProcessing(d, picture) IN
           /\ e \in Detections
           /\ \/ e.frames = 0 /\ e.triggers = d.triggers /\ e.since = d.since
                 /\ (Finished(d) \/ picture # DotType(d) \/ d.since < Cooldown)
              \/ e.frames = d.frames + 1 /\ e.triggers = d.triggers /\ e.since = d.since
                 /\ ~Finished(d) /\ picture = DotType(d)
              \/ e.frames = 0 /\ e.triggers = d.triggers + 1 /\ e.since = 0
                 /\ ~Finished(d) /\ picture = DotType(d)
<1> USE DetectAssumption, LenProperties
<1>1. CASE Finished(d) \/ picture # DotType(d)
  BY <1>1 DEF JumpProcessing, Restarted, Detections
<1>2. CASE ~(Finished(d) \/ picture # DotType(d)) /\ d.frames + 1 < MultiFrame
  BY <1>2 DEF JumpProcessing, Counted, Detections
<1>3. CASE ~(Finished(d) \/ picture # DotType(d)) /\ ~(d.frames + 1 < MultiFrame) /\ d.since < Cooldown
  BY <1>3 DEF JumpProcessing, Restarted, Detections
<1>4. CASE ~(Finished(d) \/ picture # DotType(d)) /\ ~(d.frames + 1 < MultiFrame) /\ ~(d.since < Cooldown)
  <2>1. d.triggers + 1 \in 0 .. Len(DotTypes)
    BY <1>4 DEF Finished, Detections
  <2> QED
    BY <1>4, <2>1 DEF JumpProcessing, Triggered, Detections
<1> QED
  BY <1>1, <1>2, <1>3, <1>4

\* The ground between two edges is never of the kind that is awaited there.
LEMMA NotAwaited ==
    ASSUME TypeOK, triggers = region, ~Finished(detection)
    PROVE  DotType(detection) \notin Pictures
<1>1. detection.triggers \in 0 .. Len(DotTypes) /\ Len(DotTypes) \in Nat
  BY DetectionTyped, DetectAssumption, LenProperties DEF TypeOK
<1>2. DotType(detection) = DotTypes[region + 1] /\ region + 1 \in 1 .. Len(DotTypes)
  BY <1>1 DEF DotType, Finished, triggers
<1>3. DotType(detection) \in {"white", "black"}
  BY <1>2, DetectAssumption, ElementOfSeq
<1>4. Ground # DotType(detection)
  <2>1. CASE region > 0
    <3>1. region \in 1 .. Len(DotTypes) - 1
      BY <1>1, <1>2, <2>1 DEF TypeOK
    <3> QED
      BY <1>2, <2>1, <3>1, CourseAssumption DEF Ground
  <2>2. CASE ~(region > 0)
    <3>1. region = 0
      BY <2>2 DEF TypeOK
    <3>2. \E kind \in {"white", "black"} : kind # DotTypes[1]
      OBVIOUS
    <3> QED
      BY <1>2, <2>2, <3>1, <3>2 DEF Ground
  <2> QED
    BY <2>1, <2>2
<1> QED
  BY <1>3, <1>4 DEF Pictures

\* The ground behind an edge that is not seen yet is.
LEMMA AwaitedGround ==
    ASSUME TypeOK, region = triggers + 1
    PROVE  ~Finished(detection) /\ Ground = DotType(detection)
<1>1. detection.triggers \in 0 .. Len(DotTypes) /\ Len(DotTypes) \in Nat
  BY DetectionTyped, DetectAssumption, LenProperties DEF TypeOK
<1> QED
  BY <1>1 DEF TypeOK, Finished, Ground, DotType, triggers

-----------------------------------------------------------------------------
(* The invariant                                                            *)

LEMMA InitIInv == Init => IInv
<1> SUFFICES ASSUME Init PROVE IInv
  OBVIOUS
<1>1. Len(DotTypes) \in Nat
  BY DetectAssumption, LenProperties
<1>2. detection \in Detections /\ detection.frames = 0 /\ detection.triggers = 0
      /\ detection.since = Cooldown
  BY <1>1, DetectAssumption DEF Init, NewDetection, Detections
<1>3. Border \in 0 .. Spacing
  BY Times, Spaced
<1>4. TypeOK
  <2>1. age \in 0 .. Spacing /\ region \in 0 .. Len(DotTypes) /\ jump_count \in 0 .. Len(DotTypes)
        /\ leaps \in 0 .. Len(DotTypes) + 1
    BY <1>1, <1>3 DEF Init
  <2>2. unseen \in 0 .. FrameTime /\ spent \in 0 .. LoopTime /\ ticks \in 0 .. LegPeriod - 1
        /\ jump_time \in 0 .. LeapTime - 1
    BY Times DEF Init
  <2>3. poses \in Seq(Commands)
    BY DEF Init
  <2> QED
    BY <1>2, <2>1, <2>2, <2>3 DEF Init, TypeOK, Commands
<1>5. Awaited /\ Seen /\ OneRequest /\ InTime /\ LegsFollow
  BY <1>2 DEF Init, triggers, Awaited, Seen, OneRequest, Busy, InTime, LegsFollow
<1>6. EveryJumpIsALeap
  BY <1>2 DEF Init, EveryJumpIsALeap, Number
<1> QED
  BY <1>4, <1>5, <1>6 DEF IInv

LEMMA StepLook == IInv /\ Look => IInv'
<1> SUFFICES ASSUME IInv, Look PROVE IInv'
  OBVIOUS
<1>1. PICK picture \in Pictures :
         /\ detection' = JumpProcessing(detection, picture)
         /\ main1' = IF detection'.triggers > detection.triggers THEN "send" ELSE "look"
  BY DEF Look
<1>2. /\ main1 = "look" /\ unseen' = 0
      /\ UNCHANGED <<region, age, fallen, mail, jump_updated, jump_count, done, manual, main0,
                     spent, ticks, jump_flag, jump_time, legs, leaps, poses>>
  BY DEF Look, course, requests, loop0, leap
<1>3. TypeOK /\ Awaited /\ Seen /\ OneRequest /\ InTime /\ EveryJumpIsALeap /\ LegsFollow
  BY DEF IInv
<1>4. /\ detection \in Detections /\ triggers \in Nat /\ region \in Nat /\ age \in Nat
      /\ unseen \in 0 .. FrameTime
      /\ detection.frames \in 0 .. MultiFrame - 1 /\ detection.since \in 0 .. Cooldown
  BY <1>3, DetectionTyped DEF TypeOK, triggers
<1>5. CASE triggers >= region
  <2>1. triggers = region /\ detection.frames = 0
    BY <1>3, <1>5 DEF Seen
  <2>2. Finished(detection) \/ picture # DotType(detection)
    BY <1>1, <1>3, <2>1, NotAwaited
  <2>3. detection' \in Detections /\ detection'.frames = 0 /\ triggers' = triggers
        /\ detection'.since = detection.since
    BY <1>1, <1>4, <2>2, Pictures1 DEF triggers
  <2>4. main1' = "look"
    BY <1>1, <1>4, <2>3 DEF triggers
  <2>5. TypeOK'
    BY <1>2, <1>3, <2>3, <2>4, Times DEF TypeOK
  <2>6. Awaited' /\ Seen'
    BY <1>2, <1>3, <1>4, <2>1, <2>3 DEF Awaited, Seen
  <2>7. OneRequest' /\ InTime' /\ LegsFollow'
    BY <1>2, <1>3, <2>3, <2>4 DEF OneRequest, Busy, InTime, LegsFollow, PosesSoFar
  <2>8. EveryJumpIsALeap'
    BY <1>2, <1>3, <2>3, <2>4 DEF EveryJumpIsALeap, triggers
  <2> QED
    BY <2>5, <2>6, <2>7, <2>8 DEF IInv
<1>6. CASE triggers < region
  <2>1. /\ region = triggers + 1 /\ detection.since = Cooldown
        /\ age < Border \/ age < Border + detection.frames * FrameTime + unseen
        /\ ~Busy
    BY <1>3, <1>4, <1>6 DEF Awaited, OneRequest
  <2>2. ~Finished(detection) /\ Ground = DotType(detection)
    BY <1>3, <2>1, AwaitedGround
  <2>3. age < Seeing
    BY <1>4, <2>1, Pictured, Times, Spaced
  <2>4. detection' \in Detections
    BY <1>1, <1>4, Pictures1
  <2>5. CASE detection'.triggers = detection.triggers + 1 /\ detection'.frames = 0 /\ detection'.since = 0
    <3>1. main1' = "send" /\ triggers' = triggers + 1 /\ triggers' = region'
      BY <1>1, <1>2, <1>4, <2>1, <2>5 DEF triggers
    <3>2. TypeOK'
      BY <1>2, <1>3, <2>4, <3>1, Times DEF TypeOK
    <3>3. Awaited' /\ Seen'
      BY <1>2, <1>4, <2>3, <2>5, <3>1, Spaced DEF Awaited, Seen
    <3>4. OneRequest' /\ InTime' /\ LegsFollow'
      BY <1>2, <1>3, <1>4, <2>1, <2>3, <3>1 DEF OneRequest, Busy, InTime, LegsFollow, PosesSoFar
    <3>5. EveryJumpIsALeap'
      <4>1. Number(main1 = "send") = 0 /\ Number(main1' = "send") = 1
        BY <1>2, <3>1 DEF Number
      <4>2. /\ Number(mail) \in Nat /\ Number(jump_updated) \in Nat /\ Number(main0 = "jump") \in Nat
            /\ jump_count \in Nat
        BY <1>3 DEF Number, TypeOK
      <4>3. triggers = jump_count + Number(main1 = "send") + Number(mail)
                       + Number(jump_updated) + Number(main0 = "jump")
        BY <1>3 DEF EveryJumpIsALeap, triggers
      <4>4. triggers' = jump_count + Number(main1' = "send") + Number(mail)
                       + Number(jump_updated) + Number(main0 = "jump")
        BY <1>4, <3>1, <4>1, <4>2, <4>3
      <4> QED
        BY <1>2, <1>3, <4>4 DEF EveryJumpIsALeap, triggers
    <3> QED
      BY <3>2, <3>3, <3>4, <3>5 DEF IInv
  <2>6. CASE /\ detection'.triggers = detection.triggers /\ detection'.since = detection.since
             /\ \/ detection'.frames = detection.frames + 1
                \/ detection'.frames = 0 /\ picture # DotType(detection)
    <3>1. main1' = "look" /\ triggers' = triggers
      BY <1>1, <1>4, <2>6 DEF triggers
    <3>2. TypeOK'
      BY <1>2, <1>3, <2>4, <3>1, Times DEF TypeOK
    <3>3. Seen'
      BY <1>2, <1>6, <3>1, <1>4 DEF Seen
    <3>4. Awaited'
      <4>1. CASE age < Border
        BY <1>2, <2>1, <2>6, <3>1, <4>1 DEF Awaited
      <4>2. CASE ~(age < Border)
        <5>1. picture = DotType(detection)
          BY <1>1, <2>2, <4>2 DEF Pictures
        <5>2. age < Border + detection.frames * FrameTime + FrameTime
          BY <1>4, <2>1, <4>2, Pictured, Times
        <5>3. age < Border + detection'.frames * FrameTime + unseen'
          BY <1>2, <1>4, <2>6, <5>1, <5>2, Pictured, Times
        <5> QED
          BY <1>2, <2>1, <2>6, <3>1, <5>3 DEF Awaited
      <4> QED
        BY <4>1, <4>2
    <3>5. OneRequest' /\ InTime' /\ LegsFollow'
      BY <1>2, <1>3, <2>1, <3>1 DEF OneRequest, Busy, InTime, LegsFollow, PosesSoFar
    <3>6. EveryJumpIsALeap'
      BY <1>2, <1>3, <3>1 DEF EveryJumpIsALeap, triggers
    <3> QED
      BY <3>2, <3>3, <3>4, <3>5, <3>6 DEF IInv
  <2>7. ~(detection.since < Cooldown)
    BY <2>1, Times
  <2> QED
    BY <1>1, <1>4, <2>2, <2>5, <2>6, <2>7, Pictures1
<1> QED
  BY <1>4, <1>5, <1>6

\* What the steps leave alone that do not look at the course.
LEMMA CourseKept ==
    ASSUME IInv, UNCHANGED <<region, age, detection, unseen>>
    PROVE  Awaited' /\ Seen'
BY DEF IInv, Awaited, Seen, triggers

LEMMA Counts ==
    ASSUME TypeOK
    PROVE  /\ triggers \in 0 .. Len(DotTypes) /\ Len(DotTypes) \in Nat
           /\ jump_count \in Nat /\ region \in Nat /\ age \in Nat /\ leaps \in Nat
           /\ spent \in 0 .. LoopTime /\ jump_time \in 0 .. LeapTime - 1
           /\ unseen \in 0 .. FrameTime
           /\ detection.frames \in 0 .. MultiFrame - 1 /\ detection.since \in 0 .. Cooldown
BY DetectionTyped, DetectAssumption, LenProperties DEF TypeOK, triggers

LEMMA StepSend == IInv /\ Send => IInv'
<1> SUFFICES ASSUME IInv, Send PROVE IInv'
  OBVIOUS
<1>1. /\ main1 = "send" /\ main1' = "look" /\ mail'
      /\ UNCHANGED <<region, age, fallen, detection, unseen, jump_updated, jump_count, done,
                     manual, main0, spent, ticks, jump_flag, jump_time, legs, leaps, poses>>
  BY DEF Send, course, loop0, leap
<1>2. TypeOK /\ OneRequest /\ InTime /\ EveryJumpIsALeap /\ LegsFollow
  BY DEF IInv
<1>3. TypeOK'
  BY <1>1, <1>2 DEF Send, TypeOK
<1>4. OneRequest' /\ InTime' /\ LegsFollow'
  BY <1>1, <1>2 DEF OneRequest, Busy, InTime, LegsFollow, PosesSoFar, triggers
<1>5. EveryJumpIsALeap'
  BY <1>1, <1>2, Counts DEF OneRequest, EveryJumpIsALeap, Number
<1> QED
  BY <1>1, <1>3, <1>4, <1>5, CourseKept DEF IInv

LEMMA StepCallback == IInv /\ Callback => IInv'
<1> SUFFICES ASSUME IInv, Callback PROVE IInv'
  OBVIOUS
<1>1. /\ mail /\ ~mail' /\ jump_updated'
      /\ UNCHANGED <<region, age, fallen, detection, unseen, main1, jump_count, done,
                     manual, main0, spent, ticks, jump_flag, jump_time, legs, leaps, poses>>
  BY DEF Callback, course, camera, loop0, leap
<1>2. TypeOK /\ OneRequest /\ InTime /\ EveryJumpIsALeap /\ LegsFollow
  BY DEF IInv
<1>3. TypeOK'
  BY <1>1, <1>2 DEF Callback, TypeOK
<1>4. OneRequest' /\ LegsFollow'
  BY <1>1, <1>2 DEF OneRequest, Busy, LegsFollow, PosesSoFar, triggers
<1>5. InTime'
  <2>1. ~jump_updated /\ main0 # "jump" /\ ~jump_flag /\ jump_time = 0 /\ main1 # "send"
    BY <1>1, <1>2 DEF OneRequest, InTime
  <2>2. age < Seeing
    BY <1>1, <1>2 DEF InTime
  <2>3. age < Seeing + spent /\ age < Seeing + LoopTime + spent
    <3>1. age \in Nat /\ spent \in Nat /\ Seeing \in Nat /\ LoopTime \in Nat
      BY <1>2, Counts, Times, Spaced
    <3> QED
      BY <2>2, <3>1
  <2> QED
    BY <1>1, <2>1, <2>3 DEF InTime
<1>6. EveryJumpIsALeap'
  BY <1>1, <1>2, Counts DEF OneRequest, EveryJumpIsALeap, Number
<1> QED
  BY <1>1, <1>3, <1>4, <1>5, <1>6, CourseKept DEF IInv

LEMMA StepSwitch ==
    ASSUME IInv, NEW online \in BOOLEAN, NEW up \in BOOLEAN, ReadSwitch(online, up)
    PROVE  IInv'
<1>1. /\ main0 = "switch" /\ main0' = "stage" /\ spent' = 0 /\ spent \in 0 .. LoopTime
      /\ UNCHANGED <<region, age, fallen, detection, unseen, main1, mail, jump_updated,
                     jump_count, done, ticks, jump_flag, jump_time, legs, leaps, poses>>
  BY DEF ReadSwitch, course, camera, requests, leap, IInv, TypeOK
<1>2. TypeOK /\ OneRequest /\ InTime /\ EveryJumpIsALeap /\ LegsFollow
  BY DEF IInv
<1>3. TypeOK'
  <2>1. manual' \in BOOLEAN
    BY DEF ReadSwitch
  <2>2. spent' \in 0 .. LoopTime
    BY <1>1, Times
  <2> QED
    BY <1>1, <1>2, <2>1, <2>2 DEF TypeOK
<1>4. OneRequest' /\ LegsFollow'
  BY <1>1, <1>2 DEF OneRequest, Busy, LegsFollow, PosesSoFar, triggers
<1>5. InTime'
  BY <1>1, <1>2, Counts, Times, Spaced DEF InTime
<1>6. EveryJumpIsALeap'
  BY <1>1, <1>2 DEF EveryJumpIsALeap, Number
<1> QED
  BY <1>1, <1>3, <1>4, <1>5, <1>6, CourseKept DEF IInv

LEMMA StepStage == IInv /\ Stage => IInv'
<1> SUFFICES ASSUME IInv, Stage PROVE IInv'
  OBVIOUS
<1>1. /\ main0 = "stage" /\ ~jump_updated'
      /\ main0' = IF jump_updated /\ jump_count < Len(DotTypes) THEN "jump" ELSE "switch"
      /\ UNCHANGED <<region, age, fallen, detection, unseen, main1, mail, manual, spent,
                     jump_count, done, ticks, jump_flag, jump_time, legs, leaps, poses>>
  BY DEF Stage, course, camera, leap
<1>2. TypeOK /\ OneRequest /\ InTime /\ EveryJumpIsALeap /\ LegsFollow
  BY DEF IInv
\* A word is never lost here, as fewer jumps are counted than edges seen.
<1>3. jump_updated => jump_count < Len(DotTypes)
  BY <1>1, <1>2, Counts DEF EveryJumpIsALeap, OneRequest, Number, triggers
<1>4. main0' = IF jump_updated THEN "jump" ELSE "switch"
  BY <1>1, <1>3
<1>5. TypeOK'
  BY <1>1, <1>2, <1>4 DEF Stage, TypeOK
<1>6. OneRequest' /\ LegsFollow'
  BY <1>1, <1>2, <1>4 DEF OneRequest, Busy, LegsFollow, PosesSoFar, triggers
<1>7. InTime'
  BY <1>1, <1>2, <1>4, Counts, Times, Spaced DEF InTime
<1>8. EveryJumpIsALeap'
  BY <1>1, <1>2, <1>4, Counts DEF EveryJumpIsALeap, Number
<1> QED
  BY <1>1, <1>5, <1>6, <1>7, <1>8, CourseKept DEF IInv

LEMMA StepJump == IInv /\ Jump => IInv'
<1> SUFFICES ASSUME IInv, Jump PROVE IInv'
  OBVIOUS
<1>1. /\ main0 = "jump" /\ main0' = "switch" /\ jump_flag' /\ jump_count' = jump_count + 1
      /\ UNCHANGED <<region, age, fallen, detection, unseen, main1, mail, jump_updated, manual,
                     spent, ticks, jump_time, legs, leaps, poses>>
  BY DEF Jump, course, camera
<1>2. TypeOK /\ OneRequest /\ InTime /\ EveryJumpIsALeap /\ LegsFollow
  BY DEF IInv
<1>3. ~jump_flag /\ jump_time = 0 /\ main1 # "send" /\ ~mail /\ ~jump_updated
  BY <1>1, <1>2 DEF OneRequest, InTime
<1>4. jump_count' \in 0 .. Len(DotTypes)
  BY <1>1, <1>2, <1>3, Counts DEF EveryJumpIsALeap, Number, triggers
<1>5. TypeOK'
  <2>1. done' \in BOOLEAN /\ jump_flag' \in BOOLEAN
    BY DEF Jump
  <2> QED
    BY <1>1, <1>2, <1>4, <2>1 DEF TypeOK
<1>6. OneRequest' /\ LegsFollow'
  BY <1>1, <1>2, <1>3 DEF OneRequest, Busy, LegsFollow, PosesSoFar, triggers
<1>7. InTime'
  BY <1>1, <1>2, <1>3, Counts, Times, Spaced DEF InTime
<1>8. EveryJumpIsALeap'
  BY <1>1, <1>2, <1>3, Counts DEF EveryJumpIsALeap, Number
<1> QED
  BY <1>1, <1>5, <1>6, <1>7, <1>8, CourseKept DEF IInv

-----------------------------------------------------------------------------
(* The timer interrupt                                                      *)

LEMMA PoseOf ==
    ASSUME NEW t \in 1 .. LeapTime - 1
    PROVE  Pose(t) = IF t <= StepEnds[1] THEN "thrust"
                     ELSE IF t <= StepEnds[2] THEN "tuck"
                     ELSE IF t <= StepEnds[3] THEN "prepare" ELSE "buffer"
<1> DEFINE In(i) == t <= StepEnds[i] /\ \A j \in 1 .. i - 1 : t > StepEnds[j]
           k == IF t <= StepEnds[1] THEN 1
                ELSE IF t <= StepEnds[2] THEN 2
                ELSE IF t <= StepEnds[3] THEN 3 ELSE 4
<1>1. /\ t \in Nat /\ t <= StepEnds[4]
      /\ StepEnds[1] < StepEnds[2] /\ StepEnds[2] < StepEnds[3] /\ StepEnds[3] < StepEnds[4]
  BY Times, TimesAssumption
<1>2. k \in 1 .. 4 /\ t <= StepEnds[k] /\ (\A j \in 1 .. 4 : j < k => t > StepEnds[j])
  <2>1. CASE t <= StepEnds[1]
    BY <1>1, <2>1, Times
  <2>2. CASE ~(t <= StepEnds[1]) /\ t <= StepEnds[2]
    BY <1>1, <2>2, Times
  <2>3. CASE ~(t <= StepEnds[1]) /\ ~(t <= StepEnds[2]) /\ t <= StepEnds[3]
    BY <1>1, <2>3, Times
  <2>4. CASE ~(t <= StepEnds[1]) /\ ~(t <= StepEnds[2]) /\ ~(t <= StepEnds[3])
    BY <1>1, <2>4, Times
  <2> QED
    BY <2>1, <2>2, <2>3, <2>4
<1> HIDE DEF k
<1>3. In(k)
  BY <1>2
<1>4. \A i \in 1 .. 4 : In(i) => i = k
  <2> SUFFICES ASSUME NEW i \in 1 .. 4, In(i), i # k PROVE FALSE
    OBVIOUS
  <2>1. CASE i < k
    BY <1>1, <1>2, <2>1, Times
  <2>2. CASE k < i
    <3>1. k \in 1 .. i - 1
      BY <1>2, <2>2
    <3> QED
      BY <1>1, <1>2, <3>1, Times
  <2> QED
    BY <1>2, <2>1, <2>2
<1>5. (CHOOSE i \in 1 .. 4 : In(i)) = k
  BY <1>2, <1>3, <1>4
<1>6. Pose(t) = Poses[k]
  BY <1>5 DEF Pose
<1> QED
  BY <1>6 DEF k, Poses

\* The commands of a leap grow one by one.
LEMMA Grown ==
    /\ Append(<<"thrust">>, "tuck") = <<"thrust", "tuck">>
    /\ Append(<<"thrust", "tuck">>, "buffer") = <<"thrust", "tuck", "buffer">>
    /\ Len(<<"thrust">>) = 1 /\ Len(<<"thrust", "tuck">>) = 2
    /\ Len(<<"thrust", "tuck", "buffer">>) = 3
<1> DEFINE S == {"thrust", "tuck", "buffer"}
<1>1. Len(<<"thrust">>) = 1 /\ Len(<<"thrust", "tuck">>) = 2
      /\ Len(<<"thrust", "tuck", "buffer">>) = 3
  OBVIOUS
<1>2. /\ <<"thrust">> \in Seq(S) /\ <<"thrust", "tuck">> \in Seq(S)
      /\ <<"thrust", "tuck", "buffer">> \in Seq(S)
  OBVIOUS
<1>3. Append(<<"thrust">>, "tuck") = <<"thrust", "tuck">>
  <2>1. LET s == Append(<<"thrust">>, "tuck") IN
        s \in Seq(S) /\ Len(s) = 2 /\ s[1] = "thrust" /\ s[2] = "tuck"
    BY <1>1, <1>2, AppendProperties
  <2>2. \A i \in 1 .. 2 : Append(<<"thrust">>, "tuck")[i] = <<"thrust", "tuck">>[i]
    BY <2>1
  <2> HIDE DEF S
  <2> QED
    BY <1>1, <1>2, <2>1, <2>2, SeqEqual
<1>4. Append(<<"thrust", "tuck">>, "buffer") = <<"thrust", "tuck", "buffer">>
  <2>1. LET s == Append(<<"thrust", "tuck">>, "buffer") IN
        s \in Seq(S) /\ Len(s) = 3 /\ s[1] = "thrust" /\ s[2] = "tuck" /\ s[3] = "buffer"
    BY <1>1, <1>2, AppendProperties
  <2>2. \A i \in 1 .. 3 : Append(<<"thrust", "tuck">>, "buffer")[i] = <<"thrust", "tuck", "buffer">>[i]
    BY <2>1
  <2> HIDE DEF S
  <2> QED
    BY <1>1, <1>2, <2>1, <2>2, SeqEqual
<1> QED
  BY <1>1, <1>3, <1>4

LEMMA Lasts ==
    /\ <<"thrust">>[Len(<<"thrust">>)] = "thrust"
    /\ <<"thrust", "tuck">>[Len(<<"thrust", "tuck">>)] = "tuck"
    /\ <<"thrust", "tuck", "buffer">>[Len(<<"thrust", "tuck", "buffer">>)] = "buffer"
OBVIOUS

\* A protected car stands still, and so does its leap.
Stands == UNCHANGED <<jump_flag, jump_time, region, age>>

\* Otherwise the leap goes on, ends, or is not asked for, ...
NoLeap == ~jump_flag /\ UNCHANGED <<jump_flag, jump_time>>
LeapGoesOn == jump_flag /\ jump_flag' /\ jump_time' = jump_time + 1 /\ jump_time + 1 < LeapTime
LeapIsOver == jump_flag /\ ~jump_flag' /\ jump_time + 1 = LeapTime /\ jump_time' = 0

\* ... and the car reaches the next edge or drives on.
Reaches == region < Len(DotTypes) /\ age = Spacing /\ region' = region + 1 /\ age' = 0
DrivesOn == region' = region /\ age' = IF age < Spacing THEN age + 1 ELSE age

LEMMA TickCases ==
    ASSUME IInv, NEW falls \in BOOLEAN, Tick(falls)
    PROVE  Stands \/ ((NoLeap \/ LeapGoesOn \/ LeapIsOver) /\ (Reaches \/ DrivesOn))
<1>1. CASE Protected'
  <2>1. UNCHANGED <<jump_flag, jump_time>>
    BY <1>1 DEF Tick
  <2>2. UNCHANGED <<region, age>>
    BY <1>1 DEF Tick, Drive
  <2> QED
    BY <2>1, <2>2 DEF Stands
<1>2. CASE ~Protected'
  <2>1. NoLeap \/ LeapGoesOn \/ LeapIsOver
    BY <1>2 DEF Tick, JumpControl, NoLeap, LeapGoesOn, LeapIsOver, IInv, TypeOK
  <2>2. Reaches \/ DrivesOn
    BY <1>2 DEF Tick, Drive, Reaches, DrivesOn
  <2> QED
    BY <2>1, <2>2
<1> QED
  BY <1>1, <1>2

\* When the next edge comes, the last one has been seen, its request is a leap,
\* and the leap ends with this tick at the latest.
LEMMA ReachedFree ==
    ASSUME IInv, ~mail, main1 = "look", unseen < FrameTime, spent < LoopTime, age = Spacing
    PROVE  /\ triggers = region
           /\ ~jump_updated /\ main0 # "jump"
           /\ jump_flag => jump_time + 1 = LeapTime
           /\ Elapse(detection).since = Cooldown
<1>1. TypeOK /\ Awaited /\ Seen /\ InTime
  BY DEF IInv
<1>2. /\ triggers \in Nat /\ region \in Nat /\ age \in Nat
      /\ spent \in Nat /\ jump_time \in 0 .. LeapTime - 1 /\ unseen \in Nat
      /\ detection.frames \in 0 .. MultiFrame - 1 /\ detection.since \in 0 .. Cooldown
  BY <1>1, Counts, Times
<1>3. /\ Seeing \in Nat /\ LoopTime \in Nat /\ LoopTime > 0 /\ LeapTime \in Nat /\ LeapTime > 3
      /\ Spacing \in Nat /\ Cooldown \in Nat
      /\ Spacing + 2 >= Seeing + 2 * LoopTime + LeapTime
      /\ Spacing + 2 >= Seeing + Cooldown
  BY Times, Spaced
<1>4. ~(triggers < region)
  <2>1. detection.frames * FrameTime \in Nat
        /\ Border + detection.frames * FrameTime + FrameTime <= Seeing
    BY <1>2, Pictured
  <2>2. age >= Seeing
    BY <1>2, <1>3
  <2>3. ~(age < Border) /\ ~(age < Border + detection.frames * FrameTime + unseen)
    BY <1>2, <1>3, <2>1, <2>2, Times
  <2> QED
    BY <1>1, <2>3 DEF Awaited
<1>5. triggers = region /\ (detection.since = Cooldown \/ age < Seeing + detection.since)
  BY <1>1, <1>2, <1>4 DEF Seen
<1>6. ~(age < Seeing + spent) /\ ~(age < Seeing + LoopTime + spent)
  BY <1>2, <1>3
<1>7. ~jump_updated /\ main0 # "jump"
  BY <1>1, <1>6 DEF InTime, TypeOK, OneRequest, IInv
<1>8. jump_flag => jump_time + 1 = LeapTime
  <2>1. jump_flag => age < Seeing + 2 * LoopTime + jump_time
    BY <1>1 DEF InTime
  <2> QED
    BY <1>2, <1>3, <2>1
<1>9. Elapse(detection).since = Cooldown
  <2>1. Elapse(detection).since = IF detection.since < Cooldown THEN detection.since + 1
                                  ELSE detection.since
    BY <1>1, DetectionTyped DEF TypeOK
  <2> QED
    BY <1>2, <1>3, <1>5, <2>1
<1> QED
  BY <1>5, <1>7, <1>8, <1>9

LEMMA TickRequests ==
    ASSUME IInv, NEW falls \in BOOLEAN, Tick(falls)
    PROVE  Awaited' /\ Seen' /\ OneRequest' /\ InTime'
<1>1. /\ ~mail /\ main1 = "look" /\ unseen < FrameTime /\ spent < LoopTime
      /\ unseen' = unseen + 1 /\ spent' = spent + 1 /\ detection' = Elapse(detection)
      /\ UNCHANGED <<main1, mail, jump_updated, main0>>
  BY DEF Tick, requests
<1>2. TypeOK /\ Awaited /\ Seen /\ OneRequest /\ InTime
  BY DEF IInv
<1>3. /\ triggers \in Nat /\ region \in Nat /\ age \in Nat
      /\ spent \in Nat /\ jump_time \in Nat /\ unseen \in Nat
      /\ detection.frames \in 0 .. MultiFrame - 1 /\ detection.since \in 0 .. Cooldown
      /\ detection.frames * FrameTime \in Nat
  <2>1. detection.frames \in 0 .. MultiFrame - 1
    BY <1>2, Counts
  <2>2. detection.frames * FrameTime \in Nat
    BY <2>1, Pictured
  <2> QED
    BY <1>2, <2>2, Counts, Times
<1>4. /\ detection'.frames = detection.frames /\ triggers' = triggers
      /\ detection'.since = IF detection.since < Cooldown THEN detection.since + 1
                            ELSE detection.since
  BY <1>1, <1>2, DetectionTyped DEF TypeOK, triggers
<1>5. /\ Seeing \in Nat /\ LoopTime \in Nat /\ LeapTime \in Nat /\ Spacing \in Nat
      /\ Cooldown \in Nat /\ Border \in Nat /\ Border > 0
  BY Times, Spaced
<1>6. CASE Stands
  <2>1. Awaited'
    BY <1>1, <1>2, <1>3, <1>4, <1>5, <1>6 DEF Awaited, Stands
  <2>2. Seen'
    BY <1>1, <1>2, <1>3, <1>4, <1>5, <1>6 DEF Seen, Stands
  <2>3. OneRequest'
    BY <1>1, <1>2, <1>4, <1>6 DEF OneRequest, Busy, Stands
  <2>4. InTime'
    BY <1>1, <1>2, <1>3, <1>5, <1>6 DEF InTime, Stands
  <2> QED
    BY <2>1, <2>2, <2>3, <2>4
<1>7. CASE (NoLeap \/ LeapGoesOn \/ LeapIsOver) /\ DrivesOn
  <2>1. region' = region /\ age' \in Nat /\ age' <= age + 1
    BY <1>3, <1>5, <1>7 DEF DrivesOn
  <2>2. Awaited'
    <3>1. age < Border => age' < Border + detection'.frames * FrameTime + unseen'
      BY <1>1, <1>3, <1>4, <1>5, <2>1
    <3>2. age < Border + detection.frames * FrameTime + unseen
             => age' < Border + detection'.frames * FrameTime + unseen'
      BY <1>1, <1>3, <1>4, <1>5, <2>1
    <3> QED
      BY <1>2, <1>3, <1>4, <1>5, <2>1, <3>1, <3>2 DEF Awaited
  <2>3. Seen'
    BY <1>2, <1>3, <1>4, <1>5, <2>1 DEF Seen
  <2>4. OneRequest'
    BY <1>1, <1>2, <1>4, <1>7, <2>1 DEF OneRequest, Busy, NoLeap, LeapGoesOn, LeapIsOver
  <2>5. InTime'
    BY <1>1, <1>2, <1>3, <1>5, <1>7, <2>1 DEF InTime, NoLeap, LeapGoesOn, LeapIsOver
  <2> QED
    BY <2>2, <2>3, <2>4, <2>5
<1>8. CASE (NoLeap \/ LeapGoesOn \/ LeapIsOver) /\ Reaches
  <2>1. /\ triggers = region /\ ~jump_updated /\ main0 # "jump"
        /\ jump_flag => jump_time + 1 = LeapTime
        /\ detection'.since = Cooldown
    BY <1>1, <1>8, ReachedFree DEF Reaches
  <2>2. ~jump_flag' /\ jump_time' = 0
    BY <1>2, <1>3, <1>5, <1>8, <2>1 DEF NoLeap, LeapGoesOn, LeapIsOver, InTime
  <2>3. region' = triggers' + 1 /\ age' = 0 /\ triggers' < region'
    BY <1>3, <1>4, <1>8, <2>1 DEF Reaches
  <2>4. Awaited' /\ Seen'
    BY <1>3, <1>4, <1>5, <2>1, <2>3 DEF Awaited, Seen
  <2>5. OneRequest' /\ InTime'
    BY <1>1, <2>1, <2>2 DEF OneRequest, Busy, InTime
  <2> QED
    BY <2>4, <2>5
<1> QED
  BY <1>6, <1>7, <1>8, TickCases

\* What a tick tells the legs outside a leap, or while it stands still.
LEMMA QuietLegs ==
    ASSUME IInv, NEW falls \in BOOLEAN, Tick(falls), ~LeapGoesOn, ~LeapIsOver,
           jump_time' = jump_time
    PROVE  /\ legs' \in Commands /\ leaps' = leaps /\ poses' = poses
           /\ jump_time > 0 => legs' \in {"off", legs}
<1>1. TypeOK /\ InTime /\ LegsFollow /\ jump_time \in Nat
  BY Times DEF IInv, TypeOK
<1>2. Told = LegControl
  BY <1>1 DEF Told
<1>3. LegControl = {} \/ LegControl = {"off"} \/ (LegControl = {"drive"} /\ ~jump_flag)
  BY DEF LegControl
<1>4. legs' = legs \/ legs' = "off" \/ (legs' = "drive" /\ ~jump_flag)
  BY <1>2, <1>3 DEF Tick, MoveLegs, Leaping
<1>5. ~Begins
  BY <1>1 DEF Begins
<1>6. jump_time > 0 => jump_flag /\ legs' \in {"off", legs} /\ legs \in {"off", poses[Len(poses)]}
  BY <1>1, <1>4 DEF InTime, LegsFollow
<1>7. jump_time = 0 \/ legs' \in {"off", poses[Len(poses)]}
  BY <1>1, <1>6
<1>8. leaps' = leaps /\ poses' = poses
  BY <1>5, <1>7 DEF Tick, MoveLegs
<1> QED
  BY <1>1, <1>4, <1>6, <1>8 DEF TypeOK, Commands

\* A leap that goes on tells them its next pose.
LEMMA LeapingLegs ==
    ASSUME IInv, NEW falls \in BOOLEAN, Tick(falls), LeapGoesOn, ~Protected
    PROVE  /\ jump_time' \in 1 .. LeapTime - 1
           /\ legs' = IF Pose(jump_time') = "prepare" THEN legs ELSE Pose(jump_time')
<1>1. jump_time' \in 1 .. LeapTime - 1 /\ jump_time' > jump_time
  BY Times DEF IInv, TypeOK, LeapGoesOn
<1>2. LegControl = {}
  BY DEF LegControl, LeapGoesOn
<1>3. Told = {Pose(jump_time')} \ {"prepare"}
  BY <1>1, <1>2 DEF Told
<1>4. Pose(jump_time') \in {"thrust", "tuck", "prepare", "buffer"}
  BY <1>1, PoseOf
<1>5. CASE Pose(jump_time') = "prepare"
  <2>1. Told = {}
    BY <1>3, <1>5
  <2> QED
    BY <1>1, <1>5, <2>1 DEF Tick, MoveLegs
<1>6. CASE Pose(jump_time') # "prepare"
  <2>1. Told = {Pose(jump_time')} /\ Pose(jump_time') \in Leaping
    BY <1>3, <1>4, <1>6 DEF Leaping
  <2>2. (CHOOSE c \in Told : c \in Leaping) = Pose(jump_time')
    BY <2>1
  <2> QED
    BY <1>1, <1>6, <2>1, <2>2 DEF Tick, MoveLegs
<1> QED
  BY <1>5, <1>6

LEMMA LeapGrows ==
    ASSUME IInv, NEW falls \in BOOLEAN, Tick(falls), LeapGoesOn, ~Protected
    PROVE  /\ legs' \in Commands /\ poses' \in Seq(Commands)
           /\ LegsFollow'
<1> DEFINE t == jump_time'
<1>1. /\ t \in Nat /\ t > 0 /\ jump_time \in Nat /\ t = jump_time + 1 /\ t <= StepEnds[4]
      /\ legs' = IF Pose(t) = "prepare" THEN legs ELSE Pose(t)
  BY LeapingLegs, Times DEF LeapGoesOn, IInv, TypeOK
<1>2. Pose(t) = IF t <= StepEnds[1] THEN "thrust"
                ELSE IF t <= StepEnds[2] THEN "tuck"
                ELSE IF t <= StepEnds[3] THEN "prepare" ELSE "buffer"
  BY LeapingLegs, PoseOf
<1>3. /\ StepEnds[1] \in Nat /\ StepEnds[2] \in Nat /\ StepEnds[3] \in Nat /\ StepEnds[4] \in Nat
      /\ 1 <= StepEnds[1] /\ StepEnds[1] < StepEnds[2] /\ StepEnds[2] < StepEnds[3]
  BY Times, TimesAssumption
<1>4. jump_time > 0 => poses = PosesSoFar /\ legs \in {"off", poses[Len(poses)]}
  BY DEF IInv, LegsFollow
<1>5. Begins <=> jump_time = 0
  BY <1>1 DEF Begins
<1>6. poses' = IF jump_time = 0 THEN <<legs'>>
               ELSE IF legs' \in {"off", poses[Len(poses)]} THEN poses
               ELSE Append(poses, legs')
  BY <1>5 DEF Tick, MoveLegs
<1>7. /\ PosesSoFar = IF jump_time <= StepEnds[1] THEN <<"thrust">>
                       ELSE IF jump_time <= StepEnds[3] THEN <<"thrust", "tuck">>
                       ELSE <<"thrust", "tuck", "buffer">>
      /\ PosesSoFar' = IF t <= StepEnds[1] THEN <<"thrust">>
                        ELSE IF t <= StepEnds[3] THEN <<"thrust", "tuck">>
                        ELSE <<"thrust", "tuck", "buffer">>
  BY DEF PosesSoFar
<1>8. poses' = PosesSoFar' /\ legs' \in {"off", poses'[Len(poses')]}
  <2> HIDE DEF t
  <2>1. CASE t <= StepEnds[1]
    <3>1. legs' = "thrust" /\ PosesSoFar' = <<"thrust">>
      BY <1>1, <1>2, <1>7, <2>1
    <3>2. CASE jump_time = 0
      BY <1>6, <3>1, <3>2, Lasts
    <3>3. CASE jump_time > 0
      <4>1. poses = <<"thrust">>
        BY <1>1, <1>3, <1>4, <1>7, <2>1, <3>3
      <4> QED
        BY <1>6, <3>1, <3>3, <4>1, Lasts
    <3> QED
      BY <1>1, <3>2, <3>3
  <2>2. CASE ~(t <= StepEnds[1]) /\ t <= StepEnds[2]
    <3>1. legs' = "tuck" /\ PosesSoFar' = <<"thrust", "tuck">> /\ jump_time > 0
      BY <1>1, <1>2, <1>3, <1>7, <2>2
    <3>2. poses = <<"thrust">> \/ poses = <<"thrust", "tuck">>
      BY <1>1, <1>3, <1>4, <1>7, <2>2, <3>1
    <3>3. poses' = <<"thrust", "tuck">>
      BY <1>6, <3>1, <3>2, Lasts, Grown
    <3> QED
      BY <3>1, <3>3, Lasts
  <2>3. CASE ~(t <= StepEnds[2]) /\ t <= StepEnds[3]
    <3>1. legs' = legs /\ PosesSoFar' = <<"thrust", "tuck">> /\ jump_time > 0
      BY <1>1, <1>2, <1>3, <1>7, <2>3
    <3>2. poses = <<"thrust", "tuck">> /\ legs \in {"off", poses[Len(poses)]}
      BY <1>1, <1>3, <1>4, <1>7, <2>3, <3>1
    <3> QED
      BY <1>6, <3>1, <3>2
  <2>4. CASE ~(t <= StepEnds[3])
    <3>1. legs' = "buffer" /\ PosesSoFar' = <<"thrust", "tuck", "buffer">> /\ jump_time > 0
      BY <1>1, <1>2, <1>3, <1>7, <2>4
    <3>2. poses = <<"thrust", "tuck">> \/ poses = <<"thrust", "tuck", "buffer">>
      BY <1>1, <1>3, <1>4, <1>7, <2>4, <3>1
    <3>3. poses' = <<"thrust", "tuck", "buffer">>
      BY <1>6, <3>1, <3>2, Lasts, Grown
    <3> QED
      BY <3>1, <3>3, Lasts
  <2> QED
    BY <1>1, <1>3, <2>1, <2>2, <2>3, <2>4
<1>9. PosesSoFar' \in Seq(Commands) /\ {"thrust", "tuck", "buffer", "off"} \subseteq Commands
  <2>1. {"thrust", "tuck", "buffer", "off"} \subseteq Commands
    BY DEF Commands
  <2>2. /\ <<"thrust">> \in Seq(Commands) /\ <<"thrust", "tuck">> \in Seq(Commands)
        /\ <<"thrust", "tuck", "buffer">> \in Seq(Commands)
    BY <2>1
  <2> QED
    BY <1>7, <2>1, <2>2
<1>10. legs' \in Commands
  BY <1>1, <1>2, <1>9 DEF IInv, TypeOK
<1> QED
  BY <1>8, <1>9, <1>10 DEF LegsFollow

LEMMA TickLegs ==
    ASSUME IInv, NEW falls \in BOOLEAN, Tick(falls)
    PROVE  /\ legs' \in Commands /\ poses' \in Seq(Commands)
           /\ jump_flag' \in BOOLEAN /\ jump_time' \in 0 .. LeapTime - 1
           /\ leaps' = IF LeapGoesOn /\ jump_time = 0 THEN leaps + 1 ELSE leaps
           /\ LegsFollow'
<1>1. TypeOK /\ InTime /\ LegsFollow /\ EveryJumpIsALeap
  BY DEF IInv
<1>2. jump_time \in Nat /\ jump_flag \in BOOLEAN /\ jump_time \in 0 .. LeapTime - 1
  BY <1>1, Times DEF TypeOK
<1>3. CASE LeapGoesOn
  <2>1. ~Protected
    <3>1. jump_time' # jump_time
      BY <1>2, <1>3 DEF LeapGoesOn
    <3>2. ~Protected'
      BY <3>1 DEF Tick
    <3>3. fallen' = (fallen \/ falls) /\ manual' = manual
      BY DEF Tick
    <3> QED
      BY <3>2, <3>3 DEF Protected
  <2>2. legs' \in Commands /\ poses' \in Seq(Commands) /\ LegsFollow'
    BY <1>3, <2>1, LeapGrows
  <2>3. jump_flag' \in BOOLEAN /\ jump_time' \in 0 .. LeapTime - 1 /\ (Begins <=> jump_time = 0)
    BY <1>2, <1>3, Times DEF LeapGoesOn, Begins
  <2>4. leaps <= Len(DotTypes)
    BY <1>1, Counts DEF EveryJumpIsALeap, Number, TypeOK
  <2>5. leaps' = IF jump_time = 0 THEN leaps + 1 ELSE leaps
    BY <2>3, <2>4 DEF Tick, MoveLegs
  <2> QED
    BY <1>3, <2>2, <2>3, <2>5
<1>4. CASE LeapIsOver
  <2>1. jump_time > 0 /\ jump_time' = 0 /\ jump_flag /\ jump_flag' \in BOOLEAN
    <3>1. jump_time > 0
      BY <1>2, <1>4, Times DEF LeapIsOver
    <3>2. jump_flag' \in BOOLEAN
      BY DEF Tick, JumpControl, IInv, TypeOK
    <3> QED
      BY <1>4, <3>1, <3>2 DEF LeapIsOver
  <2>2. Told = LegControl
    BY <1>2, <2>1 DEF Told
  <2>3. LegControl = {} \/ LegControl = {"off"}
    BY <2>1 DEF LegControl
  <2>4. legs' \in {"off", legs}
    BY <2>2, <2>3 DEF Tick, MoveLegs, Leaping
  <2>5. ~Begins /\ ~LeapGoesOn
    BY <1>2, <2>1, <1>4 DEF Begins, LeapGoesOn, LeapIsOver
  <2>6. legs' \in {"off", poses[Len(poses)]}
    BY <1>1, <2>1, <2>4 DEF LegsFollow
  <2>7. poses' = poses /\ leaps' = leaps
    BY <2>5, <2>6 DEF Tick, MoveLegs
  <2>8. LegsFollow'
    BY <2>1 DEF LegsFollow
  <2> QED
    BY <1>1, <2>1, <2>4, <2>5, <2>7, <2>8, Times DEF TypeOK, Commands
<1>5. CASE ~LeapGoesOn /\ ~LeapIsOver
  <2>1. UNCHANGED <<jump_flag, jump_time>>
    BY <1>5, TickCases DEF Stands, NoLeap
  <2>2. legs' \in Commands /\ leaps' = leaps /\ poses' = poses
        /\ (jump_time > 0 => legs' \in {"off", legs})
    BY <1>5, <2>1, QuietLegs
  <2>3. PosesSoFar' = PosesSoFar
    BY <2>1 DEF PosesSoFar
  <2>4. LegsFollow'
    BY <1>1, <2>1, <2>2, <2>3 DEF LegsFollow
  <2> QED
    BY <1>1, <1>2, <1>5, <2>1, <2>2, <2>4 DEF TypeOK
<1> QED
  BY <1>3, <1>4, <1>5

LEMMA StepTick ==
    ASSUME IInv, NEW falls \in BOOLEAN, Tick(falls)
    PROVE  IInv'
<1>1. TypeOK /\ InTime /\ EveryJumpIsALeap
  BY DEF IInv
<1>2. /\ UNCHANGED <<main1, mail, jump_updated, jump_count, done, manual, main0>>
      /\ unseen < FrameTime /\ spent < LoopTime /\ unseen' = unseen + 1 /\ spent' = spent + 1
      /\ detection' = Elapse(detection) /\ ticks' = (ticks + 1) % LegPeriod
      /\ fallen' = (fallen \/ falls)
  BY DEF Tick, requests
<1>3. detection' \in Detections /\ triggers' = triggers
  BY <1>1, <1>2, DetectionTyped DEF TypeOK, triggers
<1>4. region' \in 0 .. Len(DotTypes) /\ age' \in 0 .. Spacing
  <2>1. region \in 0 .. Len(DotTypes) /\ age \in 0 .. Spacing /\ Len(DotTypes) \in Nat /\ Spacing \in Nat
    BY <1>1, Counts, Times DEF TypeOK
  <2>2. CASE Stands
    BY <2>1, <2>2 DEF Stands
  <2>3. CASE Reaches
    BY <2>1, <2>3 DEF Reaches
  <2>4. CASE DrivesOn
    BY <2>1, <2>4 DEF DrivesOn
  <2> QED
    BY <2>2, <2>3, <2>4, TickCases
<1>5. unseen' \in 0 .. FrameTime /\ spent' \in 0 .. LoopTime /\ ticks' \in 0 .. LegPeriod - 1
  BY <1>1, <1>2, Times DEF TypeOK
<1>6. leaps' \in 0 .. Len(DotTypes) + 1 /\ jump_count = leaps' + Number(jump_flag' /\ jump_time' = 0)
  <2>1. jump_count = leaps + Number(jump_flag /\ jump_time = 0)
    BY <1>1 DEF EveryJumpIsALeap
  <2>2. /\ jump_time \in Nat /\ leaps \in Nat /\ Len(DotTypes) \in Nat
        /\ jump_count \in 0 .. Len(DotTypes)
    BY <1>1, Counts, Times DEF TypeOK
  <2>3. CASE LeapGoesOn
    BY <2>1, <2>2, <2>3, TickLegs DEF LeapGoesOn, Number
  <2>4. CASE LeapIsOver
    BY <2>1, <2>2, <2>4, TickLegs, Times DEF LeapIsOver, LeapGoesOn, Number
  <2>5. CASE ~LeapGoesOn /\ ~LeapIsOver
    <3>1. jump_flag' = jump_flag /\ jump_time' = jump_time
      BY <2>5, TickCases DEF Stands, NoLeap
    <3>2. leaps' = leaps
      BY <2>5, TickLegs
    <3> QED
      BY <2>1, <2>2, <3>1, <3>2 DEF Number
  <2> QED
    BY <2>3, <2>4, <2>5
<1>7. EveryJumpIsALeap'
  BY <1>1, <1>2, <1>3, <1>6 DEF EveryJumpIsALeap, triggers
<1>8. fallen' \in BOOLEAN
  BY <1>2
<1>9. TypeOK'
  BY <1>1, <1>2, <1>3, <1>4, <1>5, <1>6, <1>8, TickLegs DEF TypeOK
<1> QED
  BY <1>7, <1>9, TickLegs, TickRequests DEF IInv

LEMMA NextIInv == IInv /\ [Next]_vars => IInv'
<1> SUFFICES ASSUME IInv, [Next]_vars PROVE IInv'
  OBVIOUS
<1>1. CASE Timer
  BY <1>1, StepTick DEF Timer
<1>2. CASE Callback
  BY <1>2, StepCallback
<1>3. CASE MainLoop0
  BY <1>3, StepSwitch, StepStage, StepJump DEF MainLoop0
<1>4. CASE MainLoop1
  BY <1>4, StepLook, StepSend DEF MainLoop1
<1>5. CASE UNCHANGED vars
  <2>1. UNCHANGED <<course, fallen, camera, requests, loop0, ticks, leap>>
    BY <1>5 DEF vars
  <2>2. TypeOK'
    BY <2>1 DEF course, camera, requests, loop0, leap, IInv, TypeOK
  <2>3. Awaited' /\ Seen'
    BY <2>1, CourseKept DEF course, camera
  <2>4. OneRequest' /\ InTime' /\ EveryJumpIsALeap' /\ LegsFollow'
    BY <2>1 DEF course, camera, requests, loop0, leap, IInv, OneRequest, Busy, InTime,
                EveryJumpIsALeap, LegsFollow, PosesSoFar, triggers
  <2> QED
    BY <2>2, <2>3, <2>4 DEF IInv
<1> QED
  BY <1>1, <1>2, <1>3, <1>4, <1>5 DEF Next

-----------------------------------------------------------------------------
(* The theorems                                                             *)

\* The invariant: an edge is in one place of the chain picture, word, mark,
\* request, leap, and is there for a time that ends before the next edge.
THEOREM Invariance == Spec => []IInv
<1> QED
  BY InitIInv, NextIInv, PTL DEF Spec

\* Every variable of both cores keeps its type (TypeOK): the time of a leap
\* stays below its duration and no counter passes the number of edges.
THEOREM TypeCorrect == Spec => []TypeOK
<1>1. IInv => TypeOK
  BY DEF IInv
<1> QED
  BY <1>1, Invariance, PTL

\* Each edge sets off one jump (OneJumpPerEdge), whatever the number of frames
\* in a run and the cooldown.
THEOREM OneJump == Spec => []OneJumpPerEdge
<1>1. IInv => OneJumpPerEdge
  <2> SUFFICES ASSUME IInv PROVE OneJumpPerEdge
    OBVIOUS
  <2>1. TypeOK /\ Awaited /\ Seen
    BY DEF IInv
  <2>2. /\ triggers \in Nat /\ region \in Nat /\ age \in Nat /\ unseen \in 0 .. FrameTime
        /\ detection.frames \in 0 .. MultiFrame - 1
    BY <2>1, Counts
  <2>3. detection.frames * FrameTime \in Nat
        /\ Border + detection.frames * FrameTime + FrameTime <= Seeing
    BY <2>2, Pictured
  <2>4. age >= Seeing => ~(triggers < region)
    BY <2>1, <2>2, <2>3, Times, Spaced DEF Awaited
  <2>5. region \in {triggers, triggers + 1} /\ (age >= Seeing => triggers = region)
    BY <2>1, <2>2, <2>4 DEF Awaited, Seen
  <2> QED
    BY <2>5 DEF OneJumpPerEdge, triggers
<1> QED
  BY <1>1, Invariance, PTL

\* Each jump that core 1 has seen becomes one leap (EveryJumpIsALeap): with the
\* distances of TimesAssumption no request is overwritten or made too early.
THEOREM EveryJump == Spec => []EveryJumpIsALeap
<1>1. IInv => EveryJumpIsALeap
  BY DEF IInv
<1> QED
  BY <1>1, Invariance, PTL

\* A leap is whole when it ends (LeapIsWhole), for every table of steps and
\* however often protection has made it stand still.
THEOREM WholeLeap == Spec => LeapIsWhole
<1>1. IInv /\ [Next]_vars => (jump_flag /\ ~jump_flag' => poses = <<"thrust", "tuck", "buffer">>)
  <2> SUFFICES ASSUME IInv, [Next]_vars, jump_flag, ~jump_flag'
               PROVE  poses = <<"thrust", "tuck", "buffer">>
    OBVIOUS
  <2>1. PICK falls \in BOOLEAN : Tick(falls)
    BY DEF Next, Timer, Callback, MainLoop0, MainLoop1, ReadSwitch, Stage, Jump, Look, Send,
           vars, leap
  <2>2. LeapIsOver
    BY <2>1, TickCases DEF Stands, NoLeap, LeapGoesOn
  <2>3. /\ jump_time > 0 /\ ~(jump_time <= StepEnds[1]) /\ ~(jump_time <= StepEnds[3])
    BY <2>2, Times, TimesAssumption DEF LeapIsOver, IInv, TypeOK
  <2> QED
    BY <2>3 DEF IInv, LegsFollow, PosesSoFar
<1> QED
  BY <1>1, Invariance, PTL DEF Spec, LeapIsWhole

-----------------------------------------------------------------------------
(* Progress.  The provers know nothing of ENABLED but its place in WF and    *)
(* SF; what they need to know is Enabling, a condition on states: each fair  *)
(* action can be taken when its guard holds.                                 *)

Enabling ==
    /\ ~mail /\ main1 = "look" /\ unseen < FrameTime /\ spent < LoopTime
         => ENABLED <<Timer>>_vars
    /\ main1 = "look" /\ unseen > 0 => ENABLED <<MainLoop1>>_vars
    /\ main0 = "stage" => ENABLED <<MainLoop0>>_vars
    /\ main0 = "switch" /\ spent > 0 => /\ ENABLED <<MainLoop0>>_vars
                                        /\ ENABLED <<ReadSwitch(TRUE, FALSE)>>_vars

\* A number that keeps within its bound does not grow for ever unless it falls for
\* ever: true of every number, but an induction, which is out of the provers' reach.
LeapIsBounded ==
    []<><<jump_time' > jump_time>>_vars => []<><<jump_time' < jump_time>>_vars

\* A leap of a car that has not fallen; the loops can be waited for or not.
UnderWay == jump_flag /\ ~fallen
JustLooked == unseen = 0
RoundBegins == spent = 0
AtSwitch == main0 = "switch"
Free == ~manual /\ RoundBegins

\* While a leap is under way, no request is: core 1 looks, core 0 comes round.
LEMMA UnderWayStages ==
    IInv /\ UnderWay =>
      /\ AtSwitch \/ main0 = "stage"
      /\ Enabling =>
           /\ JustLooked \/ ENABLED <<MainLoop1>>_vars
           /\ AtSwitch \/ ENABLED <<MainLoop0>>_vars
           /\ AtSwitch /\ ~RoundBegins => /\ ENABLED <<MainLoop0>>_vars
                                          /\ ENABLED <<ReadSwitch(TRUE, FALSE)>>_vars
           /\ JustLooked /\ RoundBegins => ENABLED <<Timer>>_vars
<1> HAVE IInv /\ UnderWay
<1>1. /\ ~mail /\ main1 = "look" /\ main0 \in {"switch", "stage"}
      /\ unseen \in 0 .. FrameTime /\ spent \in 0 .. LoopTime
  BY DEF IInv, TypeOK, OneRequest, UnderWay
<1>2. /\ JustLooked \/ unseen > 0
      /\ RoundBegins \/ spent > 0
      /\ JustLooked => unseen < FrameTime
      /\ RoundBegins => spent < LoopTime
  BY <1>1, Times DEF JustLooked, RoundBegins
<1> QED
  BY <1>1, <1>2 DEF Enabling, AtSwitch

\* Only the timer makes the loops wait, and each loop catches up.
LEMMA UnderWayLoops ==
    IInv /\ [Next]_vars /\ UnderWay /\ IInv' /\ UnderWay' =>
      /\ MainLoop1 => JustLooked'
      /\ JustLooked /\ ~Timer => JustLooked'
      /\ MainLoop0 /\ ~AtSwitch => AtSwitch' /\ (RoundBegins' <=> RoundBegins)
      /\ MainLoop0 /\ AtSwitch => RoundBegins'
      /\ ~MainLoop0 => (AtSwitch' <=> AtSwitch)
      /\ RoundBegins /\ ~Timer => RoundBegins'
      /\ ~RoundBegins /\ ~MainLoop0 => ~RoundBegins'
      /\ Timer => ~RoundBegins' /\ ~UNCHANGED vars
      /\ ReadSwitch(TRUE, FALSE) => Free'
      /\ Free /\ ~Timer => Free'
<1> SUFFICES ASSUME IInv, [Next]_vars, UnderWay, IInv', UnderWay'
             PROVE  /\ MainLoop1 => JustLooked'
                    /\ JustLooked /\ ~Timer => JustLooked'
                    /\ MainLoop0 /\ ~AtSwitch => AtSwitch' /\ (RoundBegins' <=> RoundBegins)
                    /\ MainLoop0 /\ AtSwitch => RoundBegins'
                    /\ ~MainLoop0 => (AtSwitch' <=> AtSwitch)
                    /\ RoundBegins /\ ~Timer => RoundBegins'
                    /\ ~RoundBegins /\ ~MainLoop0 => ~RoundBegins'
                    /\ Timer => ~RoundBegins' /\ ~UNCHANGED vars
                    /\ ReadSwitch(TRUE, FALSE) => Free'
                    /\ Free /\ ~Timer => Free'
  OBVIOUS
<1>1. /\ ~mail /\ main1 = "look" /\ main0 \in {"switch", "stage"} /\ spent \in 0 .. LoopTime
      /\ main0' \in {"switch", "stage"} /\ main1' = "look"
  BY DEF IInv, TypeOK, OneRequest, UnderWay
<1> USE DEF JustLooked, RoundBegins, AtSwitch, Free
<1>2. CASE UNCHANGED vars
  BY <1>1, <1>2 DEF vars, camera, loop0, MainLoop0, MainLoop1, Timer, Tick, Look, Send,
     ReadSwitch, Stage, Jump
<1>3. CASE Timer
  <2>1. spent' = spent + 1 /\ UNCHANGED <<main0, manual>> /\ unseen' = unseen + 1
    BY <1>3 DEF Timer, Tick, requests
  <2>2. spent' # 0 /\ spent' # spent
    BY <1>1, <2>1, Times
  <2>3. ~MainLoop0 /\ ~ReadSwitch(TRUE, FALSE) /\ ~MainLoop1
    <3>1. ~(\E online, up \in BOOLEAN : ReadSwitch(online, up))
      BY <1>1, <2>1, <2>2, Times DEF ReadSwitch
    <3>2. ~Stage /\ ~Jump
      BY <1>1, <2>1, <2>2 DEF Stage, Jump
    <3>3. ~MainLoop1
      BY <2>1, <2>2 DEF MainLoop1, Look, Send, loop0
    <3> QED
      BY <3>1, <3>2, <3>3 DEF MainLoop0
  <2> QED
    BY <1>3, <2>1, <2>2, <2>3 DEF vars, loop0
<1>4. CASE Callback
  BY <1>1, <1>4 DEF Callback
<1>5. CASE MainLoop0 /\ ~Timer
  <2>1. UNCHANGED unseen
    BY <1>5 DEF MainLoop0, ReadSwitch, Stage, Jump, camera
  <2>2. CASE main0 = "stage"
    BY <1>1, <1>5, <2>1, <2>2 DEF MainLoop0, MainLoop1, ReadSwitch, Stage, Jump, Look, Send, loop0
  <2>3. CASE main0 = "switch"
    BY <1>1, <1>5, <2>1, <2>3 DEF MainLoop0, MainLoop1, ReadSwitch, Stage, Jump, Look, Send, loop0
  <2> QED
    BY <1>1, <2>2, <2>3
<1>6. CASE MainLoop1 /\ ~Timer
  BY <1>1, <1>6 DEF MainLoop1, Look, Send, loop0, MainLoop0, ReadSwitch, Stage, Jump
<1> QED
  BY <1>2, <1>3, <1>4, <1>5, <1>6 DEF Next

\* The time of the leap grows with every call of the timer that finds the car free,
\* and falls with none.
LEMMA UnderWayGrows ==
    IInv /\ [Next]_vars /\ UnderWay /\ UnderWay' =>
      /\ ~(jump_time' < jump_time)
      /\ Timer /\ ~manual => jump_time' > jump_time
<1> SUFFICES ASSUME IInv, [Next]_vars, UnderWay, UnderWay'
             PROVE  /\ ~(jump_time' < jump_time)
                    /\ Timer /\ ~manual => jump_time' > jump_time
  OBVIOUS
<1>1. jump_time \in Nat /\ jump_flag /\ jump_flag'
  BY Times DEF IInv, TypeOK, UnderWay
<1>2. CASE ~Timer
  <2>1. jump_time' = jump_time
    BY <1>2 DEF Next, vars, leap, Callback, MainLoop0, MainLoop1, ReadSwitch, Stage, Jump, Look, Send
  <2> QED
    BY <1>1, <1>2, <2>1
<1>3. ASSUME NEW falls \in BOOLEAN, Tick(falls)
      PROVE  /\ ~(jump_time' < jump_time)
             /\ ~manual => jump_time' > jump_time
  <2>1. CASE Protected'
    <3>1. jump_time' = jump_time /\ manual' = manual /\ ~fallen'
      BY <1>3, <2>1 DEF Tick, UnderWay
    <3> QED
      BY <1>1, <2>1, <3>1 DEF Protected
  <2>2. CASE ~Protected'
    <3>1. jump_time' = jump_time + 1
      BY <1>1, <1>3, <2>2 DEF Tick, JumpControl
    <3> QED
      BY <1>1, <3>1
  <2> QED
    BY <2>1, <2>2
<1> QED
  BY <1>2, <1>3 DEF Timer

\* A leap comes to its end, unless the car falls (LeapEnds), however often it stands
\* still under protection.
THEOREM LeapEnding == FairSpec /\ []Enabling /\ LeapIsBounded => LeapEnds
<1>1. FairSpec => []IInv /\ [][Next]_vars
  BY Invariance, PTL DEF FairSpec, Spec
<1>2. FairSpec /\ []Enabling => []([]UnderWay => []<><<Timer>>_vars)
  BY <1>1, UnderWayStages, UnderWayLoops, PTL DEF FairSpec, Fairness
<1>3. FairSpec /\ []Enabling => []([]UnderWay => []<>(AtSwitch /\ ~RoundBegins))
  BY <1>1, <1>2, UnderWayStages, UnderWayLoops, PTL DEF FairSpec, Fairness
<1>4. FairSpec /\ []Enabling => []([]UnderWay => []<><<ReadSwitch(TRUE, FALSE)>>_vars)
  BY <1>1, <1>3, UnderWayStages, PTL DEF FairSpec, Fairness
<1>5. Free => ~manual
  BY DEF Free
<1>6. FairSpec /\ []Enabling => []([]UnderWay => []<><<jump_time' > jump_time>>_vars)
  BY <1>1, <1>2, <1>4, <1>5, UnderWayLoops, UnderWayGrows, PTL
<1>7. FairSpec => []([]UnderWay => <>[][~(jump_time' < jump_time)]_vars)
  BY <1>1, UnderWayGrows, PTL
<1>8. ~UnderWay => ~jump_flag \/ fallen
  BY DEF UnderWay
<1> QED
  BY <1>6, <1>7, <1>8, PTL DEF LeapIsBounded, LeapEnds
=============================================================================
