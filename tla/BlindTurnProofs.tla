-------------------------- MODULE BlindTurnProofs --------------------------
(***************************************************************************)
(* Theorems of BlindTurn for every set of words, every confirmation count  *)
(* and all time limits, checked by TLAPS.  One inductive invariant carries *)
(* them: the flags' types, their mutual exclusion, their life inside the   *)
(* aligning stage, the tripped guard of a fault, the latch of a served     *)
(* request, and the one fact about the main loop that they need.  Under    *)
(* the fairness of BlindTurn turns and recoveries end, a fault brings the  *)
(* car to a stand, and backing out ends.                                   *)
(***************************************************************************)
EXTENDS BlindTurn, TLAPS

\* The main loop is in its branch for the finished stage only when the stage
\* is finished: leaving the mode there cannot cut a turn short.
CompleteBranch ==
    main.at \in {"clear", "write"} /\ main.branch = 1 => phase = "COMPLETE"

\* The guard is armed only inside the stage: it is not carried into it.
GuardNotBefore == mode = "OTHER" /\ phase = "ALIGN" => ~guard_active

IInv ==
    /\ TypeOK
    /\ TurnsExclusive
    /\ TurnOnlyWhileAligning
    /\ FaultKeepsGuard
    /\ ServedIsLatched
    /\ CompleteBranch
    /\ GuardNotBefore

USE DEF Phases, Modes, Kinds, Top

LEMMA InitIInv == Init => IInv
<1> SUFFICES ASSUME Init PROVE IInv
  OBVIOUS
<1>1. core1 \in Fields
  BY DEF Init, NoData, Fields
<1>2. aligned_count \in 0 .. ConfirmCount /\ cooldown \in 0 .. Cooldown /\ rounds \in Nat
  BY TimesAssumption DEF Init
<1>3. main \in [at : Places, branch : BranchNumbers, negated : {-1, 0, 1}]
  BY DEF Init, BranchNumbers, Places
<1>4. speed \in Speeds /\ asked \in {-1, 0, 1}
  BY DEF Init, Speeds
<1>5. TypeOK
  BY <1>1, <1>2, <1>3, <1>4 DEF Init, TypeOK
<1>6. TurnsExclusive /\ TurnOnlyWhileAligning /\ FaultKeepsGuard /\ ServedIsLatched
  BY DEF Init, TurnsExclusive, TurnOnlyWhileAligning, FaultKeepsGuard, ServedIsLatched,
     Turning
<1>7. CompleteBranch /\ GuardNotBefore
  BY DEF Init, CompleteBranch, GuardNotBefore
<1> QED
  BY <1>5, <1>6, <1>7 DEF IInv

\* The inter-core interrupt.
LEMMA CallbackIInv ==
    ASSUME IInv, NEW w \in Words, Callback(w)
    PROVE  IInv'
<1>w. w \in Fields
  BY WordsAssumption
<1>1. core1' \in Fields /\ aligned_count' \in 0 .. ConfirmCount
      /\ bump_start' \in BOOLEAN /\ phase' \in Phases
  <2>1. CASE StartBumps(w)
    BY <2>1, TimesAssumption DEF StartBumps, NoData, Fields
  <2>2. CASE CountAligned(w)
    <3>1. core1' \in Fields /\ bump_start' \in BOOLEAN
      BY <2>2, <1>w DEF CountAligned, Fields, IInv, TypeOK
    <3>2. aligned_count' \in {0, aligned_count, aligned_count + 1}
          /\ (aligned_count' = aligned_count + 1 => aligned_count < ConfirmCount)
      <4> DEFINE reset == w.force_blind \/ w.blind_release \/ Turning
                          \/ ~(w.valid /\ w.aligned)
      <4>1. aligned_count' =
              IF reset THEN 0
              ELSE IF aligned_count < ConfirmCount THEN aligned_count + 1 ELSE aligned_count
        BY <2>2 DEF CountAligned
      <4> HIDE DEF reset
      <4> QED
        BY <4>1, TimesAssumption DEF IInv, TypeOK
    <3>3. aligned_count' \in 0 .. ConfirmCount
      BY <3>2, TimesAssumption DEF IInv, TypeOK
    <3>4. phase' \in Phases
      BY <2>2 DEF CountAligned
    <3> QED
      BY <3>1, <3>3, <3>4
  <2>3. CASE FinishBumps(w)
    BY <2>3, <1>w DEF FinishBumps, Fields, IInv, TypeOK
  <2>4. CASE JustStore(w)
    BY <2>4, <1>w DEF JustStore, Starting, Fields, IInv, TypeOK
  <2> QED
    BY <2>1, <2>2, <2>3, <2>4 DEF Callback
<1>3. \/ EndTurnFlags
      \/ /\ UNCHANGED <<active, recovery, fault>>
         /\ Turning => phase' = "ALIGN"
  <2>1. CASE StartBumps(w)
    BY <2>1 DEF StartBumps
  <2>2. CASE CountAligned(w)
    BY <2>2, TimesAssumption DEF CountAligned, IInv, TypeOK
  <2>3. CASE FinishBumps(w)
    BY <2>3 DEF FinishBumps, IInv, TurnOnlyWhileAligning, Aligning
  <2>4. CASE JustStore(w)
    BY <2>4 DEF JustStore, IInv, TurnOnlyWhileAligning, Aligning
  <2> QED
    BY <2>1, <2>2, <2>3, <2>4 DEF Callback
<1>2. TypeOK'
  <2>1. active' \in BOOLEAN /\ recovery' \in BOOLEAN /\ fault' \in BOOLEAN
    BY <1>3 DEF EndTurnFlags, IInv, TypeOK
  <2>2. served' \in BOOLEAN /\ asked' \in {-1, 0, 1} /\ updated' \in BOOLEAN
    BY <1>w DEF Callback, Fields
  <2>3. UNCHANGED <<mode, latched, guard_active, guard_reached, rounds, cooldown,
                    speed, driven, main>>
    BY DEF Callback
  <2> QED
    BY <1>1, <2>1, <2>2, <2>3 DEF IInv, TypeOK
<1>4. TurnsExclusive' /\ TurnOnlyWhileAligning' /\ FaultKeepsGuard'
  BY <1>3 DEF IInv, TurnsExclusive, TurnOnlyWhileAligning, FaultKeepsGuard,
     Callback, Aligning, Turning, EndTurnFlags
<1>5. ServedIsLatched'
  BY DEF IInv, ServedIsLatched, Callback
<1>6. phase = "COMPLETE" => phase' = "COMPLETE"
  BY DEF Callback, StartBumps, CountAligned, FinishBumps, JustStore
<1>7. CompleteBranch' /\ GuardNotBefore'
  BY <1>6 DEF IInv, CompleteBranch, GuardNotBefore, Callback
<1> QED
  BY <1>2, <1>4, <1>5, <1>7 DEF IInv

\* The timer interrupt outside the aligning stage.
LEMMA OutsideIInv ==
    ASSUME IInv, NEW kind \in Kinds, TimerOutside(kind)
    PROVE  IInv'
<1>1. cooldown' \in 0 .. Cooldown
  BY TimesAssumption DEF IInv, TypeOK, TimerOutside, Decrement
<1>2. core1' \in Fields
  BY DEF IInv, TypeOK, TimerOutside, Fields
<1>3. driven' \in BOOLEAN
  BY DEF IInv, TypeOK, TimerOutside, SpeedLoop
<1> QED
  BY <1>1, <1>2, <1>3 DEF IInv, TypeOK, TimerOutside, EndTurnFlags, TurnsExclusive,
     TurnOnlyWhileAligning, FaultKeepsGuard, ServedIsLatched, CompleteBranch, Turning,
     GuardNotBefore

-----------------------------------------------------------------------------
(* The timer interrupt in the aligning stage: what each of its branches     *)
(* leaves behind.                                                           *)

Good(c, up, count, a, r, f, l, reached, n, cool, sp, s) ==
    /\ c \in Fields /\ up \in BOOLEAN /\ count \in 0 .. ConfirmCount
    /\ a \in BOOLEAN /\ r \in BOOLEAN /\ f \in BOOLEAN /\ l \in BOOLEAN
    /\ reached \in BOOLEAN /\ n \in Nat /\ cool \in 0 .. Cooldown
    /\ sp \in Speeds /\ s \in BOOLEAN
    /\ ~(a /\ r) /\ ~(a /\ f) /\ ~(r /\ f)
    /\ f => reached
    /\ s => l /\ c.force_blind

GoodNext == Good(core1', updated', aligned_count', active', recovery', fault',
                 latched', guard_reached', rounds', cooldown', speed', served')

LEMMA Setpoint ==
    ASSUME IInv, NEW far \in BOOLEAN
    PROVE  /\ GuardedSpeed(far) \in Speeds
           /\ GuardedSpeed(far) < 0 => -GuardedSpeed(far) \in Speeds
           /\ Reached(far) \in BOOLEAN
           /\ fault => Reached(far)
           /\ StillLatched \in BOOLEAN
           /\ served => StillLatched
           /\ Decrement(cooldown) \in 0 .. Cooldown
<1>1. GuardedSpeed(far) \in Speeds
  BY DEF IInv, TypeOK, GuardedSpeed, Speeds
<1>2. GuardedSpeed(far) < 0 => -GuardedSpeed(far) \in Speeds
  BY <1>1 DEF Speeds, ALIGN_SPEED, RECOVERY_SPEED, BACK_OFF_SPEED, CROSS_SPEED, BUMP_SPEED
<1>3. Reached(far) \in BOOLEAN /\ StillLatched \in BOOLEAN
  BY DEF Reached, StillLatched
<1>4. fault => Reached(far)
  BY DEF IInv, Reached, FaultKeepsGuard, TurnOnlyWhileAligning, Turning
<1>5. served => StillLatched
  BY DEF IInv, ServedIsLatched, StillLatched
<1>6. Decrement(cooldown) \in 0 .. Cooldown
  BY TimesAssumption DEF IInv, TypeOK, Decrement
<1> QED
  BY <1>1, <1>2, <1>3, <1>4, <1>5, <1>6

LEMMA NoTurnGood ==
    ASSUME IInv, NEW kind \in Kinds, NEW far \in BOOLEAN, NoTurn(kind, far)
    PROVE  GoodNext
<1>1. cooldown' \in 0 .. Cooldown
  BY Setpoint DEF NoTurn, IInv, TypeOK
<1> QED
  BY <1>1, Setpoint DEF NoTurn, GoodNext, Good, IInv, TypeOK, TurnsExclusive,
     ServedIsLatched

LEMMA RecoveryGood ==
    ASSUME IInv, NEW far \in BOOLEAN, recovery, RecoveryStep(GuardedSpeed(far))
    PROVE  GoodNext
<1> DEFINE sp == GuardedSpeed(far)
<1>t. TypeOK /\ TurnsExclusive
  BY DEF IInv
<1>c. core1' = core1 /\ served' = served /\ latched' = StillLatched
  BY DEF RecoveryStep
<1>s. core1' \in Fields /\ served' \in BOOLEAN /\ latched' \in BOOLEAN
      /\ (served' => latched' /\ core1'.force_blind)
  BY <1>c, <1>t, Setpoint DEF TypeOK, IInv, ServedIsLatched
<1>0. 0 \in Speeds /\ 0 \in 0 .. ConfirmCount /\ Cooldown \in 0 .. Cooldown
      /\ Decrement(cooldown) \in 0 .. Cooldown
  BY TimesAssumption, Setpoint DEF Speeds
<1>p. sp \in Speeds /\ (sp < 0 => -sp \in Speeds)
  BY Setpoint
<1> HIDE DEF sp
<1>1. CASE /\ BackToVision
           /\ cooldown' = Cooldown
           /\ speed' = IF sp < 0 THEN -sp ELSE sp
           /\ updated' = TRUE /\ aligned_count' = 0
           /\ UNCHANGED fault
  <2>1. speed' \in Speeds
    BY <1>1, <1>p
  <2>2. fault' = FALSE
    BY <1>1, <1>t DEF TypeOK, TurnsExclusive
  <2> QED
    BY <1>1, <1>0, <1>s, <2>1, <2>2 DEF BackToVision, GoodNext, Good
<1>2. CASE cooldown' = Decrement(cooldown) /\ StopInFault /\ aligned_count' = 0
  BY <1>2, <1>0, <1>s DEF StopInFault, GoodNext, Good
<1>3. CASE /\ cooldown' = Decrement(cooldown)
           /\ rounds' = rounds + 1
           /\ guard_reached' = guard_reached /\ speed' = sp
           /\ UNCHANGED <<active, recovery, fault, updated, aligned_count>>
  <2>1. rounds' \in Nat
    BY <1>3, <1>t DEF TypeOK
  <2>2. cooldown' \in 0 .. Cooldown /\ speed' \in Speeds
    BY <1>3, <1>0, <1>p
  <2> QED
    BY <1>3, <1>s, <1>t, <2>1, <2>2 DEF GoodNext, Good, TypeOK, TurnsExclusive
<1> QED
  BY <1>1, <1>2, <1>3 DEF RecoveryStep, sp

\* A turn under way, or one that begins: "begin" may only come with a request.
LEMMA TurnGood ==
    ASSUME IInv, NEW begin \in BOOLEAN, NEW c \in Fields, NEW reached \in BOOLEAN,
           NEW setpoint \in Speeds, NEW done \in BOOLEAN, NEW over \in BOOLEAN,
           ~recovery, ~fault,
           begin => c.force_blind,
           served => c.force_blind,
           TurnStep(begin, c, reached, setpoint, done, over)
    PROVE  GoodNext
<1> DEFINE now == IF begin THEN 0 ELSE rounds + 1
<1>t. TypeOK
  BY DEF IInv
<1>n. now \in Nat
  BY <1>t DEF TypeOK
<1>0. 0 \in Speeds /\ 0 \in 0 .. ConfirmCount /\ Cooldown \in 0 .. Cooldown /\ 0 \in Nat
  BY TimesAssumption DEF Speeds
<1>k. Decrement(cooldown) \in 0 .. Cooldown
  BY Setpoint
<1>l. latched' \in BOOLEAN /\ served' \in BOOLEAN
  BY DEF TurnStep
<1>s. served' => latched' /\ c.force_blind
  BY Setpoint DEF TurnStep
<1>f. Forget(c) \in Fields /\ Forget(c).force_blind = c.force_blind
  BY DEF Forget, Fields
<1>1. CASE /\ c.blind_release
           /\ BackToVision /\ fault' = FALSE
           /\ core1' = Forget([c EXCEPT !.blind_release = FALSE])
           /\ cooldown' = Cooldown
           /\ updated' = FALSE /\ aligned_count' = 0 /\ speed' = setpoint
  <2>1. core1' \in Fields /\ core1'.force_blind = c.force_blind
    BY <1>1 DEF Forget, Fields
  <2> QED
    BY <1>1, <2>1, <1>0, <1>l, <1>s DEF BackToVision, GoodNext, Good
<1>2. CASE /\ ~c.blind_release /\ done
           /\ active' = FALSE /\ fault' = FALSE
           /\ recovery' = ~c.fresh_target
           /\ cooldown' = IF c.fresh_target THEN Cooldown ELSE Decrement(cooldown)
           /\ guard_reached' = FALSE /\ rounds' = 0
           /\ core1' = Forget(c)
           /\ updated' = FALSE /\ aligned_count' = 0 /\ speed' = setpoint
  <2>1. cooldown' \in 0 .. Cooldown
    BY <1>2, <1>0, <1>k
  <2>2. recovery' \in BOOLEAN
    BY <1>2
  <2> QED
    BY <1>2, <2>1, <2>2, <1>f, <1>0, <1>l, <1>s DEF GoodNext, Good
<1>3. CASE /\ ~c.blind_release /\ ~done /\ (over \/ now >= BlindTimeout)
           /\ StopInFault /\ aligned_count' = 0
           /\ core1' = c
           /\ cooldown' = Decrement(cooldown)
  BY <1>3, <1>0, <1>k, <1>l, <1>s DEF StopInFault, GoodNext, Good
<1>4. CASE /\ ~c.blind_release /\ ~done /\ ~over /\ now < BlindTimeout
           /\ active' = TRUE /\ rounds' = now
           /\ guard_reached' = reached /\ speed' = setpoint
           /\ core1' = c
           /\ aligned_count' = IF begin THEN 0 ELSE aligned_count
           /\ cooldown' = Decrement(cooldown)
           /\ UNCHANGED <<recovery, fault, updated>>
  <2>1. aligned_count' \in 0 .. ConfirmCount /\ updated' \in BOOLEAN
    BY <1>4, <1>0, <1>t DEF TypeOK
  <2>2. active' = TRUE /\ recovery' = FALSE /\ fault' = FALSE
    BY <1>4, <1>t DEF TypeOK
  <2>3. rounds' \in Nat
    BY <1>4, <1>n
  <2> QED
    BY <1>4, <2>1, <2>2, <2>3, <1>0, <1>k, <1>l, <1>s DEF GoodNext, Good
<1> QED
  BY <1>1, <1>2, <1>3, <1>4 DEF TurnStep

LEMMA AligningIInv ==
    ASSUME IInv, NEW kind \in Kinds,
           NEW far \in BOOLEAN, NEW done \in BOOLEAN, NEW over \in BOOLEAN,
           TimerAligning(kind, far, done, over)
    PROVE  IInv'
<1>t. TypeOK /\ TurnsExclusive /\ ServedIsLatched
  BY DEF IInv
<1>s. GuardedSpeed(far) \in Speeds /\ Reached(far) \in BOOLEAN
  BY Setpoint
<1>1. GoodNext
  <2>1. CASE NoTurn(kind, far)
    BY <2>1, NoTurnGood
  <2>2. CASE recovery /\ RecoveryStep(GuardedSpeed(far))
    BY <2>2, RecoveryGood
  <2>3. CASE active /\ TurnStep(FALSE, core1, Reached(far), GuardedSpeed(far), done, over)
    <3>1. ~recovery /\ ~fault /\ core1 \in Fields /\ (served => core1.force_blind)
      BY <2>3, <1>t DEF TypeOK, TurnsExclusive, ServedIsLatched
    <3> QED
      BY <2>3, <3>1, <1>s, TurnGood
  <2>4. CASE /\ CanStart
             /\ TurnStep(TRUE, [core1 EXCEPT !.fresh_target = FALSE], FALSE,
                         GuardedSpeed(far), FALSE, FALSE)
    <3> DEFINE c == [core1 EXCEPT !.fresh_target = FALSE]
    <3>1. c \in Fields /\ c.force_blind
      BY <2>4, <1>t DEF TypeOK, Fields, CanStart
    <3>2. ~recovery /\ ~fault
      BY <2>4 DEF CanStart
    <3> HIDE DEF c
    <3> QED
      BY <2>4, <3>1, <3>2, <1>s, TurnGood DEF c
  <2> QED
    BY <2>1, <2>2, <2>3, <2>4 DEF TimerAligning
<1>2. UNCHANGED <<mode, phase, bump_start, main, asked>> /\ guard_active' = TRUE /\ Aligning
  BY DEF TimerAligning
<1>3. driven' \in BOOLEAN
  BY <1>t DEF TimerAligning, SpeedLoop, TypeOK
<1>4. TypeOK'
  BY <1>1, <1>2, <1>3, <1>t DEF TypeOK, GoodNext, Good
<1>5. TurnsExclusive' /\ FaultKeepsGuard' /\ ServedIsLatched'
  BY <1>1 DEF GoodNext, Good, TurnsExclusive, FaultKeepsGuard, ServedIsLatched
<1>6. TurnOnlyWhileAligning'
  BY <1>2 DEF TurnOnlyWhileAligning, Aligning
<1>7. CompleteBranch' /\ GuardNotBefore'
  BY <1>2 DEF IInv, CompleteBranch, GuardNotBefore, Aligning
<1> QED
  BY <1>4, <1>5, <1>6, <1>7 DEF IInv

-----------------------------------------------------------------------------
(* The main loop                                                            *)

\* The main loop writes speeds, the control value's sign and its own place.
LEMMA SpeedsWritten ==
    ASSUME IInv, Write \/ AlignBranch
    PROVE  speed' \in Speeds /\ core1' \in Fields /\ core1'.force_blind = core1.force_blind
<1>1. CASE Look \/ LoadControl
  BY <1>1 DEF Look, LoadControl, IInv, TypeOK
<1>2. CASE WriteAlign
  <2>1. speed' \in Speeds
    BY <1>2 DEF WriteAlign, AlignSpeed, Speeds
  <2> QED
    BY <1>2, <2>1 DEF WriteAlign, IInv, TypeOK
<1>3. CASE StoreControl
  <2>1. main.negated \in {-1, 0, 1}
    BY DEF IInv, TypeOK
  <2>2. core1' = [core1 EXCEPT !.control = main.negated] /\ speed' = speed
    BY <1>3 DEF StoreControl
  <2> QED
    BY <2>1, <2>2 DEF IInv, TypeOK, Fields
<1>4. CASE Write
  <2>1. Branches[main.branch] \in {"complete", "exit", "bump", "fault", "recovery", "blind"}
    BY <1>4 DEF Write, BranchSpeed
  <2>2. speed' \in Speeds
    BY <1>4, <2>1 DEF Write, BranchSpeed, Speeds
  <2> QED
    BY <1>4, <2>2 DEF Write, IInv, TypeOK
<1> QED
  BY <1>1, <1>2, <1>3, <1>4 DEF AlignBranch

\* Only the branch of the finished stage leaves the mode.
LEMMA ModeLeft ==
    ASSUME IInv, Write, mode' # mode
    PROVE  phase = "COMPLETE" /\ mode' \in Modes
<1>1. Branches[main.branch] = "complete" /\ mode' = "OTHER"
  BY DEF Write
<1>2. main.branch = 1
  BY <1>1 DEF IInv, TypeOK, Branches, BranchNumbers
<1> QED
  BY <1>1, <1>2 DEF Write, IInv, CompleteBranch

LEMMA MainPlace ==
    ASSUME IInv, MainLoop
    PROVE  /\ main' \in [at : Places, branch : BranchNumbers, negated : {-1, 0, 1}]
           /\ CompleteBranch'
<1> USE DEF Places, BranchNumbers
<1>t. main \in [at : Places, branch : BranchNumbers, negated : {-1, 0, 1}]
  BY DEF IInv, TypeOK
<1>1. CASE LoopTop
  BY <1>1 DEF LoopTop, mainUnchanged, CompleteBranch
<1>2. CASE Test
  <2>1. CASE Holds(Branches[main.branch]) /\ main' = [main EXCEPT !.at = "clear"]
    <3>1. main.branch = 1 => phase = "COMPLETE"
      BY <2>1 DEF Branches, Holds
    <3> QED
      BY <2>1, <1>t, <1>2, <3>1 DEF Test, mainUnchanged, CompleteBranch
  <2>2. CASE main.branch < 7 /\ main' = [main EXCEPT !.branch = main.branch + 1]
    BY <2>2, <1>t, <1>2 DEF Test, CompleteBranch
  <2>3. CASE main' = Top
    BY <2>3 DEF CompleteBranch
  <2> QED
    BY <1>2, <2>1, <2>2, <2>3 DEF Test
<1>3. CASE ClearUpdated
  BY <1>3, <1>t DEF ClearUpdated, mainUnchanged, IInv, CompleteBranch
<1>4. CASE Write
  BY <1>4 DEF Write, CompleteBranch
<1>5. CASE Look
  BY <1>5, <1>t DEF Look, CompleteBranch
<1>6. CASE WriteAlign
  BY <1>6, <1>t DEF WriteAlign, CompleteBranch
<1>7. CASE LoadControl
  <2>1. -core1.control \in {-1, 0, 1}
    BY DEF IInv, TypeOK, Fields
  <2> QED
    BY <1>7, <1>t, <2>1 DEF LoadControl, CompleteBranch
<1>8. CASE StoreControl
  BY <1>8 DEF StoreControl, CompleteBranch
<1> QED
  BY <1>1, <1>2, <1>3, <1>4, <1>5, <1>6, <1>7, <1>8 DEF MainLoop, AlignBranch

LEMMA MainIInv ==
    ASSUME IInv, MainLoop
    PROVE  IInv'
<1>t. TypeOK
  BY DEF IInv
<1>1. UNCHANGED mainUnchanged
  BY DEF MainLoop, LoopTop, Test, ClearUpdated, AlignBranch, Look, WriteAlign, LoadControl,
     StoreControl, Write
<1>2. /\ core1' \in Fields /\ core1'.force_blind = core1.force_blind
      /\ speed' \in Speeds /\ updated' \in BOOLEAN
  <2>1. CASE Write \/ AlignBranch
    BY <2>1, <1>t, SpeedsWritten DEF Write, AlignBranch, Look, WriteAlign, LoadControl,
       StoreControl, TypeOK
  <2>2. CASE LoopTop
    BY <2>2, <1>t DEF LoopTop, TypeOK, Speeds
  <2>3. CASE Test \/ ClearUpdated
    BY <2>3, <1>t DEF Test, ClearUpdated, TypeOK
  <2> QED
    BY <2>1, <2>2, <2>3 DEF MainLoop
<1>3. mode' \in Modes /\ (Aligning => mode' = mode)
  <2>1. CASE Write
    BY <2>1, <1>t, ModeLeft DEF TypeOK, Aligning
  <2>2. CASE LoopTop
    BY <2>2 DEF LoopTop, Aligning
  <2>3. CASE Test \/ ClearUpdated \/ AlignBranch
    BY <2>3, <1>t DEF Test, ClearUpdated, AlignBranch, Look, WriteAlign, LoadControl,
       StoreControl, TypeOK
  <2> QED
    BY <2>1, <2>2, <2>3 DEF MainLoop
<1>4. TypeOK'
  BY <1>1, <1>2, <1>3, <1>t, MainPlace DEF TypeOK, mainUnchanged, turnVars, history
<1>5. TurnsExclusive' /\ FaultKeepsGuard' /\ TurnOnlyWhileAligning'
  BY <1>1, <1>3 DEF IInv, mainUnchanged, turnVars, TurnsExclusive, FaultKeepsGuard,
     TurnOnlyWhileAligning, Turning, Aligning
<1>6. ServedIsLatched'
  BY <1>1, <1>2 DEF IInv, mainUnchanged, turnVars, history, ServedIsLatched
<1>7. GuardNotBefore'
  <2>1. mode' = "OTHER" => mode = "OTHER" \/ phase # "ALIGN"
    BY <1>3 DEF Aligning, IInv, TypeOK
  <2> QED
    BY <1>1, <2>1 DEF IInv, GuardNotBefore, mainUnchanged, turnVars
<1> QED
  BY <1>4, <1>5, <1>6, <1>7, MainPlace DEF IInv

-----------------------------------------------------------------------------
(* The theorems                                                             *)

LEMMA StutterIInv == IInv /\ UNCHANGED vars => IInv'
BY DEF IInv, vars, shared, turnVars, history, TypeOK, TurnsExclusive,
   TurnOnlyWhileAligning, FaultKeepsGuard, ServedIsLatched, CompleteBranch, Turning, Aligning,
   GuardNotBefore

LEMMA NextIInv == IInv /\ [Next]_vars => IInv'
<1> SUFFICES ASSUME IInv, [Next]_vars PROVE IInv'
  OBVIOUS
<1>1. CASE MainLoop
  BY <1>1, MainIInv
<1>2. ASSUME NEW w \in Words, Callback(w) PROVE IInv'
  BY <1>2, CallbackIInv
<1>3. ASSUME NEW kind \in Kinds, TimerOutside(kind) PROVE IInv'
  BY <1>3, OutsideIInv
<1>4. ASSUME NEW kind \in Kinds,
             NEW far \in BOOLEAN, NEW done \in BOOLEAN, NEW over \in BOOLEAN,
             TimerAligning(kind, far, done, over)
      PROVE  IInv'
  BY <1>4, AligningIInv
<1>5. CASE UNCHANGED vars
  BY <1>5, StutterIInv
<1> QED
  BY <1>1, <1>2, <1>3, <1>4, <1>5 DEF Next, Timer

\* The strengthened invariant holds in every behaviour of the callback, the
\* timer interrupt and the main loop.
THEOREM Invariance == Spec => []IInv
BY InitIInv, NextIInv, PTL DEF Spec

\* The flags, counters and speeds of main_cm7_0.c and cm7_0_isr.c keep their types.
THEOREM TypeCorrect == Spec => []TypeOK
<1>1. IInv => TypeOK
  BY DEF IInv
<1> QED
  BY <1>1, Invariance, PTL

\* A forced turn, a recovery and a fault never overlap.
THEOREM Exclusion == Spec => []TurnsExclusive
<1>1. IInv => TurnsExclusive
  BY DEF IInv
<1> QED
  BY <1>1, Invariance, PTL

\* No turn, recovery or fault is left behind when the aligning stage ends.
THEOREM Confinement == Spec => []TurnOnlyWhileAligning
<1>1. IInv => TurnOnlyWhileAligning
  BY DEF IInv
<1> QED
  BY <1>1, Invariance, PTL

\* The guard that re-zeroes the speed stays tripped during a fault.
THEOREM FaultGuarded == Spec => []FaultKeepsGuard
<1>1. IInv => FaultKeepsGuard
  BY DEF IInv
<1> QED
  BY <1>1, Invariance, PTL

\* A request that has begun a turn is still latched, and still made.
THEOREM Latch == Spec => []ServedIsLatched
<1>1. IInv => ServedIsLatched
  BY DEF IInv
<1> QED
  BY <1>1, Invariance, PTL

-----------------------------------------------------------------------------
(* What a step may never do                                                 *)

\* The timer interrupt of a faulty stage: nothing of the turn moves, and the
\* speed loop is given 0.
LEMMA FaultyTick ==
    ASSUME IInv, fault, NEW kind \in Kinds,
           NEW far \in BOOLEAN, NEW done \in BOOLEAN, NEW over \in BOOLEAN,
           TimerAligning(kind, far, done, over)
    PROVE  fault' = fault /\ GuardedSpeed(far) = 0
<1>1. ~active /\ ~recovery /\ ~CanStart
  BY DEF IInv, TurnsExclusive, CanStart
<1>2. GuardedSpeed(far) = 0
  BY Setpoint DEF GuardedSpeed
<1>3. fault' = fault
  BY <1>1 DEF TimerAligning, NoTurn
<1> QED
  BY <1>2, <1>3

LEMMA CallbackKeeps ==
    ASSUME NEW w \in Words, Callback(w)
    PROVE  /\ driven' = driven
           /\ active' => active
           /\ fault' = fault \/ phase' # "ALIGN"
BY DEF Callback, StartBumps, CountAligned, FinishBumps, JustStore, EndTurnFlags

LEMMA MainKeeps ==
    ASSUME MainLoop
    PROVE  driven' = driven /\ fault' = fault /\ active' = active
BY DEF MainLoop, LoopTop, Test, ClearUpdated, AlignBranch, Look, WriteAlign,
     LoadControl, StoreControl, Write, mainUnchanged, turnVars

LEMMA StepFaultIsKept == IInv /\ [Next]_vars => [fault /\ ~fault' => phase' # "ALIGN"]_vars
<1> SUFFICES ASSUME IInv, Next, fault, ~fault' PROVE phase' # "ALIGN"
  OBVIOUS
<1>1. CASE MainLoop
  BY <1>1, MainKeeps
<1>2. ASSUME NEW w \in Words, Callback(w) PROVE phase' # "ALIGN"
  BY <1>2, CallbackKeeps
<1>3. ASSUME NEW kind \in Kinds, TimerOutside(kind) PROVE phase' # "ALIGN"
  BY <1>3 DEF TimerOutside, IInv, TurnOnlyWhileAligning, Turning
<1>4. ASSUME NEW kind \in Kinds,
             NEW far \in BOOLEAN, NEW done \in BOOLEAN, NEW over \in BOOLEAN,
             TimerAligning(kind, far, done, over)
      PROVE  phase' # "ALIGN"
  BY <1>4, FaultyTick
<1> QED
  BY <1>1, <1>2, <1>3, <1>4 DEF Next, Timer

\* A fault ends only by leaving the aligning stage.
THEOREM FaultLasts == Spec => FaultIsKept
BY Invariance, StepFaultIsKept, PTL DEF Spec, FaultIsKept

LEMMA StepFaultNeverDrives ==
    IInv /\ [Next]_vars => [fault /\ fault' => (driven' => driven)]_vars
<1> SUFFICES ASSUME IInv, Next, fault, fault' PROVE driven' => driven
  OBVIOUS
<1>1. CASE MainLoop
  BY <1>1, MainKeeps
<1>2. ASSUME NEW w \in Words, Callback(w) PROVE driven' => driven
  BY <1>2, CallbackKeeps
<1>3. ASSUME NEW kind \in Kinds, TimerOutside(kind) PROVE driven' => driven
  BY <1>3 DEF TimerOutside, EndTurnFlags
<1>4. ASSUME NEW kind \in Kinds,
             NEW far \in BOOLEAN, NEW done \in BOOLEAN, NEW over \in BOOLEAN,
             TimerAligning(kind, far, done, over)
      PROVE  driven' => driven
  BY <1>4, FaultyTick DEF TimerAligning, SpeedLoop
<1> QED
  BY <1>1, <1>2, <1>3, <1>4 DEF Next, Timer

\* In a fault no tick sets the car in motion, whatever the main loop stores.
THEOREM FaultStandsStill == Spec => FaultNeverDrives
BY Invariance, StepFaultNeverDrives, PTL DEF Spec, FaultNeverDrives

LEMMA StepOneTurn == IInv /\ [Next]_vars => [~active /\ active' => ~served]_vars
<1> SUFFICES ASSUME IInv, Next, ~active, active' PROVE ~served
  OBVIOUS
<1>1. CASE MainLoop
  BY <1>1, MainKeeps
<1>2. ASSUME NEW w \in Words, Callback(w) PROVE ~served
  BY <1>2, CallbackKeeps
<1>3. ASSUME NEW kind \in Kinds, TimerOutside(kind) PROVE ~served
  BY <1>3 DEF TimerOutside, EndTurnFlags
<1>4. ASSUME NEW kind \in Kinds,
             NEW far \in BOOLEAN, NEW done \in BOOLEAN, NEW over \in BOOLEAN,
             TimerAligning(kind, far, done, over)
      PROVE  ~served
  <2>1. CASE kind # "guard" /\ recovery
    BY <1>4, <2>1 DEF TimerAligning, RecoveryStep, BackToVision, StopInFault
  <2>2. CASE ~(kind # "guard" /\ recovery)
    <3>1. CanStart
      BY <1>4, <2>2 DEF TimerAligning, NoTurn
    <3> QED
      BY <3>1, Setpoint DEF CanStart
  <2> QED
    BY <2>1, <2>2
<1> QED
  BY <1>1, <1>2, <1>3, <1>4 DEF Next, Timer

\* One request begins one turn.
THEOREM TurnOnce == Spec => OneTurnPerRequest
BY Invariance, StepOneTurn, PTL DEF Spec, OneTurnPerRequest

-----------------------------------------------------------------------------
(* The flags implement the state machine of TurnSpec                        *)

LEMMA InitTurn == Init => Heading!Init
BY DEF Init, Heading!Init, Aligning, turnState

\* A step of the machine: a permitted change, or the end of the stage.
MachineStep == [Heading!Next]_turnState

LEMMA CallbackTurn ==
    ASSUME IInv, NEW w \in Words, Callback(w)
    PROVE  MachineStep
<1>1. UNCHANGED <<mode, guard_active, guard_reached>>
  BY DEF Callback
<1>2. CASE phase' = "ALIGN"
  <2>1. UNCHANGED <<phase, active, recovery, fault>>
    BY <1>2 DEF Callback, StartBumps, CountAligned, FinishBumps, JustStore
  <2> QED
    BY <1>1, <2>1 DEF MachineStep, Aligning, turnState
<1>3. CASE phase' # "ALIGN"
  BY <1>3 DEF MachineStep, Aligning, turnState, Heading!Next, Heading!Leave
<1> QED
  BY <1>2, <1>3

LEMMA MainTurn ==
    ASSUME IInv, MainLoop
    PROVE  MachineStep
<1>1. UNCHANGED <<phase, active, recovery, fault, guard_active, guard_reached>>
  BY DEF MainLoop, LoopTop, Test, ClearUpdated, AlignBranch, Look, WriteAlign,
     LoadControl, StoreControl, Write, mainUnchanged, turnVars
<1>2. mode \in Modes
  BY DEF IInv, TypeOK
<1>3. CASE mode = "BRIDGE_BUMP"
  BY <1>1, <1>3 DEF MachineStep, Aligning, turnState, Heading!Next, Heading!Leave
<1>4. CASE mode = "OTHER"
  BY <1>1, <1>4 DEF MachineStep, Aligning, turnState, IInv, GuardNotBefore,
     TurnOnlyWhileAligning, Turning
<1> QED
  BY <1>2, <1>3, <1>4

LEMMA TimerTurn ==
    ASSUME IInv, IInv', NEW kind \in Kinds, Timer(kind)
    PROVE  MachineStep
<1>1. CASE TimerOutside(kind)
  BY <1>1 DEF TimerOutside, MachineStep, Aligning, turnState
<1>2. ASSUME NEW far \in BOOLEAN, NEW done \in BOOLEAN, NEW over \in BOOLEAN,
             TimerAligning(kind, far, done, over)
      PROVE  MachineStep
  <2>1. Aligning /\ Aligning' /\ guard_active'
    BY <1>2 DEF TimerAligning, Aligning
  <2>2. TurnsExclusive /\ TurnsExclusive' /\ TypeOK /\ TypeOK'
    BY DEF IInv
  <2>3. CASE NoTurn(kind, far)
    <3>1. \/ turnState' = turnState
          \/ turnState \in {"off", "guard"} /\ turnState' = "guard"
          \/ turnState = "guard" /\ turnState' = "held"
      BY <2>1, <2>3, <2>2 DEF NoTurn, Reached, turnState, TypeOK, Turning
    <3> QED
      BY <3>1 DEF MachineStep, Heading!Next, Heading!Change, Heading!Successors
  <2>4. CASE recovery /\ RecoveryStep(GuardedSpeed(far))
    <3>1. turnState = "recovery" /\ turnState' \in {"recovery", "guard", "fault"}
      BY <2>1, <2>2, <2>4 DEF RecoveryStep, BackToVision, StopInFault, TurnsExclusive, turnState
    <3> QED
      BY <3>1 DEF MachineStep, Heading!Next, Heading!Change, Heading!Successors
  <2>5. CASE active /\ TurnStep(FALSE, core1, Reached(far), GuardedSpeed(far), done, over)
    <3>1. turnState = "blind" /\ turnState' \in {"blind", "recovery", "guard", "fault"}
      BY <2>1, <2>2, <2>5 DEF TurnStep, BackToVision, StopInFault, TurnsExclusive, turnState
    <3> QED
      BY <3>1 DEF MachineStep, Heading!Next, Heading!Change, Heading!Successors
  <2>6. CASE /\ CanStart
             /\ TurnStep(TRUE, [core1 EXCEPT !.fresh_target = FALSE], FALSE,
                         GuardedSpeed(far), FALSE, FALSE)
    <3>1. turnState \in {"off", "guard", "held"}
      BY <2>1, <2>6 DEF CanStart, turnState
    <3>2. turnState' \in {"blind", "guard"}
      BY <2>1, <2>2, <2>6, TimesAssumption DEF TurnStep, BackToVision, CanStart,
         TurnsExclusive, turnState
    <3> QED
      BY <3>1, <3>2 DEF MachineStep, Heading!Next, Heading!Change, Heading!Successors
  <2> QED
    BY <1>2, <2>3, <2>4, <2>5, <2>6 DEF TimerAligning
<1> QED
  BY <1>1, <1>2 DEF Timer

LEMMA NextTurn == IInv /\ IInv' /\ [Next]_vars => MachineStep
<1> SUFFICES ASSUME IInv, IInv', [Next]_vars PROVE MachineStep
  OBVIOUS
<1>1. CASE UNCHANGED vars
  BY <1>1 DEF vars, shared, turnVars, MachineStep, turnState, Aligning
<1>2. CASE Next
  BY <1>2, CallbackTurn, MainTurn, TimerTurn DEF Next
<1> QED
  BY <1>1, <1>2

\* The callback, the timer interrupt and the main loop together run the state
\* machine of TurnSpec, for all time limits and all words of core 1.
THEOREM Refinement == Spec => ImplementsTurn
BY InitTurn, NextTurn, Invariance, PTL DEF Spec, ImplementsTurn, Heading!Spec, MachineStep

\* A forced turn that goes on is younger than its time limit, and so is a recovery,
\* for every limit: the rounds never outgrow the longer of the two.
InTime ==
    /\ active => rounds < BlindTimeout
    /\ recovery => rounds < RecoveryMax
    /\ rounds < BlindTimeout \/ rounds < RecoveryMax

LEMMA NextInTime == IInv /\ IInv' /\ InTime /\ [Next]_vars => InTime'
<1> SUFFICES ASSUME IInv, IInv', InTime, [Next]_vars PROVE InTime'
  OBVIOUS
<1>1. /\ rounds \in Nat /\ rounds' \in Nat
      /\ active \in BOOLEAN /\ active' \in BOOLEAN
      /\ recovery \in BOOLEAN /\ recovery' \in BOOLEAN
      /\ BlindTimeout \in Nat /\ RecoveryMax \in Nat /\ 0 < BlindTimeout /\ 0 < RecoveryMax
  BY TimesAssumption DEF IInv, TypeOK
<1>2. CASE UNCHANGED vars \/ MainLoop
  <2>1. active' = active /\ recovery' = recovery /\ rounds' = rounds
    BY <1>2 DEF vars, MainLoop, LoopTop, Test, ClearUpdated, AlignBranch, Look, WriteAlign,
     LoadControl, StoreControl, Write, mainUnchanged, turnVars
  <2> QED
    BY <2>1 DEF InTime
<1>3. ASSUME NEW w \in Words, Callback(w) PROVE InTime'
  <2>1. rounds' = rounds /\ (active' => active) /\ (recovery' => recovery)
    BY <1>3 DEF Callback, StartBumps, EndTurnFlags, CountAligned, FinishBumps, JustStore
  <2> QED
    BY <2>1 DEF InTime
<1>4. ASSUME NEW kind \in Kinds, TimerOutside(kind) PROVE InTime'
  <2>1. rounds' = 0 /\ ~active' /\ ~recovery'
    BY <1>4 DEF TimerOutside, EndTurnFlags
  <2> QED
    BY <1>1, <2>1 DEF InTime
<1>5. ASSUME NEW kind \in Kinds, NEW far \in BOOLEAN, NEW done \in BOOLEAN,
             NEW over \in BOOLEAN, TimerAligning(kind, far, done, over)
      PROVE  InTime'
  <2>1. CASE NoTurn(kind, far)
    BY <2>1 DEF NoTurn, InTime
  <2>2. CASE recovery /\ RecoveryStep(GuardedSpeed(far))
    <3>1. ~active
      BY <2>2 DEF IInv, TurnsExclusive
    <3>2. \/ rounds' = 0 /\ ~active' /\ ~recovery'
          \/ rounds' = rounds + 1 /\ ~(rounds + 1 >= RecoveryMax) /\ ~active' /\ recovery'
      BY <2>2, <3>1 DEF RecoveryStep, BackToVision, StopInFault
    <3> QED
      BY <1>1, <3>2 DEF InTime
  <2>3. ASSUME NEW begin \in BOOLEAN, NEW c, NEW reached, NEW out \in BOOLEAN,
               NEW finished \in BOOLEAN, ~recovery,
               TurnStep(begin, c, reached, GuardedSpeed(far), finished, out)
        PROVE  InTime'
    <3>1. \/ rounds' = 0 /\ ~active'
          \/ /\ active' /\ ~recovery'
             /\ rounds' = IF begin THEN 0 ELSE rounds + 1
             /\ rounds' < BlindTimeout
      BY <2>3 DEF TurnStep, BackToVision, StopInFault
    <3> QED
      BY <1>1, <3>1 DEF InTime
  <2> QED
    BY <1>5, <2>1, <2>2, <2>3 DEF TimerAligning, CanStart
<1> QED
  BY <1>2, <1>3, <1>4, <1>5 DEF Next, Timer

\* Forced turns and recoveries keep their time limits.
THEOREM TimeLimits == Spec => []InTime
<1>1. Init => InTime
  BY TimesAssumption DEF Init, InTime
<1> QED
  BY <1>1, NextInTime, Invariance, PTL DEF Spec

-----------------------------------------------------------------------------
(* Progress.  The provers know nothing of ENABLED but its place in WF; what  *)
(* they need to know is Enabling, a condition on states: each fair action    *)
(* can be taken when its guard holds.                                        *)

Enabling ==
    /\ (fault /\ driven) \/ active \/ recovery => ENABLED <<Turning /\ Timer("speed")>>_vars
    /\ mode = "BRIDGE_BUMP" => ENABLED <<mode = "BRIDGE_BUMP" /\ MainLoop>>_vars
    /\ mode = "BRIDGE_BUMP" /\ ~updated => ENABLED <<\E w \in Words : Callback(w)>>_vars

\* In a fault the next speed loop gets the speed 0.
LEMMA SpeedLoopStops ==
    IInv /\ fault /\ (Turning /\ Timer("speed")) => ~driven'
<1> HAVE IInv /\ fault /\ (Turning /\ Timer("speed"))
<1>1. Aligning /\ guard_active /\ guard_reached
  BY DEF IInv, TurnOnlyWhileAligning, FaultKeepsGuard, Turning
<1>2. PICK far, done, over \in BOOLEAN : TimerAligning("speed", far, done, over)
  BY <1>1 DEF Timer, TimerOutside
<1>3. GuardedSpeed(far) = 0
  BY <1>1 DEF GuardedSpeed, Reached
<1> QED
  BY <1>2, <1>3 DEF TimerAligning, SpeedLoop

\* In a fault the car comes to stand (FaultStops).
THEOREM StandStill == FairSpec /\ []Enabling => FaultStops
<1>1. Enabling => (fault /\ driven => ENABLED <<Turning /\ Timer("speed")>>_vars)
  BY DEF Enabling
<1> QED
  BY <1>1, SpeedLoopStops, Invariance, PTL DEF FairSpec, Fairness, Spec, FaultStops

\* A number that keeps within its bound (InTime) does not grow for ever unless it
\* falls for ever: an induction, which is out of the provers' reach.
RoundsAreBounded == []<><<rounds' > rounds>>_vars => []<><<rounds' < rounds>>_vars

\* The end of a turn, and of a recovery, presupposes one: a law of logic, that
\* ENABLED (P /\ A) implies P when P is a state predicate.
EndsKnown ==
    /\ ENABLED <<Heading!EndBlind>>_turnState => turnState = "blind"
    /\ ENABLED <<Heading!EndRecovery>>_turnState => turnState = "recovery"

\* The rounds of a turn, and of a recovery, add up.
Turn(state) == turnState = state

LEMMA RoundsAddUp ==
    ASSUME NEW state \in {"blind", "recovery"}
    PROVE  IInv /\ IInv' /\ [Next]_vars /\ Turn(state) /\ Turn(state)' =>
             /\ ~(rounds' < rounds)
             /\ Turning /\ Timer("speed") => rounds' > rounds
             /\ rounds' > rounds => ~UNCHANGED vars
<1> SUFFICES ASSUME IInv, IInv', [Next]_vars, Turn(state), Turn(state)'
             PROVE  /\ ~(rounds' < rounds)
                    /\ Turning /\ Timer("speed") => rounds' > rounds
                    /\ rounds' > rounds => ~UNCHANGED vars
  OBVIOUS
<1>1. Aligning /\ Aligning' /\ rounds \in Nat /\ rounds' \in Nat
  BY DEF Turn, turnState, IInv, TypeOK
<1>2. \/ active /\ active' /\ ~recovery /\ ~recovery'
      \/ recovery /\ recovery' /\ ~active /\ ~active'
  BY DEF Turn, turnState, IInv, TurnsExclusive
<1>3. rounds' = rounds => ~(rounds' < rounds) /\ ~(rounds' > rounds)
  BY <1>1
<1>4. rounds' = rounds + 1 => ~(rounds' < rounds) /\ rounds' > rounds
  BY <1>1
<1>5. UNCHANGED vars => rounds' = rounds
  BY DEF vars, turnVars
<1>6. ASSUME NEW kind \in Kinds, Timer(kind)
      PROVE  rounds' = IF kind = "guard" THEN rounds ELSE rounds + 1
  <2>1. PICK far, done, over \in BOOLEAN : TimerAligning(kind, far, done, over)
    BY <1>1, <1>6 DEF Timer, TimerOutside
  <2> QED
    BY <1>2, <2>1 DEF TimerAligning, NoTurn, CanStart, RecoveryStep, BackToVision,
       StopInFault, TurnStep
<1>7. Next => rounds' = rounds \/ rounds' = rounds + 1
  <2>1. MainLoop \/ (\E w \in Words : Callback(w)) => rounds' = rounds
    BY DEF MainLoop, LoopTop, Test, ClearUpdated, AlignBranch, Look, WriteAlign,
     LoadControl, StoreControl, Write, mainUnchanged, turnVars, Callback
  <2> QED
    BY <1>6, <2>1 DEF Next
<1>8. Turning /\ Timer("speed") => rounds' = rounds + 1
  <2>1. "speed" \in Kinds /\ "speed" # "guard"
    BY DEF Kinds
  <2> QED
    BY <1>6, <2>1
<1> QED
  BY <1>3, <1>4, <1>5, <1>7, <1>8

LEMMA TurnEnabled ==
    ASSUME NEW state \in {"blind", "recovery"}
    PROVE  Turn(state) /\ Enabling => ENABLED <<Turning /\ Timer("speed")>>_vars
BY DEF Turn, turnState, Enabling

\* A forced turn and a recovery come to their ends, whatever core 1 sends or fails
\* to send: the flags and timers keep the promise of TurnSpec with its time limits
\* (ImplementsTurnProgress).
THEOREM TurnsEnd ==
    FairSpec /\ []Enabling /\ []EndsKnown /\ RoundsAreBounded => ImplementsTurnProgress
<1>1. FairSpec => Heading!Spec
  BY Refinement, PTL DEF FairSpec, ImplementsTurn
<1>2. EndsKnown => /\ ~Turn("blind") => ~ENABLED <<Heading!EndBlind>>_turnState
                   /\ ~Turn("recovery") => ~ENABLED <<Heading!EndRecovery>>_turnState
  BY DEF EndsKnown, Turn
<1>3. FairSpec /\ []Enabling /\ RoundsAreBounded => []<>~Turn("blind")
  <2>1. IInv /\ IInv' /\ [Next]_vars /\ Turn("blind") /\ Turn("blind")' =>
          /\ ~(rounds' < rounds)
          /\ Turning /\ Timer("speed") => rounds' > rounds
          /\ rounds' > rounds => ~UNCHANGED vars
    BY RoundsAddUp
  <2>2. Turn("blind") /\ Enabling => ENABLED <<Turning /\ Timer("speed")>>_vars
    BY TurnEnabled
  <2> QED
    BY <2>1, <2>2, Invariance, PTL DEF FairSpec, Fairness, Spec, RoundsAreBounded
<1>4. FairSpec /\ []Enabling /\ RoundsAreBounded => []<>~Turn("recovery")
  <2>1. IInv /\ IInv' /\ [Next]_vars /\ Turn("recovery") /\ Turn("recovery")' =>
          /\ ~(rounds' < rounds)
          /\ Turning /\ Timer("speed") => rounds' > rounds
          /\ rounds' > rounds => ~UNCHANGED vars
    BY RoundsAddUp
  <2>2. Turn("recovery") /\ Enabling => ENABLED <<Turning /\ Timer("speed")>>_vars
    BY TurnEnabled
  <2> QED
    BY <2>1, <2>2, Invariance, PTL DEF FairSpec, Fairness, Spec, RoundsAreBounded
<1> QED
  BY <1>1, <1>2, <1>3, <1>4, PTL DEF ImplementsTurnProgress, Heading!FairSpec

\* The car backs out although the recovery is over.
Reversing == Aligning /\ ~Turning /\ speed = RECOVERY_SPEED

\* Where the main loop is meanwhile: about to write a speed, in the branch that
\* follows vision, or still at its tests.
Writing(at) == Reversing /\ main.at = at /\ main.branch # 5
Rewriting(at) == Reversing /\ main.at = at /\ main.branch = 5
Aligned(at) == Reversing /\ main.at = at
Setting == Reversing /\ main.at \in {"lost", "halt", "ahead", "back"}
AtTop == Reversing /\ main.at = "top"
Testing(b) == Reversing /\ main.at = "test" /\ main.branch = b
Looping == Reversing /\ main.at \in {"top", "test"}

\* No word that asks for a turn releases it in the same breath.  Such a word would
\* begin and end a turn in one tick and take the update mark with it.
NoMixedWords == \A w \in Words : ~(w.force_blind /\ w.blind_release)
NotMixed == ~(core1.force_blind /\ core1.blind_release)

LEMMA NextNotMixed == IInv /\ NoMixedWords /\ NotMixed /\ [Next]_vars => NotMixed'
<1> HAVE IInv /\ NoMixedWords /\ NotMixed /\ [Next]_vars
<1> USE DEF IInv, TypeOK, NotMixed, Fields
<1>1. CASE UNCHANGED vars
  BY <1>1 DEF vars, shared
<1>2. CASE MainLoop
  BY <1>2 DEF MainLoop, LoopTop, Test, ClearUpdated, AlignBranch, Look, WriteAlign,
     LoadControl, StoreControl, Write
<1>3. ASSUME NEW w \in Words, Callback(w) PROVE NotMixed'
  <2>1. w \in Fields /\ ~(w.force_blind /\ w.blind_release)
    BY <1>3, WordsAssumption DEF NoMixedWords
  <2>2. CASE StartBumps(w)
    BY <2>2 DEF StartBumps, NoData
  <2>3. CASE CountAligned(w)
    BY <2>1, <2>3 DEF CountAligned
  <2>4. CASE FinishBumps(w)
    BY <2>1, <2>4 DEF FinishBumps
  <2>5. CASE JustStore(w)
    BY <2>1, <2>5 DEF JustStore
  <2> QED
    BY <1>3, <2>2, <2>3, <2>4, <2>5 DEF Callback
<1>4. ASSUME NEW kind \in Kinds, TimerOutside(kind) PROVE NotMixed'
  BY <1>4 DEF TimerOutside
<1>5. ASSUME NEW kind \in Kinds, NEW far \in BOOLEAN, NEW done \in BOOLEAN,
             NEW over \in BOOLEAN, TimerAligning(kind, far, done, over)
      PROVE  NotMixed'
  BY <1>5 DEF TimerAligning, NoTurn, RecoveryStep, TurnStep, Forget
<1> QED
  BY <1>1, <1>2, <1>3, <1>4, <1>5 DEF Next, Timer

\* As long as the car backs out, the interrupts leave the main loop's place alone,
\* and none of them takes the update mark away.
LEMMA InterruptsKeep ==
    ASSUME IInv, NotMixed, Next, ~MainLoop, Reversing, Reversing'
    PROVE  main' = main /\ (updated => updated')
<1>1. ASSUME NEW w \in Words, Callback(w) PROVE main' = main /\ updated'
  BY <1>1 DEF Callback
<1>2. ASSUME NEW kind \in Kinds, NEW far \in BOOLEAN, NEW done \in BOOLEAN,
             NEW over \in BOOLEAN, TimerAligning(kind, far, done, over)
      PROVE  main' = main /\ (updated => updated')
  BY <1>2, TimesAssumption DEF TimerAligning, NoTurn, RecoveryStep, TurnStep, StopInFault,
     Reversing, Turning, NotMixed, CanStart
<1> QED
  BY <1>1, <1>2 DEF Next, Timer, TimerOutside, Reversing

\* A step of the main loop goes on to the next place.
LEMMA LoopMoves ==
    ASSUME IInv, MainLoop, Reversing, Reversing'
    PROVE  /\ ~Setting
           /\ Writing("clear") => Writing("write")'
           /\ Writing("write") => Setting' \/ Aligned("seen")'
           /\ Aligned("seen") => Setting' \/ Aligned("apart")'
           /\ Aligned("apart") => Setting'
           /\ Aligned("load") => Aligned("store")'
           /\ Aligned("store") => AtTop'
           /\ Rewriting("clear") => Rewriting("write")'
           /\ Rewriting("write") => AtTop'
           /\ updated /\ Looping => updated'
           /\ AtTop => Testing(1)'
           /\ \A b \in 1 .. 6 : Testing(b) => Testing(b + 1)' \/ Writing("clear")'
           /\ Testing(7) => Writing("clear")' \/ (AtTop' /\ ~updated)
<1>1. mode = "BRIDGE_BUMP" /\ phase = "ALIGN" /\ ~active /\ ~recovery /\ ~fault
      /\ speed = -80 /\ mode' = "BRIDGE_BUMP" /\ speed' = -80
  BY DEF Reversing, Aligning, Turning, RECOVERY_SPEED
<1>2. main \in [at : Places, branch : 1 .. 7, negated : {-1, 0, 1}]
  BY DEF IInv, TypeOK, BranchNumbers
<1>d. DOMAIN AlignSpeed = {"lost", "halt", "ahead", "back"}
  BY DEF AlignSpeed
<1> USE DEF Writing, Rewriting, AtTop, Testing, Looping, Aligned, Setting
<1>3. CASE LoopTop
  BY <1>1, <1>2, <1>3 DEF LoopTop
<1>4. CASE Test
  <2>1. ~Holds(Branches[5]) /\ ~Holds(Branches[1]) /\ (updated => Holds(Branches[7]))
    BY <1>1 DEF Holds, Branches
  <2>2. main.at = "test" /\ main.branch \in 1 .. 7
    BY <1>2, <1>4 DEF Test
  <2>3. CASE Holds(Branches[main.branch])
    <3>1. main.branch # 5 /\ main' = [main EXCEPT !.at = "clear"] /\ updated' = updated
      BY <2>1, <2>3, <1>4 DEF Test
    <3>2. main'.at = "clear" /\ main'.branch = main.branch
      BY <1>2, <3>1
    <3> QED
      BY <2>2, <3>1, <3>2
  <2>4. CASE ~Holds(Branches[main.branch]) /\ main.branch < 7
    <3>1. main'.at = "test" /\ main'.branch = main.branch + 1 /\ updated' = updated
      BY <1>2, <2>4, <1>4 DEF Test
    <3> QED
      BY <2>2, <2>4, <3>1
  <2>5. CASE ~Holds(Branches[main.branch]) /\ ~(main.branch < 7)
    <3>1. main' = Top /\ updated' = updated
      BY <2>5, <1>4 DEF Test
    <3>2. main.branch = 7
      BY <2>2, <2>5
    <3>3. ~updated
      BY <2>1, <2>5, <3>2
    <3> QED
      BY <2>2, <3>1, <3>2, <3>3 DEF Top
  <2> QED
    BY <2>3, <2>4, <2>5
<1>5. CASE ClearUpdated
  <2>1. main.at = "clear" /\ main'.at = "write" /\ main'.branch = main.branch
    BY <1>2, <1>5 DEF ClearUpdated
  <2> QED
    BY <2>1
<1>6. CASE Write
  <2>1. main.at = "write" /\ main' = Top
    BY <1>6 DEF Write
  <2>2. ASSUME main.branch # 5 PROVE FALSE
    <3>1. main.branch \in {1, 2, 3, 4, 6} /\ speed' = BranchSpeed[Branches[main.branch]]
      BY <1>2, <1>6, <2>2 DEF Write, Branches, BranchSpeed
    <3> QED
      BY <1>1, <3>1 DEF Branches, BranchSpeed, CROSS_SPEED, BUMP_SPEED, ALIGN_SPEED
  <2> QED
    BY <2>1, <2>2 DEF Top
<1>7. CASE Look
  <2>1. /\ main.at = "write" => main.branch = 7 /\ main'.at \in {"seen", "lost"}
        /\ main.at = "seen" => main'.at \in {"halt", "apart"}
        /\ main.at = "apart" => main'.at \in {"back", "ahead"}
        /\ main.at \in {"write", "seen", "apart"} /\ updated' = updated
    BY <1>2, <1>7 DEF Look, Branches
  <2> QED
    BY <2>1
<1>8. CASE WriteAlign
  <2>1. main.at \in DOMAIN AlignSpeed /\ speed' \in {30, 0, -120}
    BY <1>8, <1>d DEF WriteAlign, AlignSpeed, ALIGN_SPEED, BACK_OFF_SPEED
  <2> QED
    BY <1>1, <2>1
<1>9. CASE LoadControl
  <2>1. main.at = "load" /\ main'.at = "store"
    BY <1>2, <1>9 DEF LoadControl
  <2> QED
    BY <2>1
<1>10. CASE StoreControl
  BY <1>10 DEF StoreControl, Top
<1> QED
  BY <1>3, <1>4, <1>5, <1>6, <1>7, <1>8, <1>9, <1>10 DEF MainLoop, AlignBranch

LEMMA SomeStage ==
    IInv /\ Reversing =>
      \/ Writing("clear") \/ Writing("write") \/ Rewriting("clear") \/ Rewriting("write")
      \/ Aligned("seen") \/ Aligned("apart") \/ Setting \/ Aligned("load") \/ Aligned("store")
      \/ AtTop \/ Testing(1) \/ Testing(2) \/ Testing(3) \/ Testing(4)
      \/ Testing(5) \/ Testing(6) \/ Testing(7)
<1> HAVE IInv /\ Reversing
<1>1. main \in [at : Places, branch : 1 .. 7, negated : {-1, 0, 1}]
  BY DEF IInv, TypeOK, BranchNumbers
<1> QED
  BY <1>1 DEF Places, Writing, Rewriting, Aligned, Setting, AtTop, Testing

\* As long as the car backs out, each stage is followed by the next one.
LEMMA StagesFollow ==
    IInv /\ NotMixed /\ [Next]_vars /\ Reversing /\ Reversing' =>
      /\ Setting => Setting'
      /\ Writing("clear") => Writing("clear")' \/ Writing("write")'
      /\ Writing("write") => Writing("write")' \/ Setting' \/ Aligned("seen")'
      /\ Aligned("seen") => Aligned("seen")' \/ Setting' \/ Aligned("apart")'
      /\ Aligned("apart") => Aligned("apart")' \/ Setting'
      /\ Aligned("load") => Aligned("load")' \/ Aligned("store")'
      /\ Aligned("store") => Aligned("store")' \/ AtTop'
      /\ Rewriting("write") => Rewriting("write")' \/ AtTop'
      /\ Rewriting("clear") => Rewriting("clear")' \/ Rewriting("write")'
      /\ AtTop => AtTop' \/ Testing(1)'
      /\ Testing(1) => Testing(1)' \/ Testing(2)' \/ Writing("clear")'
      /\ Testing(2) => Testing(2)' \/ Testing(3)' \/ Writing("clear")'
      /\ Testing(3) => Testing(3)' \/ Testing(4)' \/ Writing("clear")'
      /\ Testing(4) => Testing(4)' \/ Testing(5)' \/ Writing("clear")'
      /\ Testing(5) => Testing(5)' \/ Testing(6)' \/ Writing("clear")'
      /\ Testing(6) => Testing(6)' \/ Testing(7)' \/ Writing("clear")'
      /\ Testing(7) => Testing(7)' \/ Writing("clear")' \/ (AtTop' /\ ~updated)
      /\ updated /\ (AtTop \/ Testing(1) \/ Testing(2) \/ Testing(3) \/ Testing(4)
                     \/ Testing(5) \/ Testing(6) \/ Testing(7)) => updated'
<1> HAVE IInv /\ NotMixed /\ [Next]_vars /\ Reversing /\ Reversing'
<1>1. CASE UNCHANGED vars
  BY <1>1 DEF vars, shared, Writing, Rewriting, Aligned, Setting, AtTop, Testing
<1>2. CASE MainLoop
  BY <1>2, LoopMoves DEF Looping, AtTop, Testing
<1>3. CASE Next /\ ~MainLoop
  <2>1. main' = main /\ (updated => updated')
    BY <1>3, InterruptsKeep
  <2> QED
    BY <2>1 DEF Writing, Rewriting, Aligned, Setting, AtTop, Testing
<1> QED
  BY <1>1, <1>2, <1>3

\* A step of the main loop ends a stage.
LEMMA StagesEnd ==
    IInv /\ MainLoop /\ Reversing /\ Reversing' =>
      /\ ~Setting
      /\ Writing("clear") => Writing("write")'
      /\ Writing("write") => Setting' \/ Aligned("seen")'
      /\ Aligned("seen") => Setting' \/ Aligned("apart")'
      /\ Aligned("apart") => Setting'
      /\ Aligned("load") => Aligned("store")'
      /\ Aligned("store") => AtTop'
      /\ Rewriting("write") => AtTop'
      /\ Rewriting("clear") => Rewriting("write")'
      /\ AtTop => Testing(1)'
      /\ Testing(1) => Testing(2)' \/ Writing("clear")'
      /\ Testing(2) => Testing(3)' \/ Writing("clear")'
      /\ Testing(3) => Testing(4)' \/ Writing("clear")'
      /\ Testing(4) => Testing(5)' \/ Writing("clear")'
      /\ Testing(5) => Testing(6)' \/ Writing("clear")'
      /\ Testing(6) => Testing(7)' \/ Writing("clear")'
      /\ Testing(7) => Writing("clear")' \/ (AtTop' /\ ~updated)
<1> HAVE IInv /\ MainLoop /\ Reversing /\ Reversing'
<1> QED
  BY LoopMoves

LEMMA StagesEnabled ==
    IInv /\ Enabling /\ Reversing =>
      /\ ENABLED <<mode = "BRIDGE_BUMP" /\ MainLoop>>_vars
      /\ ~updated => ENABLED <<\E w \in Words : Callback(w)>>_vars
BY DEF IInv, Enabling, Reversing, Aligning

LEMMA WordMarks == (\E w \in Words : Callback(w)) => updated'
BY DEF Callback

LEMMA NeverMixed ==
    ASSUME NoMixedWords
    PROVE  Spec => []NotMixed
<1>1. Init => NotMixed
  BY DEF Init, NotMixed, NoData
<1>2. IInv /\ NotMixed /\ [Next]_vars => NotMixed'
  BY NextNotMixed
<1> QED
  BY <1>1, <1>2, Invariance, PTL DEF Spec

\* A word of core 1 that comes after the recovery stops the backing out, wherever
\* the interrupt that ended the recovery found the main loop (ReverseEnds).
THEOREM BackingOutEnds ==
    ASSUME NoMixedWords
    PROVE  FairSpec /\ []Enabling => ReverseEnds
<1> DEFINE NoLonger == ~Aligning \/ Turning \/ speed # RECOVERY_SPEED
<1>1. NoLonger <=> ~Reversing
  BY DEF Reversing
<1>2. Spec => []NotMixed
  BY NeverMixed
<1>3. FairSpec /\ []Enabling =>
        (Writing("clear") \/ Writing("write") \/ Aligned("seen") \/ Aligned("apart") \/ Setting
           ~> ~Reversing)
  BY <1>2, StagesFollow, StagesEnd, StagesEnabled, SomeStage, Invariance, PTL
     DEF FairSpec, Fairness, Spec
<1> QED
  BY <1>1, <1>2, <1>3, StagesFollow, StagesEnd, StagesEnabled, SomeStage, WordMarks,
     Invariance, PTL
     DEF FairSpec, Fairness, Spec, ReverseEnds
=============================================================================
