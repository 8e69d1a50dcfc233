---------------------------- MODULE AppipcProofs ----------------------------
(***************************************************************************)
(* Theorems of Appipc for every set of words, checked by TLAPS: once the   *)
(* start-up is over the registers of a channel implement the queue of      *)
(* AppipcSpec, and under the fairness of Appipc a word that has been sent  *)
(* is handed over.                                                         *)
(***************************************************************************)
EXTENDS Appipc, SequenceTheorems, TLAPS

\* The interrupt can reach the core when the start-up code has enabled it.
Opened ==
    receiver["thread"] \in {"check", "read", "release", "callback", "idle"} => masked = "open"

\* Once the start-up is over only the interrupt receives, and the lock has one
\* owner: a sender that is writing, the interrupt it has raised, or the handler
\* that is reading.
OneOwner ==
    /\ receiver["thread"] = "idle"
    /\ receiver["isr"] \in {"idle", "read", "release", "callback"}
    /\ sender # "idle" => lock /\ ~notified /\ receiver["isr"] \notin {"read", "release"}
    /\ notified => lock /\ receiver["isr"] \notin {"read", "release"}
    /\ receiver["isr"] \in {"read", "release"} => lock
    /\ lock /\ sender = "idle" => notified \/ receiver["isr"] \in {"read", "release"}

\* The word is in the data register until the lock is free again, and in the
\* handler's variable until it is handed over.
WordKept ==
    /\ sender # "idle" => word \in Words /\ result = "none"
    /\ sender = "notify" => data = word
    /\ lock /\ sender # "write" => data \in Words
    /\ receiver["isr"] = "release" => local["isr"] = data
    /\ receiver["isr"] = "callback" => local["isr"] \in Words

IInv ==
    /\ TypeOK
    /\ Opened
    /\ settled => OneOwner /\ WordKept

-----------------------------------------------------------------------------
(* The invariant                                                            *)

LEMMA InitIInv == Init => IInv
<1> SUFFICES ASSUME Init PROVE IInv
  OBVIOUS
<1>1. receiver \in [Contexts -> Steps] /\ receiver["thread"] = "clear"
  BY DEF Init, Contexts, Steps
<1>2. local \in [Contexts -> Words \union {Nothing}]
  BY DEF Init
<1> QED
  BY <1>1, <1>2 DEF Init, IInv, TypeOK, Opened

\* The steps of both cores, without the history variable.
Step == Send \/ IsrEnter \/ Receive \/ RxInit

LEMMA StepType == TypeOK /\ Step /\ settled' \in BOOLEAN => TypeOK'
<1> SUFFICES ASSUME TypeOK, Step, settled' \in BOOLEAN PROVE TypeOK'
  OBVIOUS
<1> USE DEF TypeOK, senderVars, Goto, Contexts, Steps
<1>1. ASSUME NEW w \in Words, SendAcquire(w) PROVE TypeOK'
  BY <1>1 DEF SendAcquire
<1>2. CASE SendBusy
  BY <1>2 DEF SendBusy
<1>3. CASE SendWrite
  BY <1>3 DEF SendWrite
<1>4. CASE SendNotify
  BY <1>4 DEF SendNotify
<1>5. CASE IsrEnter
  BY <1>5 DEF IsrEnter
<1>6. ASSUME NEW c \in Contexts, Read(c) PROVE TypeOK'
  BY <1>6 DEF Read
<1>7. ASSUME NEW c \in Contexts, Release(c) PROVE TypeOK'
  BY <1>7 DEF Release
<1>8. ASSUME NEW c \in Contexts, Callback(c) PROVE TypeOK'
  BY <1>8 DEF Callback
<1>9. CASE RxInit
  BY <1>9 DEF RxInit, InitClear, InitUnmask, InitEnable, InitCheck
<1> QED
  BY <1>1, <1>2, <1>3, <1>4, <1>5, <1>6, <1>7, <1>8, <1>9 DEF Step, Send, Receive

LEMMA StepOpened == TypeOK /\ Opened /\ Step => Opened'
<1> SUFFICES ASSUME TypeOK, Opened, Step PROVE Opened'
  OBVIOUS
<1> USE DEF TypeOK, Opened, senderVars, Goto, Contexts, Steps
<1>1. CASE Send
  BY <1>1 DEF Send, SendAcquire, SendBusy, SendWrite, SendNotify
<1>2. CASE IsrEnter
  BY <1>2 DEF IsrEnter
<1>3. CASE Receive
  BY <1>3 DEF Receive, Read, Release, Callback
<1>4. CASE RxInit
  BY <1>4 DEF RxInit, InitClear, InitUnmask, InitEnable, InitCheck
<1> QED
  BY <1>1, <1>2, <1>3, <1>4 DEF Step

\* After the start-up only these steps are left.
LEMMA StepsLeft ==
    ASSUME TypeOK, OneOwner, Step
    PROVE  \/ Send \/ IsrEnter \/ Read("isr") \/ Release("isr") \/ Callback("isr")
BY DEF Step, OneOwner, Receive, Contexts, Read, Release, Callback,
   RxInit, InitClear, InitUnmask, InitEnable, InitCheck

LEMMA StepSettled ==
    ASSUME TypeOK, OneOwner, WordKept, Step
    PROVE  OneOwner' /\ WordKept'
<1> USE DEF TypeOK, OneOwner, WordKept, senderVars, Goto, Contexts, Steps
<1>1. ASSUME NEW w \in Words, SendAcquire(w) PROVE OneOwner' /\ WordKept'
  BY <1>1 DEF SendAcquire
<1>2. CASE SendBusy
  BY <1>2 DEF SendBusy
<1>3. CASE SendWrite
  BY <1>3 DEF SendWrite
<1>4. CASE SendNotify
  BY <1>4 DEF SendNotify
<1>5. CASE IsrEnter
  BY <1>5 DEF IsrEnter
<1>6. CASE Read("isr")
  BY <1>6 DEF Read
<1>7. CASE Release("isr")
  BY <1>7 DEF Release
<1>8. CASE Callback("isr")
  BY <1>8 DEF Callback
<1> QED
  BY <1>1, <1>2, <1>3, <1>4, <1>5, <1>6, <1>7, <1>8, StepsLeft DEF Send

LEMMA NextIInv == IInv /\ [Next]_vars => IInv'
<1> SUFFICES ASSUME IInv, [Next]_vars PROVE IInv'
  OBVIOUS
<1>1. CASE UNCHANGED vars
  BY <1>1 DEF vars, registers, senderVars, IInv, TypeOK, Opened, OneOwner, WordKept
<1>2. CASE Next
  <2>1. Step /\ settled' = (settled \/ Quiet')
    BY <1>2 DEF Next, Step
  <2>2. settled' \in BOOLEAN
    BY <2>1
  <2>3. TypeOK' /\ Opened'
    BY <2>1, <2>2, StepType, StepOpened DEF IInv
  <2>4. CASE settled
    BY <2>1, <2>3, <2>4, StepSettled DEF IInv
  <2>5. CASE ~settled /\ settled'
    <3>1. OneOwner' /\ WordKept'
      BY <2>1, <2>3, <2>5 DEF TypeOK, Quiet, OneOwner, WordKept, Contexts
    <3> QED
      BY <2>3, <3>1 DEF IInv
  <2>6. CASE ~settled'
    BY <2>3, <2>6 DEF IInv
  <2> QED
    BY <2>4, <2>5, <2>6
<1> QED
  BY <1>1, <1>2

-----------------------------------------------------------------------------
(* The refinement                                                           *)

\* Sequences of at most two words.
LEMMA Queues ==
    ASSUME NEW a, NEW b
    PROVE  /\ <<>> \o <<>> = <<>> /\ <<a>> \o <<>> = <<a>> /\ <<>> \o <<b>> = <<b>>
           /\ <<a>> \o <<b>> = <<a, b>>
           /\ Append(<<>>, b) = <<b>> /\ Append(<<a>>, b) = <<a, b>>
           /\ Head(<<a>>) = a /\ Tail(<<a>>) = <<>>
           /\ Head(<<a, b>>) = a /\ Tail(<<a, b>>) = <<b>>
           /\ Len(<<>>) = 0 /\ Len(<<a>>) = 1
           /\ <<a>> # <<>> /\ <<a, b>> # <<>>
<1>1. <<>> \o <<>> = <<>> /\ <<a>> \o <<>> = <<a>> /\ <<>> \o <<b>> = <<b>>
  OBVIOUS
<1> DEFINE S == {a, b}
<1>2. <<a>> \o <<b>> = <<a, b>>
  <2>1. <<a>> \in Seq(S) /\ <<b>> \in Seq(S) /\ <<a, b>> \in Seq(S)
    OBVIOUS
  <2>2. <<a>> \o <<b>> \in Seq(S) /\ Len(<<a>> \o <<b>>) = 2
        /\ (<<a>> \o <<b>>)[1] = a /\ (<<a>> \o <<b>>)[2] = b
    BY <2>1, ConcatProperties
  <2>3. Len(<<a, b>>) = 2 /\ <<a, b>>[1] = a /\ <<a, b>>[2] = b
    OBVIOUS
  <2>4. \A i \in 1 .. 2 : i = 1 \/ i = 2
    OBVIOUS
  <2>5. \A i \in 1 .. Len(<<a>> \o <<b>>) : (<<a>> \o <<b>>)[i] = <<a, b>>[i]
    BY <2>2, <2>3, <2>4
  <2> HIDE DEF S
  <2> QED
    BY <2>1, <2>2, <2>3, <2>5, SeqEqual
<1>3. Append(<<>>, b) = <<b>> /\ Append(<<a>>, b) = <<a, b>>
  <2>1. <<>> \in Seq(S) /\ <<a>> \in Seq(S) /\ b \in S
    OBVIOUS
  <2>2. Append(<<>>, b) = <<>> \o <<b>> /\ Append(<<a>>, b) = <<a>> \o <<b>>
    BY <2>1, AppendIsConcat
  <2> QED
    BY <2>2, <1>1, <1>2
<1>4. Head(<<a>>) = a /\ Tail(<<a>>) = <<>>
  OBVIOUS
<1>5. Head(<<a, b>>) = a /\ Tail(<<a, b>>) = <<b>>
  OBVIOUS
<1>6. Len(<<>>) = 0 /\ Len(<<a>>) = 1
  OBVIOUS
<1>7. <<a>> # <<>> /\ <<a, b>> # <<>>
  OBVIOUS
<1> QED
  BY <1>1, <1>2, <1>3, <1>4, <1>5, <1>6, <1>7

\* While nothing is under way the queue is empty.
LEMMA InitLink == Init => Link!Init
BY Queues DEF Init, InFlight, Link!Init

\* The step that ends the start-up leaves an empty queue; the steps before it
\* are invisible to the abstract link.
LEMMA StartUpStep ==
    ASSUME TypeOK, ~settled, Step, settled' = (settled \/ Quiet')
    PROVE  Link!Next \/ UNCHANGED Link!vars
BY Queues DEF Quiet, InFlight, Link!Next, Link!StartUp, Link!vars, Contexts
\* Afterwards every register access is a step of the abstract link or
\* invisible to it.
LEMMA SettledStep ==
    ASSUME TypeOK, OneOwner, WordKept, settled, Step, settled'
    PROVE  Link!Next \/ UNCHANGED Link!vars
<1> USE DEF TypeOK, OneOwner, WordKept, senderVars, Goto, Contexts, Steps, InFlight
<1>1. ASSUME NEW w \in Words, SendAcquire(w) PROVE Link!Next
  <2>1. InFlight = (IF receiver["isr"] = "callback" THEN <<local["isr"]>> ELSE <<>>)
    BY <1>1, Queues DEF SendAcquire
  <2>2. InFlight' = Append(InFlight, w)
    BY <1>1, <2>1, Queues DEF SendAcquire
  <2>3. Len(InFlight) < Link!Capacity
    <3> HIDE DEF InFlight
    <3>1. InFlight = <<>> \/ InFlight = <<local["isr"]>>
      BY <2>1
    <3>2. Len(<<>>) < 2 /\ Len(<<local["isr"]>>) < 2
      OBVIOUS
    <3>3. Len(InFlight) < 2
      BY <3>1, <3>2
    <3> QED
      BY <3>3 DEF Link!Capacity
  <2> HIDE DEF InFlight
  <2>4. Link!Take(w)
    BY <1>1, <2>2, <2>3 DEF SendAcquire, Link!Take
  <2> QED
    BY <2>4 DEF Link!Next
<1>2. CASE SendBusy
  <2>1. InFlight # <<>> /\ InFlight' = InFlight
    BY <1>2, Queues DEF SendBusy
  <2> HIDE DEF InFlight
  <2>2. Link!Refuse
    BY <1>2, <2>1 DEF SendBusy, Link!Refuse
  <2> QED
    BY <2>2 DEF Link!Next
<1>3. CASE SendWrite
  <2>1. InFlight' = InFlight
    BY <1>3 DEF SendWrite
  <2> QED
    BY <1>3, <2>1 DEF SendWrite, Link!vars
<1>4. CASE SendNotify
  <2>1. InFlight' = InFlight
    BY <1>4 DEF SendNotify
  <2> HIDE DEF InFlight
  <2>2. Link!Accept
    BY <1>4, <2>1 DEF SendNotify, Link!Accept
  <2> QED
    BY <2>2 DEF Link!Next
<1>5. CASE IsrEnter
  <2>1. InFlight' = InFlight
    BY <1>5 DEF IsrEnter
  <2> QED
    BY <1>5, <2>1 DEF IsrEnter, Link!vars
<1>6. CASE Read("isr")
  <2>1. InFlight' = InFlight
    BY <1>6 DEF Read
  <2> QED
    BY <1>6, <2>1 DEF Read, Link!vars
<1>7. CASE Release("isr")
  <2>1. InFlight = <<>> \o <<data>> /\ InFlight' = <<data>> \o <<>>
    BY <1>7 DEF Release
  <2>2. InFlight' = InFlight
    BY <2>1, Queues
  <2> QED
    BY <1>7, <2>2 DEF Release, Link!vars
<1>8. CASE Callback("isr")
  <2>1. InFlight # <<>> /\ Head(InFlight) = local["isr"] /\ Tail(InFlight) = InFlight'
    BY <1>8, Queues DEF Callback
  <2> HIDE DEF InFlight
  <2>2. Link!HandOver
    BY <1>8, <2>1 DEF Callback, Link!HandOver
  <2> QED
    BY <2>2 DEF Link!Next
<1> QED
  BY <1>1, <1>2, <1>3, <1>4, <1>5, <1>6, <1>7, <1>8, StepsLeft DEF Send

LEMMA NextLink == IInv /\ [Next]_vars => [Link!Next]_(Link!vars)
<1> SUFFICES ASSUME IInv, [Next]_vars PROVE Link!Next \/ UNCHANGED Link!vars
  OBVIOUS
<1>1. CASE UNCHANGED vars
  BY <1>1 DEF vars, registers, senderVars, InFlight, Link!vars
<1>2. CASE Next
  <2>1. Step /\ settled' = (settled \/ Quiet')
    BY <1>2 DEF Next, Step
  <2>2. CASE settled
    <3>1. settled'
      BY <2>1, <2>2
    <3> QED
      BY <2>1, <2>2, <3>1, SettledStep DEF IInv
  <2>3. CASE ~settled
    BY <2>1, <2>3, StartUpStep DEF IInv
  <2> QED
    BY <2>2, <2>3
<1> QED
  BY <1>1, <1>2

-----------------------------------------------------------------------------
(* The theorems                                                             *)

\* The invariant: while the start-up lasts only the types and the interrupt
\* enable are sure; afterwards the lock has one owner and the word it guards
\* stays in the data register until the handler has read it.
THEOREM Invariance == Spec => []IInv
<1> QED
  BY InitIInv, NextIInv, PTL DEF Spec

\* The registers and both contexts of the receiver keep their types
\* (TypeOK), whatever words are sent.
THEOREM TypeCorrect == Spec => []TypeOK
<1>1. IInv => TypeOK
  BY DEF IInv
<1> QED
  BY <1>1, Invariance, PTL

\* One direction of the link keeps appipc.h's promise for every set of words:
\* after the start-up a taken word is handed over once and in order, and
\* APPIPC_BUSY is only answered while an earlier word is on its way.
THEOREM Refinement == Spec => ImplementsLink
<1> QED
  BY InitLink, NextLink, Invariance, PTL DEF Spec, ImplementsLink, Link!Spec

-----------------------------------------------------------------------------
(* Progress.  Fairness speaks of ENABLED, of which the provers know nothing  *)
(* but its place in WF.  What they need to know is Enabling, a condition on  *)
(* states: each fair action can be taken when its guard holds.               *)

Enabling ==
    /\ sender = "write" => ENABLED <<SendWrite>>_registers
    /\ sender = "notify" => ENABLED <<SendNotify>>_registers
    /\ receiver["isr"] = "idle" /\ notified /\ masked = "open"
         => ENABLED <<IsrEnter>>_registers
    /\ receiver["isr"] \in {"read", "release", "callback"}
         => ENABLED <<Receive>>_registers
    /\ receiver["isr"] = "idle" /\ receiver["thread"] \in {"read", "release"}
         => ENABLED <<Receive>>_registers
    /\ receiver["isr"] = "idle" /\ receiver["thread"] \in {"clear", "unmask", "enable", "check"}
         => ENABLED <<RxInit>>_registers

\* A taken channel is never forgotten, not even during the start-up: the sender
\* is still at it, the interrupt is pending, or a context that is to look at the
\* lock has not done so yet.
LockIsSeen ==
    /\ receiver["isr"] \in {"idle", "read", "release", "callback"}
    /\ lock => \/ sender # "idle" \/ notified
               \/ receiver["isr"] \in {"read", "release"}
               \/ receiver["thread"] \notin {"callback", "idle"}

LEMMA LockSeen == Spec => []LockIsSeen
<1>1. Init => LockIsSeen
  BY DEF Init, LockIsSeen
<1>2. IInv /\ LockIsSeen /\ [Next]_vars => LockIsSeen'
  <2> SUFFICES ASSUME IInv, LockIsSeen, [Next]_vars PROVE LockIsSeen'
    OBVIOUS
  <2> USE DEF IInv, TypeOK, LockIsSeen, senderVars, Goto, Contexts, Steps
  <2>1. CASE Send
    BY <2>1 DEF Send, SendAcquire, SendBusy, SendWrite, SendNotify
  <2>2. CASE IsrEnter
    BY <2>2 DEF IsrEnter
  <2>3. ASSUME NEW c \in Contexts, Read(c) \/ Release(c) \/ Callback(c) PROVE LockIsSeen'
    BY <2>3 DEF Read, Release, Callback
  <2>4. CASE RxInit
    BY <2>4 DEF RxInit, InitClear, InitUnmask, InitEnable, InitCheck
  <2>5. CASE UNCHANGED vars
    BY <2>5 DEF vars, registers
  <2> QED
    BY <2>1, <2>2, <2>3, <2>4, <2>5 DEF Next, Receive
<1> QED
  BY <1>1, <1>2, Invariance, PTL DEF Spec

\* The stages of a taken channel, the last ones first: in the handler, in the
\* drain of the start-up, at the sender.
InHandler(step) == lock /\ receiver["isr"] = step
InDrain(step) == lock /\ receiver["isr"] = "idle" /\ receiver["thread"] = step
Drained == receiver["isr"] = "idle" /\ receiver["thread"] \in {"callback", "idle"}
Pending == lock /\ Drained /\ notified
AtSender(step) == lock /\ Drained /\ sender = step

\* As long as the channel stays taken, every stage is followed by the one before
\* it in the list above; the handler may take over from the drain.
LEMMA StagesFollow ==
    IInv /\ [Next]_vars /\ lock' =>
      /\ InHandler("release") => InHandler("release")'
      /\ InHandler("read") => InHandler("read")' \/ InHandler("release")'
      /\ InHandler("callback") => InHandler("callback")' \/ InHandler("idle")'
      /\ InDrain("release") => InHandler("read")' \/ InDrain("release")'
      /\ InDrain("read") => InHandler("read")' \/ InDrain("read")' \/ InDrain("release")'
      /\ InDrain("check") => InHandler("read")' \/ InDrain("check")' \/ InDrain("read")'
      /\ InDrain("enable") => InHandler("read")' \/ InDrain("enable")' \/ InDrain("check")'
      /\ InDrain("unmask") => InHandler("read")' \/ InDrain("unmask")' \/ InDrain("enable")'
      /\ InDrain("clear") => InHandler("read")' \/ InDrain("clear")' \/ InDrain("unmask")'
      /\ Pending => InHandler("read")' \/ Pending'
      /\ AtSender("notify") => InHandler("read")' \/ AtSender("notify")' \/ Pending'
      /\ AtSender("write") =>
           InHandler("read")' \/ AtSender("write")' \/ AtSender("notify")'
<1> HAVE IInv /\ [Next]_vars /\ lock'
<1> USE DEF IInv, TypeOK, senderVars, Goto, Contexts, Steps, Running,
            InHandler, InDrain, Drained, Pending, AtSender
<1>1. CASE Send
  BY <1>1 DEF Send, SendAcquire, SendBusy, SendWrite, SendNotify
<1>2. CASE IsrEnter
  BY <1>2 DEF IsrEnter
<1>3. CASE Receive
  <2>1. PICK c \in Contexts : Read(c) \/ Release(c) \/ Callback(c)
    BY <1>3 DEF Receive
  <2>2. CASE Read(c)
    BY <2>2 DEF Read
  <2>3. CASE Release(c)
    BY <2>3 DEF Release
  <2>4. CASE Callback(c)
    BY <2>4 DEF Callback
  <2> QED
    BY <2>1, <2>2, <2>3, <2>4
<1>4. CASE RxInit
  BY <1>4 DEF RxInit, InitClear, InitUnmask, InitEnable, InitCheck
<1>5. CASE UNCHANGED vars
  BY <1>5 DEF vars, registers
<1> QED
  BY <1>1, <1>2, <1>3, <1>4, <1>5 DEF Next

\* The fair step of a stage ends it.
LEMMA StagesEnd ==
    IInv /\ lock' =>
      /\ Receive => /\ ~InHandler("release")
                    /\ InHandler("read") => InHandler("release")'
                    /\ InHandler("callback") => InHandler("idle")'
                    /\ ~InDrain("release")
                    /\ InDrain("read") => InDrain("release")'
      /\ RxInit => /\ InDrain("check") => InDrain("read")'
                   /\ InDrain("enable") => InDrain("check")'
                   /\ InDrain("unmask") => InDrain("enable")'
                   /\ InDrain("clear") => InDrain("unmask")'
      /\ IsrEnter /\ Pending => InHandler("read")'
      /\ SendNotify /\ AtSender("notify") => Pending'
      /\ SendWrite /\ AtSender("write") => AtSender("notify")'
<1> HAVE IInv /\ lock'
<1> USE DEF IInv, TypeOK, senderVars, Goto, Contexts, Steps, Running,
            InHandler, InDrain, Drained, Pending, AtSender
<1>1. ASSUME Receive
      PROVE  /\ ~InHandler("release")
             /\ InHandler("read") => InHandler("release")'
             /\ InHandler("callback") => InHandler("idle")'
             /\ ~InDrain("release")
             /\ InDrain("read") => InDrain("release")'
  BY <1>1 DEF Receive, Read, Release, Callback
<1>2. ASSUME RxInit
      PROVE  /\ InDrain("check") => InDrain("read")'
             /\ InDrain("enable") => InDrain("check")'
             /\ InDrain("unmask") => InDrain("enable")'
             /\ InDrain("clear") => InDrain("unmask")'
  BY <1>2 DEF RxInit, InitClear, InitUnmask, InitEnable, InitCheck
<1>3. IsrEnter /\ Pending => InHandler("read")'
  BY DEF IsrEnter
<1>4. SendNotify /\ AtSender("notify") => Pending'
  BY DEF SendNotify
<1>5. SendWrite /\ AtSender("write") => AtSender("notify")'
  BY DEF SendWrite
<1> QED
  BY <1>1, <1>2, <1>3, <1>4, <1>5

\* Each stage is one in which its step can be taken.
LEMMA StagesEnabled ==
    IInv /\ Enabling =>
      /\ InHandler("release") \/ InHandler("read") \/ InHandler("callback")
         \/ InDrain("release") \/ InDrain("read") => ENABLED <<Receive>>_registers
      /\ InDrain("check") \/ InDrain("enable") \/ InDrain("unmask") \/ InDrain("clear")
           => ENABLED <<RxInit>>_registers
      /\ Pending => ENABLED <<IsrEnter>>_registers
      /\ AtSender("notify") => ENABLED <<SendNotify>>_registers
      /\ AtSender("write") => ENABLED <<SendWrite>>_registers
BY DEF IInv, Opened, Enabling, InHandler, InDrain, Drained, Pending, AtSender

\* A taken channel is in one of the stages.
LEMMA SomeStage ==
    IInv /\ LockIsSeen /\ lock =>
      \/ InHandler("release") \/ InHandler("read") \/ InHandler("callback")
      \/ InDrain("release") \/ InDrain("read") \/ InDrain("check")
      \/ InDrain("enable") \/ InDrain("unmask") \/ InDrain("clear")
      \/ Pending \/ AtSender("notify") \/ AtSender("write")
BY DEF IInv, TypeOK, Contexts, Steps, LockIsSeen, InHandler, InDrain, Drained, Pending, AtSender

\* Whatever the order of the first sends and of the start-up, a taken channel is
\* freed again (MailboxDrains).
THEOREM Draining == FairSpec /\ []Enabling => MailboxDrains
<1>1. InHandler("idle") => ~InHandler("callback")
  BY DEF InHandler
<1> QED
  BY <1>1, StagesFollow, StagesEnd, StagesEnabled, SomeStage, Invariance, LockSeen, PTL
     DEF FairSpec, Fairness, Spec, MailboxDrains

\* The stages of a word w after the start-up: in the data register, with the sender
\* still to raise the interrupt or the interrupt raised, and in the handler.
Unannounced(w) == settled /\ sender = "notify" /\ word = w
Announced(w, isr) == settled /\ notified /\ data = w /\ receiver["isr"] = isr
Fetched(w, isr) ==
    /\ settled /\ receiver["isr"] = isr
    /\ w = IF isr = "read" THEN data ELSE local["isr"]

Follow(w) ==
    /\ Unannounced(w) => \/ Unannounced(w)'
                         \/ Announced(w, "callback")' \/ Announced(w, "idle")'
    /\ Announced(w, "callback") => Announced(w, "callback")' \/ Announced(w, "idle")'
    /\ Announced(w, "idle") => Announced(w, "idle")' \/ Fetched(w, "read")'
    /\ Fetched(w, "read") => Fetched(w, "read")' \/ Fetched(w, "release")'
    /\ Fetched(w, "release") => Fetched(w, "release")' \/ Fetched(w, "callback")'
    /\ Fetched(w, "callback") => Fetched(w, "callback")' \/ (handed = w)'

LEMMA WordsFollow ==
    ASSUME NEW w \in Words
    PROVE  IInv /\ [Next]_vars => Follow(w)
<1> HAVE IInv /\ [Next]_vars
<1> USE DEF IInv, TypeOK, OneOwner, WordKept, senderVars, Goto, Contexts, Steps,
            Unannounced, Announced, Fetched, Follow
<1>1. CASE UNCHANGED vars
  BY <1>1 DEF vars, registers
<1>2. CASE ~settled
  BY <1>2
<1>3. CASE Next /\ settled
  <2>1. settled'
    BY <1>3 DEF Next
  <2>2. \/ Send \/ IsrEnter \/ Read("isr") \/ Release("isr") \/ Callback("isr")
    BY <1>3, StepsLeft DEF Next, Step
  <2>3. CASE Send
    BY <1>3, <2>1, <2>3 DEF Send, SendAcquire, SendBusy, SendWrite, SendNotify
  <2>4. CASE IsrEnter
    BY <1>3, <2>1, <2>4 DEF IsrEnter
  <2>5. CASE Read("isr")
    BY <1>3, <2>1, <2>5 DEF Read
  <2>6. CASE Release("isr")
    BY <1>3, <2>1, <2>6 DEF Release
  <2>7. CASE Callback("isr")
    BY <1>3, <2>1, <2>7 DEF Callback
  <2> QED
    BY <2>2, <2>3, <2>4, <2>5, <2>6, <2>7
<1> QED
  BY <1>1, <1>2, <1>3

Move(w) ==
    /\ SendNotify /\ Unannounced(w) => ~Unannounced(w)'
    /\ IsrEnter => ~Announced(w, "idle")'
    /\ Receive => /\ Announced(w, "callback") => ~Announced(w, "callback")'
                  /\ Fetched(w, "read") => ~Fetched(w, "read")'
                  /\ Fetched(w, "release") => ~Fetched(w, "release")'
                  /\ Fetched(w, "callback") => ~Fetched(w, "callback")'

LEMMA WordsMove ==
    ASSUME NEW w \in Words
    PROVE  IInv /\ [Next]_vars => Move(w)
<1> HAVE IInv /\ [Next]_vars
<1> USE DEF IInv, TypeOK, OneOwner, WordKept, senderVars, Goto, Contexts, Steps, Running,
            Unannounced, Announced, Fetched, Move
<1>1. SendNotify /\ Unannounced(w) => ~Unannounced(w)'
  BY DEF SendNotify
<1>2. IsrEnter => ~Announced(w, "idle")'
  BY DEF IsrEnter
<1>3. ASSUME Receive
      PROVE  /\ Announced(w, "callback") => ~Announced(w, "callback")'
             /\ Fetched(w, "read") => ~Fetched(w, "read")'
             /\ Fetched(w, "release") => ~Fetched(w, "release")'
             /\ Fetched(w, "callback") => ~Fetched(w, "callback")'
  BY <1>3 DEF Receive, Read, Release, Callback
<1> QED
  BY <1>1, <1>2, <1>3

CanMove(w) ==
    /\ Unannounced(w) => ENABLED <<SendNotify>>_registers
    /\ Announced(w, "idle") => ENABLED <<IsrEnter>>_registers
    /\ Announced(w, "callback") => ENABLED <<Receive>>_registers
    /\ Fetched(w, "read") => ENABLED <<Receive>>_registers
    /\ Fetched(w, "release") => ENABLED <<Receive>>_registers
    /\ Fetched(w, "callback") => ENABLED <<Receive>>_registers

LEMMA WordsEnabled ==
    ASSUME NEW w \in Words
    PROVE  IInv /\ Enabling => CanMove(w)
BY DEF IInv, Opened, OneOwner, Enabling, Unannounced, Announced, Fetched, CanMove

\* After the start-up APPIPC_OK means that the word reaches the receiver's callback
\* (OkWordIsHandedOver).
THEOREM Delivery == FairSpec /\ []Enabling => OkWordIsHandedOver
<1> SUFFICES ASSUME NEW CONSTANT w \in Words
             PROVE  FairSpec /\ []Enabling =>
                      (settled /\ sender = "notify" /\ word = w ~> handed = w)
  BY DEF OkWordIsHandedOver
<1>1. settled /\ sender = "notify" /\ word = w => Unannounced(w)
  BY DEF Unannounced
<1>2. IInv /\ [Next]_vars => Follow(w) /\ Move(w)
  BY WordsFollow, WordsMove
<1>3. IInv /\ Enabling => CanMove(w)
  BY WordsEnabled
<1> QED
  BY <1>1, <1>2, <1>3, Invariance, PTL
     DEF Follow, Move, CanMove, FairSpec, Fairness, Spec
=============================================================================
