------------------------------ MODULE Appipc ------------------------------
(***************************************************************************)
(* One direction of the link between the two Cortex-M7 cores (appipc.c):   *)
(* an IPC channel of the chip holds one 32-bit word behind a hardware      *)
(* lock.  The sender takes the lock, writes the word and raises the        *)
(* receiver's interrupt; the receiver's interrupt handler reads the word,  *)
(* releases the lock and only then calls the user's callback.  The code    *)
(* of the two directions (appipc_xxx, appipc_speed_xxx) is the same.       *)
(*                                                                         *)
(* Every register access is a step, because the two cores run in parallel  *)
(* and because the receiver's start-up code (appipc_rx_init) drains the    *)
(* mailbox from the main thread while its own interrupt is enabled.        *)
(***************************************************************************)
EXTENDS Sequences, Naturals

CONSTANTS
    Words,      \* payloads that are told apart
    Nothing     \* the content of the data register after reset

ASSUME WordsAssumption == Nothing \notin Words

VARIABLES
    lock,       \* the channel is acquired
    data,       \* the channel's data register
    notified,   \* the notify bit of the receiver's interrupt structure
    masked,     \* the interrupt of the channel cannot reach the receiving core
    sender,     \* next step of appipc_send_u32
    word,       \* its argument
    result,     \* its last result
    receiver,   \* next step of each receiving context
    local,      \* "data" of appipc_read_and_release, per context
    handed,     \* argument of the last callback
    settled     \* history: the start-up is over and was once seen to be

senderVars == <<sender, word, result>>
registers == <<lock, data, notified, masked, senderVars, receiver, local, handed>>
vars == <<registers, settled>>

\* The main thread of the receiving core (inside appipc_rx_init) and its
\* interrupt handler.  The handler runs to completion before the thread goes on.
Contexts == {"thread", "isr"}
Steps == {"clear", "unmask", "enable", "check", "read", "release", "callback", "idle"}

Running(c) == c = "isr" \/ receiver["isr"] = "idle"
Goto(c, step) == receiver' = [receiver EXCEPT ![c] = step]

\* Registers, both contexts of the receiver and the words on their way.
TypeOK ==
    /\ lock \in BOOLEAN /\ notified \in BOOLEAN
    /\ masked \in {"masked", "disabled", "open"}
    /\ data \in Words \union {Nothing}
    /\ sender \in {"idle", "write", "notify"}
    /\ word \in Words \union {Nothing}
    /\ result \in {"none", "APPIPC_OK", "APPIPC_BUSY"}
    /\ receiver \in [Contexts -> Steps]
    /\ local \in [Contexts -> Words \union {Nothing}]
    /\ handed \in Words \union {Nothing}
    /\ settled \in BOOLEAN

Init ==
    /\ lock = FALSE /\ notified = FALSE
    /\ data = Nothing
    /\ masked = "masked"
    /\ sender = "idle" /\ word = Nothing /\ result = "none"
    /\ receiver = [thread |-> "clear", isr |-> "idle"]
    /\ local = [c \in Contexts |-> Nothing]
    /\ handed = Nothing
    /\ settled = FALSE

-----------------------------------------------------------------------------
(* appipc_send_u32 on the sending core                                      *)

\* Mutant: the lock is not looked at.
SendAcquireAlways(w) ==
    /\ sender = "idle"
    /\ lock' = TRUE
    /\ sender' = "write" /\ word' = w /\ result' = "none"
    /\ UNCHANGED <<data, notified, masked, receiver, local, handed>>

\* Reading the acquire register takes the lock if it is free.
SendAcquire(w) ==
    /\ sender = "idle"
    /\ ~lock
    /\ lock' = TRUE
    /\ sender' = "write" /\ word' = w /\ result' = "none"
    /\ UNCHANGED <<data, notified, masked, receiver, local, handed>>

SendBusy ==
    /\ sender = "idle"
    /\ lock
    /\ result' = "APPIPC_BUSY"
    /\ UNCHANGED <<lock, data, notified, masked, sender, word, receiver, local, handed>>

SendWrite ==
    /\ sender = "write"
    /\ data' = word
    /\ sender' = "notify"
    /\ UNCHANGED <<lock, notified, masked, word, result, receiver, local, handed>>

\* Mutant: the driver's status is returned as it is.
SendNotifyRaw ==
    /\ sender = "notify"
    /\ notified' = TRUE
    /\ sender' = "idle" /\ result' = "CY_IPC_DRV_SUCCESS"
    /\ UNCHANGED <<lock, data, masked, word, receiver, local, handed>>

\* Mutant: the notify mask is 0.
SendNotifySilent ==
    /\ sender = "notify"
    /\ sender' = "idle" /\ result' = "APPIPC_OK"
    /\ UNCHANGED <<lock, data, notified, masked, word, receiver, local, handed>>

SendNotify ==
    /\ sender = "notify"
    /\ notified' = TRUE
    /\ sender' = "idle" /\ result' = "APPIPC_OK"
    /\ UNCHANGED <<lock, data, masked, word, receiver, local, handed>>

Send == (\E w \in Words : SendAcquire(w)) \/ SendBusy \/ SendWrite \/ SendNotify

-----------------------------------------------------------------------------
(* The receiving core                                                       *)

\* appipc_rx_isr: taken when the notify bit is set, unmasked and enabled.
\* (The notify bit was set, so the status test of the handler succeeds.)
IsrEnter ==
    /\ receiver["isr"] = "idle"
    /\ notified /\ masked = "open"
    /\ notified' = FALSE
    /\ Goto("isr", "read")
    /\ UNCHANGED <<lock, data, masked, senderVars, local, handed>>

\* Cy_IPC_Drv_ReadMsgWord: the word counts as valid when the lock is held.
Read(c) ==
    /\ receiver[c] = "read" /\ Running(c)
    /\ IF lock
         THEN /\ local' = [local EXCEPT ![c] = data]
              /\ Goto(c, "release")
         ELSE /\ Goto(c, "idle")
              /\ UNCHANGED local
    /\ UNCHANGED <<lock, data, notified, masked, senderVars, handed>>

Release(c) ==
    /\ receiver[c] = "release" /\ Running(c)
    /\ lock' = FALSE
    /\ Goto(c, "callback")
    /\ UNCHANGED <<data, notified, masked, senderVars, local, handed>>

Callback(c) ==
    /\ receiver[c] = "callback" /\ Running(c)
    /\ handed' = local[c]
    /\ local' = [local EXCEPT ![c] = Nothing]
    /\ Goto(c, "idle")
    /\ UNCHANGED <<lock, data, notified, masked, senderVars>>

\* appipc_rx_init, before it drains the mailbox.
InitClear ==
    /\ receiver["thread"] = "clear"
    /\ notified' = FALSE
    /\ Goto("thread", "unmask")
    /\ UNCHANGED <<lock, data, masked, senderVars, local, handed>>

InitUnmask ==
    /\ receiver["thread"] = "unmask"
    /\ masked' = "disabled"
    /\ Goto("thread", "enable")
    /\ UNCHANGED <<lock, data, notified, senderVars, local, handed>>

InitEnable ==
    /\ receiver["thread"] = "enable"
    /\ masked' = "open"
    /\ Goto("thread", "check")
    /\ UNCHANGED <<lock, data, notified, senderVars, local, handed>>

\* Mutant: nothing is drained.
InitNoCheck ==
    /\ receiver["thread"] = "check" /\ Running("thread")
    /\ Goto("thread", "idle")
    /\ UNCHANGED <<lock, data, notified, masked, senderVars, local, handed>>

\* A word that was sent before the interrupt was set up is fetched here.
InitCheck ==
    /\ receiver["thread"] = "check" /\ Running("thread")
    /\ Goto("thread", IF lock THEN "read" ELSE "idle")
    /\ UNCHANGED <<lock, data, notified, masked, senderVars, local, handed>>

Receive == \E c \in Contexts : Read(c) \/ Release(c) \/ Callback(c)
RxInit == InitClear \/ InitUnmask \/ InitEnable \/ InitCheck

\* The drain may release the lock of a word that is still being written, and
\* the interrupt that word raises later finds an empty mailbox, or the next
\* word.  That is over when nothing is under way.
Quiet ==
    /\ \A c \in Contexts : receiver[c] = "idle"
    /\ sender = "idle" /\ ~lock /\ ~notified

Next ==
    /\ Send \/ IsrEnter \/ Receive \/ RxInit
    /\ settled' = (settled \/ Quiet')

Spec == Init /\ [][Next]_vars

\* Code that has been entered runs on; only the start of a send is not fair.
Fairness ==
    /\ WF_registers(SendWrite) /\ WF_registers(SendNotify)
    /\ WF_registers(IsrEnter) /\ WF_registers(Receive) /\ WF_registers(RxInit)

FairSpec == Spec /\ Fairness

-----------------------------------------------------------------------------
(* Properties                                                               *)

\* The words the link holds: read by the handler and not handed over yet,
\* then the word in the mailbox (the sender's own while it is being written).
InFlight ==
    (IF receiver["isr"] = "callback" THEN <<local["isr"]>> ELSE <<>>) \o
    (IF lock THEN <<IF sender = "write" THEN word ELSE data>> ELSE <<>>)

Link == INSTANCE AppipcSpec WITH queue <- InFlight

\* Once the start-up is over the lock, interrupt and release order of
\* appipc_send_u32 and appipc_rx_isr implement the link's promise: every
\* taken word is handed over once, in order, and never mixed up with the next.
ImplementsLink == Link!Spec

\* APPIPC_OK means that the word reaches the receiver's callback (appipc.h,
\* "APPIPC_OK: sent successfully"), once the start-up is over.
OkWordIsHandedOver ==
    \A w \in Words : (settled /\ sender = "notify" /\ word = w) ~> (handed = w)

\* The mailbox never wedges: whatever the order of the first send and of
\* appipc_rx_init's clear / unmask / enable / drain steps, a taken channel is
\* released again, so the sender is not answered APPIPC_BUSY for ever.
MailboxDrains == lock ~> ~lock
=============================================================================
