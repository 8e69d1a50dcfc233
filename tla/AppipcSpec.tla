---------------------------- MODULE AppipcSpec ----------------------------
(***************************************************************************)
(* What one direction of the inter-core link promises its two users        *)
(* (appipc.h): appipc_send_u32 either takes the word (APPIPC_OK) or        *)
(* refuses it (APPIPC_BUSY); a taken word is handed to the receiver's      *)
(* callback exactly once, in the order of the sends; a word is refused     *)
(* only while an earlier one has not been handed over.  It promises so     *)
(* from a moment on at which the receiver has run appipc_rx_init and       *)
(* nothing is under way; before that words may be lost, see Appipc.        *)
(***************************************************************************)
EXTENDS Sequences, Naturals

CONSTANTS
    Words,      \* the 32-bit payloads that are told apart
    Nothing     \* no word: before the first hand-over

\* Words the link can hold: one in the mailbox, one read but not handed over.
Capacity == 2

VARIABLES
    settled,    \* the start-up is over
    queue,      \* words taken and not yet handed to the callback
    handed,     \* the word of the last callback
    result      \* what the last send returned

vars == <<settled, queue, handed, result>>

Results == {"none", "APPIPC_OK", "APPIPC_BUSY"}

Init ==
    /\ settled = FALSE
    /\ queue = <<>>
    /\ handed = Nothing
    /\ result = "none"

\* Nothing is promised, but that the start-up leaves no word behind.
StartUp ==
    /\ ~settled
    /\ settled' => queue' = <<>>

\* A send is in progress: the caller has not seen its result yet.
Take(w) ==
    /\ settled
    /\ Len(queue) < Capacity
    /\ queue' = Append(queue, w)
    /\ result' = "none"
    /\ UNCHANGED <<settled, handed>>

Accept ==
    /\ settled
    /\ result = "none"
    /\ result' = "APPIPC_OK"
    /\ UNCHANGED <<settled, queue, handed>>

Refuse ==
    /\ settled
    /\ queue # <<>>
    /\ result' = "APPIPC_BUSY"
    /\ UNCHANGED <<settled, queue, handed>>

HandOver ==
    /\ settled
    /\ queue # <<>>
    /\ handed' = Head(queue)
    /\ queue' = Tail(queue)
    /\ UNCHANGED <<settled, result>>

Next ==
    \/ StartUp
    \/ \E w \in Words : Take(w)
    \/ Accept
    \/ Refuse
    \/ HandOver

Spec == Init /\ [][Next]_vars
=============================================================================
