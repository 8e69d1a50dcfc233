---------------------------- MODULE MCBlindTurn ----------------------------
(* Words of core 1 for the aligning stage and its successors.              *)
EXTENDS BlindTurn

\* Lining up: every combination of the turn's flags with an unseen, a badly
\* lined up (near or far, left or right) and a lined-up bridge.
Sights ==
    { [valid |-> FALSE, aligned |-> FALSE, near |-> FALSE, control |-> 0],
      [valid |-> TRUE, aligned |-> TRUE, near |-> FALSE, control |-> 0],
      [valid |-> TRUE, aligned |-> FALSE, near |-> FALSE, control |-> 1],
      [valid |-> TRUE, aligned |-> FALSE, near |-> TRUE, control |-> -1] }

Sent(s, force, release, fresh, exited, start) ==
    [ valid |-> s.valid, aligned |-> s.aligned, force_blind |-> force,
      blind_release |-> release, fresh_target |-> fresh, near |-> s.near,
      control |-> s.control, exited |-> exited, bump_start |-> start ]

Unseen == CHOOSE s \in Sights : ~s.valid

\* The start of the bumps and the final acknowledgement carry nothing else.
MCWords ==
    { Sent(s, force, release, fresh, FALSE, FALSE) :
        s \in Sights, force \in BOOLEAN, release \in BOOLEAN, fresh \in BOOLEAN }
    \union { Sent(Unseen, FALSE, FALSE, FALSE, TRUE, FALSE),
             Sent(Unseen, FALSE, FALSE, FALSE, FALSE, TRUE) }

\* The words that a run with fairness can afford, closer to what core 1 sends: a
\* request, a release and fresh lines come with a control value, a release alone.
MCFewWords ==
    { w \in MCWords :
        /\ w.force_blind => w.control = 1 /\ ~w.blind_release
        /\ w.fresh_target => w.control = 1
        /\ w.blind_release => w.control = 1 /\ ~w.fresh_target }
=============================================================================
