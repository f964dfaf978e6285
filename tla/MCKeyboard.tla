---------------------------- MODULE MCKeyboard ----------------------------
(***************************************************************************)
(* Keyboard for TLC.  Every behaviour types on two or three of the keys:   *)
(* all the combinations the decoder tells apart occur, without their       *)
(* product with one another in the ring.  With three keys in play the      *)
(* reader asks for one character at a time, as getch does.                 *)
(***************************************************************************)
EXTENDS Keyboard, FiniteSets

VARIABLE hands   \* the keys used in this behaviour

MCHands == {{"LEFT_SHIFT", "RIGHT_SHIFT", "letter"},
            {"RIGHT_SHIFT", "digit"},
            {"LEFT_SHIFT", "CAPS_LOCK", "letter"},
            {"CAPS_LOCK", "digit"},
            {"letter", "enter"},
            {"enter", "unmapped"}}

MCInit == Init /\ hands \in MCHands

MCNext ==
    /\ Next
    /\ \A i \in DOMAIN wire' : wire'[i] \in hands \cup {RELEASE}
    /\ Cardinality(hands) > 2 => len' \in 0 .. 1
    /\ UNCHANGED hands

MCFairSpec ==
    /\ MCInit
    /\ [][MCNext]_<<vars, hands>>
    /\ WF_vars(timer_handler)
    /\ WF_vars(lock_keyboard \/ has_input \/ hlt \/ read_char \/ sys_read_return)
=============================================================================
