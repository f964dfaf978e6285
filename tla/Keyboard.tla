------------------------------ MODULE Keyboard ------------------------------
(***************************************************************************)
(* The keyboard: the PS/2 set-2 decoder and its ring buffer                *)
(* (vcore/src/drivers/keyboard.rs), the keyboard interrupt                 *)
(* (cpu/interrupts.rs) and the task that reads standard input              *)
(* (SYS_READ of fd 0, cpu/syscall.rs).                                     *)
(*                                                                         *)
(* System calls run with interrupts enabled, so an interrupt may strike    *)
(* between any two steps of the reader, also while it holds the KEYBOARD   *)
(* spin lock that the keyboard interrupt takes as well.                    *)
(***************************************************************************)
EXTENDS Integers, Sequences

CONSTANTS BUFFER_SIZE,   \* slots of the ring
          Keys,          \* keys of the keyboard, one of each class the decoder tells apart
          MaxWire,       \* bound: scancodes the controller holds
          MaxRead        \* bound: the length a reader asks for

ASSUME KeyboardAssumption == /\ BUFFER_SIZE \in Nat /\ BUFFER_SIZE >= 2
                             /\ Keys \subseteq {"LEFT_SHIFT", "RIGHT_SHIFT", "CAPS_LOCK",
                                               "letter", "digit", "enter", "unmapped"}
                             /\ MaxWire \in Nat
                             /\ MaxRead \in Nat

VARIABLES buffer, read_pos, write_pos,               \* Keyboard: the ring
          shift_pressed, caps_lock, release_next,    \* Keyboard: the decoder
          lock,          \* the reader holds KEYBOARD
          stuck,         \* the interrupt handler spins on KEYBOARD
          pc,            \* the reader: where it is in SYS_READ
          len, count,    \* the reader: how much it wants and has got
          wire,          \* environment: scancodes not yet taken by the interrupt
          down,          \* environment: the shift keys held down
          caps,          \* environment: caps lock is on
          halved,        \* history: of two shifts held one was let go, and none pressed since
          owed           \* history: per character typed and neither delivered nor dropped,
                         \*   what it may come out as

ring == <<buffer, read_pos, write_pos>>
decoder == <<shift_pressed, caps_lock, release_next>>
reader == <<pc, len, count>>
world == <<wire, down, caps, halved>>
vars == <<ring, decoder, lock, stuck, reader, world, owed>>

Shifts == {"LEFT_SHIFT", "RIGHT_SHIFT"}
RELEASE == "RELEASE"

Chars == [key : {"letter", "digit"}, upper : BOOLEAN] \cup {[key |-> "enter", upper |-> FALSE]}
Blank == [key |-> "none", upper |-> FALSE]
Newline == [key |-> "enter", upper |-> FALSE]

-----------------------------------------------------------------------------
(* The ring *)

\* The position after p.
After(p) == (p + 1) % BUFFER_SIZE

Bug_OverwriteWhenFull(c) ==
    /\ buffer' = [buffer EXCEPT ![write_pos] = c]
    /\ write_pos' = After(write_pos)
    /\ UNCHANGED read_pos

\* push: one slot stays empty, and a character that finds no room is dropped.
push(c) ==
    /\ IF After(write_pos) # read_pos
       THEN /\ buffer' = [buffer EXCEPT ![write_pos] = c]
            /\ write_pos' = After(write_pos)
       ELSE UNCHANGED <<buffer, write_pos>>
    /\ UNCHANGED read_pos

is_empty == read_pos = write_pos

\* The characters in the ring, oldest first.
Used == IF read_pos <= write_pos THEN write_pos - read_pos ELSE write_pos - read_pos + BUFFER_SIZE
Slot(i) == IF read_pos + i - 1 < BUFFER_SIZE THEN read_pos + i - 1 ELSE read_pos + i - 1 - BUFFER_SIZE
Pending == [i \in 1 .. Used |-> buffer[Slot(i)]]

-----------------------------------------------------------------------------
(* The decoder *)

Bug_CapsEverything(k, s, c) ==
    IF k \in {"letter", "digit"} THEN <<[key |-> k, upper |-> s # c]>>
    ELSE IF k = "enter" THEN <<Newline>> ELSE <<>>

\* scancode_to_ascii: shift and caps lock cancel out on letters only; Enter has one form.
scancode_to_ascii(k, s, c) ==
    CASE k = "letter" -> <<[key |-> k, upper |-> s # c]>>
      [] k = "digit"  -> <<[key |-> k, upper |-> s]>>
      [] k = "enter"  -> <<Newline>>
      [] OTHER        -> <<>>

RemoveAt(s, i) == [j \in 1 .. Len(s) - 1 |-> IF j < i THEN s[j] ELSE s[j + 1]]

\* A character that finds the ring full is no longer owed.
Forgive == IF After(write_pos) = read_pos THEN RemoveAt(owed, Len(Pending) + 1) ELSE owed

Bug_ReleaseSticks(sc) ==
    IF sc = RELEASE THEN release_next' = TRUE /\ UNCHANGED <<ring, shift_pressed, caps_lock, owed>>
    ELSE IF release_next
    THEN /\ shift_pressed' = IF sc \in Shifts THEN FALSE ELSE shift_pressed
         /\ release_next' = (sc \in Shifts)
         /\ UNCHANGED <<ring, caps_lock, owed>>
    ELSE /\ shift_pressed' = (shift_pressed \/ sc \in Shifts)
         /\ caps_lock' = (caps_lock # (sc = "CAPS_LOCK"))
         /\ \/ scancode_to_ascii(sc, shift_pressed, caps_lock) = <<>> /\ UNCHANGED <<ring, owed>>
            \/ \E c \in Chars : /\ scancode_to_ascii(sc, shift_pressed, caps_lock) = <<c>>
                                /\ push(c)
                                /\ owed' = Forgive
         /\ UNCHANGED release_next

\* handle_scancode, the lock held.
handle_scancode(sc) ==
    \/ /\ sc = RELEASE
       /\ release_next' = TRUE
       /\ UNCHANGED <<ring, shift_pressed, caps_lock, owed>>
    \/ /\ sc # RELEASE
       /\ release_next
       /\ release_next' = FALSE
       /\ shift_pressed' = IF sc \in Shifts THEN FALSE ELSE shift_pressed
       /\ UNCHANGED <<ring, caps_lock, owed>>
    \/ /\ sc \in Shifts
       /\ ~release_next
       /\ shift_pressed' = TRUE
       /\ UNCHANGED <<ring, caps_lock, release_next, owed>>
    \/ /\ sc = "CAPS_LOCK"
       /\ ~release_next
       /\ caps_lock' = ~caps_lock
       /\ UNCHANGED <<ring, shift_pressed, release_next, owed>>
    \/ /\ sc \in Keys \ (Shifts \cup {"CAPS_LOCK"})
       /\ ~release_next
       /\ \/ /\ scancode_to_ascii(sc, shift_pressed, caps_lock) = <<>>
             /\ UNCHANGED <<ring, owed>>
          \/ \E c \in Chars : /\ scancode_to_ascii(sc, shift_pressed, caps_lock) = <<c>>
                              /\ push(c)
                              /\ owed' = Forgive
       /\ UNCHANGED decoder

-----------------------------------------------------------------------------
(* Interrupts *)

\* An interrupt ends a hlt; the reader then looks again.
Resume == pc' = IF pc = "hlt" THEN "has_input" ELSE pc

keyboard_handler ==
    /\ ~stuck
    /\ wire # <<>>
    /\ wire' = Tail(wire)
    /\ IF lock
       THEN stuck' = TRUE /\ UNCHANGED <<ring, decoder, pc, owed>>
       ELSE handle_scancode(Head(wire)) /\ Resume /\ UNCHANGED stuck
    /\ UNCHANGED <<lock, len, count, down, caps, halved>>

Bug_NoResume == UNCHANGED vars

timer_handler ==
    /\ ~stuck
    /\ Resume
    /\ UNCHANGED <<ring, decoder, lock, stuck, len, count, world, owed>>

-----------------------------------------------------------------------------
(* The reader: SYS_READ of fd 0 *)

At(here) == ~stuck /\ pc = here

\* A user task asks for n characters; the last ones it got are its own business.
sys_read(n) ==
    /\ At("user")
    /\ pc' = "has_input"
    /\ len' = n
    /\ count' = 0
    /\ UNCHANGED <<ring, decoder, lock, stuck, world, owed>>

\* has_input and read_char take KEYBOARD with interrupts enabled ...
lock_keyboard ==
    /\ \/ At("has_input")
       \/ At("loop") /\ count < len
    /\ ~lock
    /\ lock' = TRUE
    /\ UNCHANGED <<ring, decoder, stuck, reader, world, owed>>

Bug_DontWait ==
    /\ At("has_input")
    /\ lock
    /\ lock' = FALSE
    /\ pc' = "loop"
    /\ UNCHANGED <<ring, decoder, stuck, len, count, world, owed>>

\* ... look at the ring and release it.
has_input ==
    /\ At("has_input")
    /\ lock
    /\ lock' = FALSE
    /\ pc' = IF is_empty THEN "halt" ELSE "loop"
    /\ UNCHANGED <<ring, decoder, stuck, len, count, world, owed>>

\* hlt: an interrupt taken since has_input has already been and gone.
hlt ==
    /\ At("halt")
    /\ pc' = "hlt"
    /\ UNCHANGED <<ring, decoder, lock, stuck, len, count, world, owed>>

\* read_char, and the loop around it.
read_char ==
    /\ At("loop")
    /\ lock
    /\ lock' = FALSE
    /\ IF is_empty
       THEN pc' = "return" /\ UNCHANGED <<ring, count, owed>>
       ELSE /\ read_pos' = After(read_pos)
            /\ count' = count + 1
            /\ pc' = IF buffer[read_pos] = Newline THEN "return" ELSE pc
            /\ owed' = Tail(owed)
            /\ UNCHANGED <<buffer, write_pos>>
    /\ UNCHANGED <<decoder, stuck, len, world>>

\* The loop is left, or was never entered because no character was asked for.
sys_read_return ==
    /\ At("return") \/ (At("loop") /\ ~lock /\ count >= len)
    /\ pc' = "user"
    /\ len' = 0
    /\ count' = 0
    /\ UNCHANGED <<ring, decoder, lock, stuck, world, owed>>

-----------------------------------------------------------------------------
(* The keyboard and its controller *)

\* What somebody who presses k means: capitals by shift or caps lock, symbols by shift.
Meant(k, s, c) ==
    IF k \in {"letter", "digit"}
    THEN {[key |-> k, upper |-> (s /\ ~(c /\ k = "letter")) \/ (~s /\ c /\ k = "letter")]}
    ELSE IF k = "enter" THEN {Newline} ELSE {}

(***************************************************************************)
(* What a press of k may come out as.  A shift is in force while one is    *)
(* held down.  The driver has one flag for the two of them, which the      *)
(* release of either clears: with the other still held, what is typed may  *)
(* also come out as if it were not.                                        *)
(***************************************************************************)
Acceptable(k) == Meant(k, down # {}, caps) \cup (IF halved THEN Meant(k, FALSE, caps) ELSE {})

press(k) ==
    /\ ~stuck
    /\ Len(wire) + 1 <= MaxWire
    /\ wire' = Append(wire, k)
    /\ down' = down \cup ({k} \cap Shifts)
    /\ caps' = (caps # (k = "CAPS_LOCK"))
    /\ halved' = (halved /\ k \notin Shifts)
    /\ owed' = IF Acceptable(k) = {} THEN owed ELSE Append(owed, Acceptable(k))
    /\ UNCHANGED <<ring, decoder, lock, stuck, reader>>

release(k) ==
    /\ ~stuck
    /\ k \in Shifts => k \in down
    /\ Len(wire) + 2 <= MaxWire
    /\ wire' = wire \o <<RELEASE, k>>
    /\ down' = down \ {k}
    /\ halved' = IF k \in Shifts THEN down # {k} ELSE halved
    /\ UNCHANGED <<ring, decoder, lock, stuck, reader, caps, owed>>

\* The interrupt handler spins, interrupts disabled, on the lock of the task it interrupted.
spinning == stuck /\ UNCHANGED vars

-----------------------------------------------------------------------------

Init ==
    /\ buffer = [i \in 0 .. BUFFER_SIZE - 1 |-> Blank]
    /\ read_pos = 0
    /\ write_pos = 0
    /\ shift_pressed = FALSE
    /\ caps_lock = FALSE
    /\ release_next = FALSE
    /\ lock = FALSE
    /\ stuck = FALSE
    /\ pc = "user"
    /\ len = 0
    /\ count = 0
    /\ wire = <<>>
    /\ down = {}
    /\ caps = FALSE
    /\ halved = FALSE
    /\ owed = <<>>

Next ==
    \/ keyboard_handler
    \/ timer_handler
    \/ \E n \in 0 .. MaxRead : sys_read(n)
    \/ lock_keyboard
    \/ has_input
    \/ hlt
    \/ read_char
    \/ sys_read_return
    \/ \E k \in Keys : press(k) \/ release(k)
    \/ spinning

Spec == Init /\ [][Next]_vars

(***************************************************************************)
(* Fairness: the timer is periodic, and a reader that the scheduler keeps  *)
(* running takes its next step.  Nothing is assumed of the keyboard.       *)
(***************************************************************************)
FairSpec ==
    /\ Spec
    /\ WF_vars(timer_handler)
    /\ WF_vars(lock_keyboard \/ has_input \/ hlt \/ read_char \/ sys_read_return)

-----------------------------------------------------------------------------
(* Properties *)

(***************************************************************************)
(* The ring holds what was typed, in the order it was typed and in the     *)
(* form that the shifts held down and the caps lock of that moment ask     *)
(* for, less what was delivered or dropped for want of room; once the wire *)
(* is empty nothing else is owed.  What is typed after one of two held     *)
(* shifts was let go may come out unshifted (Acceptable).                  *)
(***************************************************************************)
TypedInOrder ==
    ~stuck => /\ Len(Pending) <= Len(owed)
              /\ \A i \in 1 .. Len(Pending) : Pending[i] \in owed[i]
              /\ wire = <<>> => Len(Pending) = Len(owed)

(***************************************************************************)
(* Shift does not stick: when no shift key is held and every scancode has  *)
(* been handled, the decoder is in neither the shifted nor the released-   *)
(* key state.                                                              *)
(***************************************************************************)
NoStuckShift ==
    wire = <<>> /\ ~stuck => /\ ~release_next
                             /\ down \cap Shifts = {} => ~shift_pressed

(***************************************************************************)
(* read(0, buf, n) with n > 0 returns at least one character (getch uses   *)
(* the first one unchecked): nobody empties the ring between has_input and *)
(* the first read_char.                                                    *)
(***************************************************************************)
ReadReturnsSomething == pc = "return" => count > 0

Queue == INSTANCE KeyQueue WITH queue <- Pending, Capacity <- BUFFER_SIZE - 1

\* The ring implements a queue that drops a character only when it is full.
IsQueue == Queue!Spec

(***************************************************************************)
(* A reader gets what is in the ring: even if the keyboard interrupt comes *)
(* between has_input and hlt, the next timer tick ends the hlt (unless the *)
(* interrupt handler hangs on KEYBOARD).                                   *)
(***************************************************************************)
ReaderServed == (pc # "user" /\ Pending # <<>>) ~> (pc = "user" \/ stuck)
=============================================================================
