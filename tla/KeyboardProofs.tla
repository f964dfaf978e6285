--------------------------- MODULE KeyboardProofs ---------------------------
(***************************************************************************)
(* The ring of the keyboard driver implements a bounded queue, for every   *)
(* size of the ring.                                                       *)
(***************************************************************************)
EXTENDS Keyboard, TLAPS

N == BUFFER_SIZE

\* What the ring needs for its slots to be distinct: both positions lie in it.
RingOK == /\ buffer \in [0 .. N - 1 -> Chars \cup {Blank}]
          /\ read_pos \in 0 .. N - 1
          /\ write_pos \in 0 .. N - 1

\* The code's remainder only ever wraps the last position to the first.
LEMMA AfterWraps ==
    ASSUME NEW p \in 0 .. N - 1
    PROVE  After(p) = IF p + 1 = N THEN 0 ELSE p + 1
<1> N \in Nat /\ N >= 2
  BY KeyboardAssumption DEF N
<1>1. CASE p + 1 = N
  BY <1>1 DEF After, N
<1>2. CASE p + 1 # N
  <2>1. p + 1 \in 0 .. N - 1
    BY <1>2
  <2> QED BY <2>1, <1>2 DEF After, N
<1> QED BY <1>1, <1>2

\* push appends to the queue, or leaves it alone when all but one slot are used.
LEMMA PushAppends ==
    ASSUME RingOK, NEW c \in Chars, push(c)
    PROVE  RingOK' /\ Queue!Push(c)
<1> USE KeyboardAssumption DEF N
<1>0. After(write_pos) = IF write_pos + 1 = N THEN 0 ELSE write_pos + 1
  BY AfterWraps DEF RingOK
<1>1. CASE After(write_pos) = read_pos
  <2>1. UNCHANGED <<buffer, read_pos, write_pos>>
    BY <1>1 DEF push
  <2>2. Used = N - 1
    BY <1>0, <1>1 DEF Used, RingOK
  <2>3. Len(Pending) = N - 1
    BY <2>2 DEF Pending
  <2>4. Pending' = Pending
    BY <2>1 DEF Pending, Used, Slot
  <2> QED BY <2>1, <2>3, <2>4 DEF Queue!Push, RingOK
<1>2. CASE After(write_pos) # read_pos
  <2>1. /\ buffer' = [buffer EXCEPT ![write_pos] = c]
        /\ write_pos' = After(write_pos)
        /\ read_pos' = read_pos
    BY <1>2 DEF push
  <2>2. /\ Used \in 0 .. N - 2
        /\ Used' = Used + 1
    BY <1>0, <1>2, <2>1 DEF Used, RingOK
  <2>3. RingOK'
    BY <1>0, <2>1 DEF RingOK
  <2>4. Slot(Used + 1) = write_pos
    BY DEF Slot, Used, RingOK
  <2>5. ASSUME NEW i \in 1 .. Used
        PROVE  Slot(i) \in 0 .. N - 1 /\ Slot(i) # write_pos
    BY <2>2 DEF Slot, Used, RingOK
  <2>6. \A i : Slot(i)' = Slot(i)
    BY <2>1 DEF Slot
  <2>7. Len(Pending) = Used
    BY <2>2 DEF Pending
  <2>8. Pending' = [i \in 1 .. Used + 1 |-> buffer'[Slot(i)]]
    BY <2>2, <2>6 DEF Pending
  <2>9. Append(Pending, c) = [i \in 1 .. Used + 1 |-> IF i <= Used THEN Pending[i] ELSE c]
    BY <2>2, <2>7 DEF Pending
  <2>10. ASSUME NEW i \in 1 .. Used + 1
         PROVE  buffer'[Slot(i)] = IF i <= Used THEN Pending[i] ELSE c
    <3>1. CASE i <= Used
      <4>1. i \in 1 .. Used
        BY <3>1, <2>2
      <4>2. buffer'[Slot(i)] = buffer[Slot(i)]
        BY <4>1, <2>5, <2>1 DEF RingOK
      <4> QED BY <4>1, <4>2, <3>1 DEF Pending
    <3>2. CASE i = Used + 1
      <4>1. buffer'[write_pos] = c
        BY <2>1 DEF RingOK
      <4> QED BY <4>1, <3>2, <2>4, <2>2
    <3> QED BY <3>1, <3>2, <2>2
  <2>11. Pending' = Append(Pending, c)
    BY <2>8, <2>9, <2>10
  <2> QED BY <2>2, <2>3, <2>7, <2>11 DEF Queue!Push
<1> QED BY <1>1, <1>2

\* Taking the character at read_pos removes the head of the queue.
LEMMA PopTakesHead ==
    ASSUME RingOK, ~is_empty, read_pos' = After(read_pos), UNCHANGED <<buffer, write_pos>>
    PROVE  RingOK' /\ Queue!Pop
<1> USE KeyboardAssumption DEF N
<1>0. After(read_pos) = IF read_pos + 1 = N THEN 0 ELSE read_pos + 1
  BY AfterWraps DEF RingOK
<1>1. RingOK'
  BY <1>0 DEF RingOK
<1>2. /\ Used \in 1 .. N - 1
      /\ Used' = Used - 1
  BY <1>0 DEF Used, RingOK, is_empty
<1>3. ASSUME NEW i \in 1 .. Used - 1
      PROVE  Slot(i)' = Slot(i + 1)
  BY <1>0, <1>2 DEF Slot, Used, RingOK
<1>4. Len(Pending) = Used
  BY <1>2 DEF Pending
<1>5. Pending' = [i \in 1 .. Used - 1 |-> buffer[Slot(i)']]
  BY <1>2 DEF Pending
<1>6. Tail(Pending) = [i \in 1 .. Used - 1 |-> Pending[i + 1]]
  BY <1>2, <1>4 DEF Pending
<1>7. ASSUME NEW i \in 1 .. Used - 1
      PROVE  buffer[Slot(i)'] = Pending[i + 1]
  BY <1>2, <1>3 DEF Pending
<1>8. Pending' = Tail(Pending)
  BY <1>5, <1>6, <1>7
<1>9. Pending # <<>>
  BY <1>2, <1>4
<1> QED BY <1>1, <1>8, <1>9 DEF Queue!Pop

\* A step that does not touch the ring is no step of the queue.
LEMMA RingUnchanged ==
    ASSUME RingOK, UNCHANGED ring
    PROVE  RingOK' /\ Pending' = Pending
BY DEF ring, RingOK, Pending, Used, Slot

\* Every step of the system is a push, a pop or nothing to the queue.
LEMMA StepOfQueue ==
    ASSUME RingOK, [Next]_vars
    PROVE  RingOK' /\ [Queue!Next]_Pending
<1>1. CASE UNCHANGED ring
  BY <1>1, RingUnchanged
<1>2. CASE keyboard_handler /\ ~UNCHANGED ring
  <2>1. \E sc : handle_scancode(sc)
    BY <1>2 DEF keyboard_handler, ring
  <2>2. PICK c \in Chars : push(c)
    BY <1>2, <2>1 DEF handle_scancode
  <2>3. RingOK' /\ Queue!Push(c)
    BY <2>2, PushAppends
  <2> QED BY <2>3 DEF Queue!Next
<1>3. CASE read_char /\ ~UNCHANGED ring
  <2>1. ~is_empty /\ read_pos' = After(read_pos) /\ UNCHANGED <<buffer, write_pos>>
    BY <1>3 DEF read_char, ring
  <2> QED BY <2>1, PopTakesHead DEF Queue!Next
<1>4. CASE ~(keyboard_handler \/ read_char)
  <2>1. UNCHANGED ring
    BY <1>4 DEF Next, vars, timer_handler, sys_read, lock_keyboard, has_input, hlt, sys_read_return,
                press, release, spinning
  <2> QED BY <2>1, <1>1
<1> QED BY <1>1, <1>2, <1>3, <1>4

LEMMA InitOfQueue ==
    ASSUME Init
    PROVE  RingOK /\ Queue!Init
<1> USE KeyboardAssumption DEF N
<1>1. RingOK
  BY DEF Init, RingOK
<1>2. Used = 0
  BY DEF Init, Used
<1>3. Pending = <<>>
  BY <1>2 DEF Pending
<1> QED BY <1>1, <1>3 DEF Queue!Init

(***************************************************************************)
(* For every size of the ring, what push, the interrupt handler and        *)
(* read_char do to it is what a queue of BUFFER_SIZE - 1 characters does:  *)
(* no character is duplicated, reordered or lost, but for one that comes   *)
(* when the queue is full.                                                 *)
(***************************************************************************)
THEOREM RingImplementsQueue == Spec => IsQueue
<1>1. Init => RingOK /\ Queue!Init
  BY InitOfQueue
<1>2. RingOK /\ [Next]_vars => RingOK' /\ [Queue!Next]_Pending
  BY StepOfQueue
<1> QED BY <1>1, <1>2, PTL DEF Spec, IsQueue, Queue!Spec

-----------------------------------------------------------------------------
(* What read returns *)

(***************************************************************************)
(* The reader between has_input and its first read_char: the ring is not   *)
(* empty, for the interrupt handler only adds to it.                       *)
(***************************************************************************)
ReaderInv == /\ RingOK
             /\ count \in Nat
             /\ pc = "loop" => count > 0 \/ ~is_empty
             /\ ReadReturnsSomething

\* A push leaves the ring with something in it, if it had something before.
LEMMA PushKeepsSome ==
    ASSUME RingOK, NEW c \in Chars, push(c), ~is_empty
    PROVE  ~is_empty'
BY AfterWraps, KeyboardAssumption DEF push, is_empty, RingOK, N

LEMMA ReaderStep ==
    ASSUME ReaderInv, [Next]_vars
    PROVE  ReaderInv'
<1> USE DEF ReaderInv, ReadReturnsSomething
<1>0. RingOK'
  BY StepOfQueue
<1>1. CASE keyboard_handler
  <2>1. /\ UNCHANGED count
        /\ pc' = pc \/ pc' = "has_input"
    BY <1>1 DEF keyboard_handler, Resume
  <2>2. ~is_empty => ~is_empty'
    <3>1. CASE UNCHANGED ring
      BY <3>1 DEF is_empty, ring
    <3>2. CASE ~UNCHANGED ring
      <4>1. \E sc : handle_scancode(sc)
        BY <1>1, <3>2 DEF keyboard_handler, ring
      <4>2. PICK c \in Chars : push(c)
        BY <3>2, <4>1 DEF handle_scancode
      <4> QED BY <4>2, PushKeepsSome
    <3> QED BY <3>1, <3>2
  <2> QED BY <1>0, <2>1, <2>2
<1>2. CASE timer_handler
  BY <1>0, <1>2 DEF timer_handler, Resume, is_empty, ring
<1>3. ASSUME NEW n \in 0 .. MaxRead, sys_read(n)
      PROVE  ReaderInv'
  BY <1>0, <1>3 DEF sys_read
<1>4. CASE lock_keyboard
  BY <1>0, <1>4 DEF lock_keyboard, ring, reader, is_empty
<1>5. CASE has_input
  BY <1>0, <1>5 DEF has_input, ring, is_empty
<1>6. CASE hlt
  BY <1>0, <1>6 DEF hlt
<1>7. CASE read_char
  BY <1>0, <1>7 DEF read_char, At, is_empty
<1>8. CASE sys_read_return
  BY <1>0, <1>8 DEF sys_read_return
<1>9. ASSUME NEW k \in Keys, press(k) \/ release(k)
      PROVE  ReaderInv'
  BY <1>0, <1>9 DEF press, release, ring, reader, is_empty
<1>10. CASE UNCHANGED vars
  BY <1>0, <1>10 DEF vars, ring, reader, is_empty
<1> QED BY <1>1, <1>2, <1>3, <1>4, <1>5, <1>6, <1>7, <1>8, <1>9, <1>10 DEF Next, spinning

(***************************************************************************)
(* A read of standard input that asks for at least one character returns   *)
(* at least one (sys_read of fd 0), for every size of the ring and however *)
(* interrupts fall between has_input and read_char.                        *)
(***************************************************************************)
THEOREM ReadIsNotEmpty == Spec => []ReadReturnsSomething
<1>1. Init => ReaderInv
  <2>1. Init => RingOK
    BY InitOfQueue
  <2> QED BY <2>1 DEF Init, ReaderInv, ReadReturnsSomething
<1>2. ReaderInv /\ [Next]_vars => ReaderInv'
  BY ReaderStep
<1>3. ReaderInv => ReadReturnsSomething
  BY DEF ReaderInv
<1> QED BY <1>1, <1>2, <1>3, PTL DEF Spec

-----------------------------------------------------------------------------
(* What is typed *)

(***************************************************************************)
(* What handle_scancode makes of the three flags and what it pushes, as    *)
(* functions of the scancode and the flags.                                *)
(***************************************************************************)
ShiftAfter(sc, released, shifted) == IF sc \in Shifts THEN ~released ELSE shifted
CapsAfter(sc, released, locked) == IF sc = "CAPS_LOCK" /\ ~released THEN ~locked ELSE locked
Typed(sc, released, shifted, locked) ==
    IF sc = RELEASE \/ released THEN <<>> ELSE scancode_to_ascii(sc, shifted, locked)

\* t is one character, and in S.
Among(t, S) == \E ch \in S : t = <<ch>>

(***************************************************************************)
(* Where the keys on the wire will leave the decoder's flag: a shift is    *)
(* held, and none was let go since one was last pressed.                   *)
(***************************************************************************)
Shifted == down # {} /\ ~halved

Codes == Keys \cup {RELEASE}
Forms == SUBSET Chars
Positions == 0 .. Len(wire)

(***************************************************************************)
(* How the decoder will go through the wire: r, s and c are its flags and  *)
(* m the number of characters it has then passed on, in the order they are *)
(* owed, when it has handled so many scancodes.  It ends where the keys    *)
(* leave the modifiers.                                                    *)
(***************************************************************************)
FlagsRun(r, s, c) ==
    /\ r \in [Positions -> BOOLEAN]
    /\ s \in [Positions -> BOOLEAN]
    /\ c \in [Positions -> BOOLEAN]
    /\ r[0] = release_next /\ s[0] = shift_pressed /\ c[0] = caps_lock
    /\ \A i \in 1 .. Len(wire) : /\ r[i] = (wire[i] = RELEASE)
                                 /\ s[i] = ShiftAfter(wire[i], r[i - 1], s[i - 1])
                                 /\ c[i] = CapsAfter(wire[i], r[i - 1], c[i - 1])
    /\ r[Len(wire)] = FALSE /\ s[Len(wire)] = Shifted /\ c[Len(wire)] = caps

CharsRun(r, s, c, m) ==
    /\ m \in [Positions -> Nat]
    /\ m[0] = Used
    /\ \A i \in 1 .. Len(wire) :
         \/ /\ Typed(wire[i], r[i - 1], s[i - 1], c[i - 1]) = <<>>
            /\ m[i] = m[i - 1]
         \/ /\ m[i] = m[i - 1] + 1
            /\ Among(Typed(wire[i], r[i - 1], s[i - 1], c[i - 1]), owed[m[i]])
    /\ \A i, j \in Positions : i <= j => m[i] <= m[j]
    /\ m[Len(wire)] = Len(owed)

TypedInv ==
    /\ RingOK
    /\ wire \in Seq(Codes)
    /\ owed \in Seq(Forms)
    /\ down \subseteq Shifts
    /\ halved \in BOOLEAN
    /\ \A i \in 1 .. Used : Pending[i] \in owed[i]
    /\ \E r, s, c, m : FlagsRun(r, s, c) /\ CharsRun(r, s, c, m)

KeyInv == RingOK /\ (~stuck => TypedInv)

LEMMA UsedInRing ==
    ASSUME RingOK
    PROVE  Used \in 0 .. N - 1 /\ Pending \in Seq(Chars \cup {Blank}) /\ Len(Pending) = Used
<1> USE KeyboardAssumption DEF N
<1>1. Used \in 0 .. N - 1
  BY DEF Used, RingOK
<1>2. ASSUME NEW i \in 1 .. Used
      PROVE  Slot(i) \in 0 .. N - 1
  BY <1>1 DEF Slot, Used, RingOK
<1>3. ASSUME NEW i \in 1 .. Used
      PROVE  buffer[Slot(i)] \in Chars \cup {Blank}
  BY <1>2, <1>3 DEF RingOK
<1>4. Pending \in [1 .. Used -> Chars \cup {Blank}]
  BY <1>3 DEF Pending
<1> QED BY <1>1, <1>4

\* The invariant says what the two properties say.
LEMMA KeyInvImplies ==
    ASSUME KeyInv
    PROVE  TypedInOrder /\ NoStuckShift
<1> SUFFICES ASSUME ~stuck
             PROVE  TypedInOrder /\ NoStuckShift
  BY DEF TypedInOrder, NoStuckShift
<1>1. TypedInv
  BY DEF KeyInv
<1>2. PICK r, s, c, m : FlagsRun(r, s, c) /\ CharsRun(r, s, c, m)
  BY <1>1 DEF TypedInv
<1>3. Used \in Nat /\ Len(Pending) = Used /\ Pending \in Seq(Chars \cup {Blank})
  BY <1>1, UsedInRing, KeyboardAssumption DEF TypedInv, N
<1>4. Len(wire) \in Nat /\ Len(owed) \in Nat /\ owed \in Seq(Forms)
  BY <1>1 DEF TypedInv
<1>5. Used <= Len(owed)
  BY <1>2, <1>4 DEF CharsRun, Positions
<1>6. Len(Pending) <= Len(owed) /\ \A i \in 1 .. Len(Pending) : Pending[i] \in owed[i]
  BY <1>1, <1>3, <1>5 DEF TypedInv
<1>7. ASSUME wire = <<>>
      PROVE  Len(Pending) = Len(owed)
  BY <1>3, <1>7, <1>2 DEF CharsRun
<1>9. ASSUME wire = <<>>
      PROVE  ~release_next /\ shift_pressed = Shifted
  BY <1>9, <1>2 DEF FlagsRun
<1>10. down \cap Shifts = {} => ~Shifted
  BY <1>1 DEF TypedInv, Shifted
<1>11. TypedInOrder
  BY <1>6, <1>7 DEF TypedInOrder
<1>12. NoStuckShift
  BY <1>9, <1>10 DEF NoStuckShift
<1> QED BY <1>11, <1>12

\* What handle_scancode does, in terms of the functions above.
LEMMA HandleScancode ==
    ASSUME NEW sc \in Codes, handle_scancode(sc),
           release_next \in BOOLEAN, shift_pressed \in BOOLEAN, caps_lock \in BOOLEAN
    PROVE  /\ release_next' = (sc = RELEASE)
           /\ shift_pressed' = ShiftAfter(sc, release_next, shift_pressed)
           /\ caps_lock' = CapsAfter(sc, release_next, caps_lock)
           /\ \/ /\ Typed(sc, release_next, shift_pressed, caps_lock) = <<>>
                 /\ UNCHANGED <<ring, owed>>
              \/ \E ch \in Chars :
                   /\ Typed(sc, release_next, shift_pressed, caps_lock) = <<ch>>
                   /\ push(ch)
                   /\ owed' = Forgive
<1> USE KeyboardAssumption DEF Shifts, RELEASE, Codes
<1>1. release_next' = (sc = RELEASE)
  BY DEF handle_scancode, decoder
<1>2. shift_pressed' = ShiftAfter(sc, release_next, shift_pressed)
  BY DEF handle_scancode, decoder, ShiftAfter
<1>3. caps_lock' = CapsAfter(sc, release_next, caps_lock)
  BY DEF handle_scancode, decoder, CapsAfter
<1>4. CASE sc \in Keys \ (Shifts \cup {"CAPS_LOCK"}) /\ ~release_next
  <2>1. Typed(sc, release_next, shift_pressed, caps_lock)
          = scancode_to_ascii(sc, shift_pressed, caps_lock)
    BY <1>4 DEF Typed
  <2> QED BY <1>4, <1>1, <1>2, <1>3, <2>1 DEF handle_scancode
<1>5. CASE ~(sc \in Keys \ (Shifts \cup {"CAPS_LOCK"}) /\ ~release_next)
  <2>1. Typed(sc, release_next, shift_pressed, caps_lock) = <<>>
    BY <1>5 DEF Typed, scancode_to_ascii
  <2>2. UNCHANGED <<ring, owed>>
    BY <1>5 DEF handle_scancode
  <2> QED BY <1>1, <1>2, <1>3, <2>1, <2>2
<1> QED BY <1>4, <1>5

\* The wire without its first scancode: the decoder goes on from its second position.
LEMMA FlagsRunOn ==
    ASSUME wire \in Seq(Codes), wire # <<>>, wire' = Tail(wire), UNCHANGED <<Shifted, caps>>,
           NEW r, NEW s, NEW c, FlagsRun(r, s, c),
           handle_scancode(Head(wire)),
           NEW r1, r1 = [i \in 0 .. Len(wire) - 1 |-> r[i + 1]],
           NEW s1, s1 = [i \in 0 .. Len(wire) - 1 |-> s[i + 1]],
           NEW c1, c1 = [i \in 0 .. Len(wire) - 1 |-> c[i + 1]]
    PROVE  FlagsRun(r1, s1, c1)'
<1>1. /\ Len(wire) \in Nat \ {0} /\ Len(wire') = Len(wire) - 1
      /\ \A i \in 1 .. Len(wire) - 1 : wire'[i] = wire[i + 1]
      /\ Head(wire) = wire[1] /\ wire[1] \in Codes
  OBVIOUS
<1>2. release_next \in BOOLEAN /\ shift_pressed \in BOOLEAN /\ caps_lock \in BOOLEAN
  <2>1. 0 \in Positions
    BY <1>1 DEF Positions
  <2> QED BY <2>1 DEF FlagsRun
<1>3. /\ r[1] = release_next'
      /\ s[1] = shift_pressed'
      /\ c[1] = caps_lock'
  <2>1. /\ r[1] = (wire[1] = RELEASE)
        /\ s[1] = ShiftAfter(wire[1], release_next, shift_pressed)
        /\ c[1] = CapsAfter(wire[1], release_next, caps_lock)
    BY <1>1 DEF FlagsRun
  <2> QED BY <1>1, <1>2, <2>1, HandleScancode
<1>4. Positions' = 0 .. Len(wire) - 1
  BY <1>1 DEF Positions
<1>5. /\ r1 \in [Positions' -> BOOLEAN]
      /\ s1 \in [Positions' -> BOOLEAN]
      /\ c1 \in [Positions' -> BOOLEAN]
  BY <1>1, <1>4 DEF FlagsRun, Positions
<1>6. r1[0] = release_next' /\ s1[0] = shift_pressed' /\ c1[0] = caps_lock'
  BY <1>1, <1>3
<1>7. ASSUME NEW i \in 1 .. Len(wire')
      PROVE  /\ r1[i] = (wire'[i] = RELEASE)
             /\ s1[i] = ShiftAfter(wire'[i], r1[i - 1], s1[i - 1])
             /\ c1[i] = CapsAfter(wire'[i], r1[i - 1], c1[i - 1])
  <2>1. /\ i + 1 \in 1 .. Len(wire) /\ i \in 0 .. Len(wire) - 1 /\ i - 1 \in 0 .. Len(wire) - 1
        /\ wire'[i] = wire[i + 1]
        /\ (i - 1) + 1 = i /\ (i + 1) - 1 = i
    BY <1>1
  <2>2. /\ r[i + 1] = (wire[i + 1] = RELEASE)
        /\ s[i + 1] = ShiftAfter(wire[i + 1], r[i], s[i])
        /\ c[i + 1] = CapsAfter(wire[i + 1], r[i], c[i])
    BY <2>1 DEF FlagsRun
  <2> QED BY <2>1, <2>2
<1>8. /\ r1[Len(wire')] = FALSE
      /\ s1[Len(wire')] = Shifted'
      /\ c1[Len(wire')] = caps'
  BY <1>1 DEF FlagsRun
<1> QED BY <1>5, <1>6, <1>7, <1>8 DEF FlagsRun

\* The characters that are owed when the first scancode is handled: d is 1 if a character was
\* dropped because the ring was full, else 0.
LEMMA CharsRunOn ==
    ASSUME wire \in Seq(Codes), wire # <<>>, wire' = Tail(wire),
           owed \in Seq(Forms), owed' \in Seq(Forms),
           NEW r, NEW s, NEW c, NEW m, CharsRun(r, s, c, m), Used \in Nat,
           NEW r1, r1 = [i \in 0 .. Len(wire) - 1 |-> r[i + 1]],
           NEW s1, s1 = [i \in 0 .. Len(wire) - 1 |-> s[i + 1]],
           NEW c1, c1 = [i \in 0 .. Len(wire) - 1 |-> c[i + 1]],
           NEW d \in {0, 1}, d = 1 => m[1] = Used + 1,
           Used' = m[1] - d,
           Len(owed') = Len(owed) - d,
           \A j \in m[1] + 1 .. Len(owed) : owed'[j - d] = owed[j],
           NEW m1, m1 = [i \in 0 .. Len(wire) - 1 |-> m[i + 1] - d]
    PROVE  CharsRun(r1, s1, c1, m1)'
<1>1. /\ Len(wire) \in Nat \ {0} /\ Len(wire') = Len(wire) - 1
      /\ \A i \in 1 .. Len(wire) - 1 : wire'[i] = wire[i + 1]
      /\ Head(wire) = wire[1] /\ wire[1] \in Codes
  OBVIOUS
<1>2. /\ Positions' = 0 .. Len(wire) - 1
      /\ Positions = 0 .. Len(wire)
  BY <1>1 DEF Positions
<1>3. /\ m \in [0 .. Len(wire) -> Nat]
      /\ \A i, j \in 0 .. Len(wire) : i <= j => m[i] <= m[j]
      /\ m[Len(wire)] = Len(owed) /\ Len(owed) \in Nat
      /\ m[0] = Used
  BY <1>1, <1>2 DEF CharsRun
<1>4. \A i \in 1 .. Len(wire) : m[i] \in Nat /\ m[i] >= m[1] /\ m[i] <= Len(owed) /\ m[i] - d \in Nat
  <2> SUFFICES ASSUME NEW i \in 1 .. Len(wire)
               PROVE  m[i] \in Nat /\ m[i] >= m[1] /\ m[i] <= Len(owed) /\ m[i] - d \in Nat
    OBVIOUS
  <2>1. i \in 0 .. Len(wire) /\ 1 \in 0 .. Len(wire) /\ 1 <= i /\ i <= Len(wire)
        /\ Len(wire) \in 0 .. Len(wire)
    BY <1>1
  <2>2. m[i] \in Nat /\ m[1] \in Nat /\ m[i] >= m[1] /\ m[i] <= Len(owed)
    BY <1>3, <2>1
  <2> QED BY <2>2
<1>5. m1 \in [Positions' -> Nat]
  <2>1. ASSUME NEW i \in 0 .. Len(wire) - 1
        PROVE  m[i + 1] - d \in Nat
    BY <1>1, <1>4
  <2> QED BY <2>1, <1>2
<1>6. m1[0] = Used'
  BY <1>1
<1>7. ASSUME NEW i \in 1 .. Len(wire')
      PROVE  \/ /\ Typed(wire'[i], r1[i - 1], s1[i - 1], c1[i - 1]) = <<>>
                /\ m1[i] = m1[i - 1]
             \/ /\ m1[i] = m1[i - 1] + 1
                /\ Among(Typed(wire'[i], r1[i - 1], s1[i - 1], c1[i - 1]), owed'[m1[i]])
  <2>1. /\ i + 1 \in 1 .. Len(wire) /\ i \in 1 .. Len(wire)
        /\ i \in 0 .. Len(wire) - 1 /\ i - 1 \in 0 .. Len(wire) - 1
        /\ wire'[i] = wire[i + 1]
        /\ (i - 1) + 1 = i /\ (i + 1) - 1 = i
    BY <1>1
  <2>2. /\ r1[i - 1] = r[i] /\ s1[i - 1] = s[i] /\ c1[i - 1] = c[i]
        /\ m1[i] = m[i + 1] - d /\ m1[i - 1] = m[i] - d
    BY <2>1
  <2>3. /\ m[i] \in Nat /\ m[i] >= m[1]
        /\ m[i + 1] \in Nat /\ m[i + 1] <= Len(owed)
    BY <1>4, <2>1
  <2>4. CASE Typed(wire[i + 1], r[i], s[i], c[i]) = <<>> /\ m[i + 1] = m[i]
    BY <2>1, <2>2, <2>4
  <2>5. CASE m[i + 1] = m[i] + 1 /\ Among(Typed(wire[i + 1], r[i], s[i], c[i]), owed[m[i + 1]])
    <3>1. m[1] \in Nat
      BY <1>1, <1>4
    <3>2. m[i + 1] \in m[1] + 1 .. Len(owed)
      BY <2>3, <2>5, <1>3, <3>1
    <3>3. owed'[m1[i]] = owed[m[i + 1]]
      BY <3>2, <2>2
    <3>4. m1[i] = m1[i - 1] + 1
      BY <2>2, <2>3, <2>5
    <3> QED BY <2>1, <2>2, <2>5, <3>3, <3>4
  <2>6. \/ Typed(wire[i + 1], r[i], s[i], c[i]) = <<>> /\ m[i + 1] = m[i]
        \/ m[i + 1] = m[i] + 1 /\ Among(Typed(wire[i + 1], r[i], s[i], c[i]), owed[m[i + 1]])
    BY <2>1 DEF CharsRun
  <2> QED BY <2>4, <2>5, <2>6
<1>8. ASSUME NEW i \in Positions', NEW j \in Positions', i <= j
      PROVE  m1[i] <= m1[j]
  <2>1. /\ i + 1 \in 0 .. Len(wire) /\ j + 1 \in 0 .. Len(wire) /\ i + 1 <= j + 1
        /\ i + 1 \in 1 .. Len(wire) /\ j + 1 \in 1 .. Len(wire)
    BY <1>1, <1>2, <1>8
  <2>2. m[i + 1] <= m[j + 1] /\ m[i + 1] \in Nat /\ m[j + 1] \in Nat
    BY <2>1, <1>3
  <2>3. m1[i] = m[i + 1] - d /\ m1[j] = m[j + 1] - d
    BY <1>2
  <2> QED BY <2>2, <2>3
<1>9. m1[Len(wire')] = Len(owed')
  <2>1. Len(wire') \in 0 .. Len(wire) - 1 /\ Len(wire') + 1 = Len(wire)
    BY <1>1
  <2> QED BY <2>1, <1>3
<1> QED BY <1>5, <1>6, <1>7, <1>8, <1>9 DEF CharsRun

\* The keyboard interrupt, when it gets the lock.
LEMMA HandlerKeepsTyped ==
    ASSUME TypedInv, keyboard_handler, ~lock
    PROVE  TypedInv'
<1>0. /\ RingOK /\ wire \in Seq(Codes) /\ wire # <<>> /\ wire' = Tail(wire)
      /\ owed \in Seq(Forms)
      /\ handle_scancode(Head(wire)) /\ UNCHANGED <<down, halved, Shifted, caps>>
      /\ \A i \in 1 .. Used : Pending[i] \in owed[i]
  BY DEF TypedInv, keyboard_handler, Shifted
<1>1. RingOK'
  BY <1>0, StepOfQueue DEF Next
<1>2. /\ Len(wire) \in Nat \ {0}
      /\ Head(wire) = wire[1] /\ wire[1] \in Codes
      /\ wire' \in Seq(Codes)
  BY <1>0
<1>3. Used \in Nat /\ Len(Pending) = Used /\ Len(owed) \in Nat
  BY <1>0, UsedInRing, KeyboardAssumption DEF N
<1>4. PICK r, s, c, m : FlagsRun(r, s, c) /\ CharsRun(r, s, c, m)
  BY DEF TypedInv
<1>5. /\ r[0] = release_next /\ s[0] = shift_pressed /\ c[0] = caps_lock
      /\ release_next \in BOOLEAN /\ shift_pressed \in BOOLEAN /\ caps_lock \in BOOLEAN
  <2>1. 0 \in Positions
    BY <1>2 DEF Positions
  <2> QED BY <1>4, <2>1 DEF FlagsRun
<1>6. /\ m[0] = Used
      /\ m[1] \in Nat /\ m[1] <= Len(owed)
      /\ \/ Typed(wire[1], r[0], s[0], c[0]) = <<>> /\ m[1] = m[0]
         \/ m[1] = m[0] + 1 /\ Among(Typed(wire[1], r[0], s[0], c[0]), owed[m[1]])
  <2>1. 1 \in 1 .. Len(wire) /\ 1 \in Positions /\ Len(wire) \in Positions /\ 1 <= Len(wire)
    BY <1>2 DEF Positions
  <2> QED BY <1>4, <2>1 DEF CharsRun
<1> DEFINE r1 == [i \in 0 .. Len(wire) - 1 |-> r[i + 1]]
           s1 == [i \in 0 .. Len(wire) - 1 |-> s[i + 1]]
           c1 == [i \in 0 .. Len(wire) - 1 |-> c[i + 1]]
<1>7. \E rr, ss, cc : rr = r1 /\ ss = s1 /\ cc = c1 /\ FlagsRun(rr, ss, cc)'
  <2>1. PICK rr, ss, cc : rr = r1 /\ ss = s1 /\ cc = c1
    OBVIOUS
  <2>2. FlagsRun(rr, ss, cc)'
    BY <1>0, <1>4, <2>1, FlagsRunOn
  <2> QED BY <2>1, <2>2
<1>8. SUFFICES /\ owed' \in Seq(Forms)
               /\ \A i \in 1 .. Used' : Pending'[i] \in owed'[i]
               /\ \E d \in {0, 1} : /\ d = 1 => m[1] = Used + 1
                                    /\ Used' = m[1] - d
                                    /\ Len(owed') = Len(owed) - d
                                    /\ \A j \in m[1] + 1 .. Len(owed) : owed'[j - d] = owed[j]
  <2>1. PICK d \in {0, 1} : /\ d = 1 => m[1] = Used + 1
                            /\ Used' = m[1] - d
                            /\ Len(owed') = Len(owed) - d
                            /\ \A j \in m[1] + 1 .. Len(owed) : owed'[j - d] = owed[j]
    BY <1>8
  <2>2. PICK rr, ss, cc : rr = r1 /\ ss = s1 /\ cc = c1 /\ FlagsRun(rr, ss, cc)'
    BY <1>7
  <2>3. PICK mm : mm = [i \in 0 .. Len(wire) - 1 |-> m[i + 1] - d]
    OBVIOUS
  <2>4. CharsRun(rr, ss, cc, mm)'
    <3>1. /\ wire \in Seq(Codes) /\ wire # <<>> /\ wire' = Tail(wire)
          /\ owed \in Seq(Forms) /\ owed' \in Seq(Forms) /\ Used \in Nat
      BY <1>0, <1>3, <1>8
    <3>2. CharsRun(r, s, c, m)
      BY <1>4
    <3>3. /\ rr = [i \in 0 .. Len(wire) - 1 |-> r[i + 1]]
          /\ ss = [i \in 0 .. Len(wire) - 1 |-> s[i + 1]]
          /\ cc = [i \in 0 .. Len(wire) - 1 |-> c[i + 1]]
      BY <2>2
    <3> HIDE DEF r1, s1, c1
    <3> QED BY ONLY <2>1, <2>3, <3>1, <3>2, <3>3, d \in {0, 1}, CharsRunOn, ZenonT(60)
  <2>5. (\E a, b, e, f : FlagsRun(a, b, e) /\ CharsRun(a, b, e, f))'
    BY <2>2, <2>4
  <2>6. (halved \in BOOLEAN)' /\ (down \subseteq Shifts)'
    BY <1>0 DEF TypedInv
  <2> QED BY <1>1, <1>2, <1>8, <2>5, <2>6 DEF TypedInv
<1>9. CASE Typed(wire[1], r[0], s[0], c[0]) = <<>>
  <2>1. UNCHANGED <<ring, owed>>
    <3>1. ~\E ch : Typed(wire[1], release_next, shift_pressed, caps_lock) = <<ch>>
      BY <1>5, <1>9
    <3> QED BY <1>0, <1>2, <1>5, <3>1, HandleScancode
  <2>2. Pending' = Pending /\ Used' = Used
    BY <2>1, <1>0, RingUnchanged DEF Used, ring
  <2>3. m[1] = m[0]
    BY <1>6, <1>9 DEF Among
  <2>4. 0 \in {0, 1} /\ Used' = m[1] - 0 /\ Len(owed') = Len(owed) - 0
    BY <2>1, <2>2, <2>3, <1>6, <1>3
  <2>5. \A j \in m[1] + 1 .. Len(owed) : owed'[j - 0] = owed[j]
    BY <2>1, <1>3, <1>6
  <2> QED BY <2>1, <2>2, <2>4, <2>5, <1>0, <1>8
<1>10. CASE m[1] = m[0] + 1 /\ Among(Typed(wire[1], r[0], s[0], c[0]), owed[m[1]])
  <2>1. PICK ch \in Chars : /\ Typed(wire[1], r[0], s[0], c[0]) = <<ch>>
                            /\ push(ch)
                            /\ owed' = Forgive
    <3>1. Typed(wire[1], release_next, shift_pressed, caps_lock) # <<>>
      BY <1>5, <1>10 DEF Among
    <3> QED BY <1>0, <1>2, <1>5, <3>1, HandleScancode
  <2>2. ch \in owed[m[1]] /\ m[1] = Used + 1
    BY <2>1, <1>10, <1>6 DEF Among
  <2>3. Queue!Push(ch)
    BY <2>1, <1>0, PushAppends
  <2>4. CASE After(write_pos) = read_pos
    <3>1. UNCHANGED <<buffer, read_pos, write_pos>>
      BY <2>1, <2>4 DEF push
    <3>2. Pending' = Pending /\ Used' = Used
      BY <3>1 DEF Pending, Used, Slot
    <3>3. owed' = RemoveAt(owed, Used + 1)
      BY <2>1, <2>4, <1>3 DEF Forgive
    <3>4. owed' = [j \in 1 .. Len(owed) - 1 |-> IF j < Used + 1 THEN owed[j] ELSE owed[j + 1]]
      BY <3>3 DEF RemoveAt
    <3>5. Used + 1 <= Len(owed)
      BY <2>2, <1>6
    <3>6. ASSUME NEW j \in 1 .. Len(owed) - 1
          PROVE  owed'[j] \in Forms
      BY <3>4, <1>0, <1>3
    <3>7. owed' \in Seq(Forms) /\ Len(owed') = Len(owed) - 1
      <4>1. Len(owed) - 1 \in Nat
        BY <3>5, <1>3
      <4>2. owed' \in [1 .. Len(owed) - 1 -> Forms]
        BY <3>4, <3>6
      <4> QED BY <4>1, <4>2
    <3>8. \A i \in 1 .. Used' : Pending'[i] \in owed'[i]
      BY <3>2, <3>4, <3>5, <1>0, <1>3
    <3>9. \A j \in m[1] + 1 .. Len(owed) : owed'[j - 1] = owed[j]
      BY <3>4, <2>2, <1>3
    <3>10. 1 \in {0, 1} /\ Used' = m[1] - 1
      BY <3>2, <2>2, <1>3
    <3> QED BY <3>7, <3>8, <3>9, <3>10, <2>2, <1>8
  <2>5. CASE After(write_pos) # read_pos
    <3>1. owed' = owed
      BY <2>1, <2>5 DEF Forgive
    <3>4. Used' = Used + 1
      <4>1. write_pos' = After(write_pos) /\ read_pos' = read_pos
        BY <2>1, <2>5 DEF push
      <4> QED BY <4>1, <2>5, <1>0, AfterWraps, KeyboardAssumption DEF Used, RingOK, N
    <3>2. Pending' = Append(Pending, ch)
      <4>1. Pending' # Pending
        <5>1. Used' \in Nat
          BY <3>4, <1>3
        <5>2. Len(Pending') = Used'
          BY <5>1 DEF Pending
        <5> QED BY <3>4, <5>2, <1>3
      <4> QED BY <4>1, <2>3 DEF Queue!Push
    <3>3. /\ Len(Pending') = Used + 1
          /\ \A i \in 1 .. Used : Pending'[i] = Pending[i]
          /\ Pending'[Used + 1] = ch
      <4>1. Pending \in Seq(Chars \cup {Blank})
        BY <1>0, UsedInRing
      <4> QED BY <3>2, <4>1, <1>3
    <3>5. \A i \in 1 .. Used' : Pending'[i] \in owed'[i]
      BY <3>1, <3>3, <3>4, <2>2, <1>0, <1>3
    <3>6. 0 \in {0, 1} /\ Used' = m[1] - 0 /\ Len(owed') = Len(owed) - 0
      BY <3>1, <3>4, <2>2, <1>3
    <3>7. \A j \in m[1] + 1 .. Len(owed) : owed'[j - 0] = owed[j]
      BY <3>1, <1>3, <1>6
    <3> QED BY <3>1, <3>5, <3>6, <3>7, <1>0, <1>8
  <2> QED BY <2>4, <2>5
<1> QED BY <1>6, <1>9, <1>10

\* A step that touches neither the ring, the decoder nor the wire.
LEMMA TypedUnchanged ==
    ASSUME TypedInv, UNCHANGED <<ring, decoder, world, owed>>
    PROVE  TypedInv'
<1>1. RingOK' /\ Pending' = Pending /\ Used' = Used
  BY RingUnchanged DEF TypedInv, Used, ring
<1>2. PICK r, s, c, m : FlagsRun(r, s, c) /\ CharsRun(r, s, c, m)
  BY DEF TypedInv
<1>3. FlagsRun(r, s, c)'
  BY <1>2 DEF FlagsRun, Positions, decoder, world, Shifted
<1>4. CharsRun(r, s, c, m)'
  BY <1>1, <1>2 DEF CharsRun, Positions, world
<1>5. (\E a, b, e, f : FlagsRun(a, b, e) /\ CharsRun(a, b, e, f))'
  BY <1>3, <1>4
<1> QED BY <1>1, <1>5 DEF TypedInv, world

\* The reader takes a character: it is the first that is owed.
LEMMA ReadKeepsTyped ==
    ASSUME TypedInv, read_char
    PROVE  TypedInv'
<1>0. /\ RingOK /\ wire \in Seq(Codes) /\ owed \in Seq(Forms)
      /\ UNCHANGED <<decoder, wire, down, halved, Shifted, caps>>
      /\ \A i \in 1 .. Used : Pending[i] \in owed[i]
  BY DEF TypedInv, read_char, world, Shifted
<1>1. CASE is_empty
  <2>1. UNCHANGED <<ring, owed>>
    BY <1>1 DEF read_char
  <2> QED BY <1>0, <2>1, TypedUnchanged DEF world
<1>2. CASE ~is_empty
  <2>1. /\ read_pos' = After(read_pos) /\ UNCHANGED <<buffer, write_pos>>
        /\ owed' = Tail(owed)
    BY <1>2 DEF read_char
  <2>2. RingOK' /\ Queue!Pop
    BY <2>1, <1>0, <1>2, PopTakesHead
  <2>3. /\ Used \in Nat /\ Used >= 1 /\ Used' = Used - 1
    <3>1. Used \in Nat
      BY <1>0, UsedInRing, KeyboardAssumption DEF N
    <3>2. Used >= 1
      BY <1>0, <1>2, KeyboardAssumption DEF Used, RingOK, is_empty, N
    <3>3. Used' = Used - 1
      BY <2>1, <1>0, <1>2, AfterWraps, KeyboardAssumption DEF Used, RingOK, is_empty, N
    <3> QED BY <3>1, <3>2, <3>3
  <2>4. Len(Pending) = Used /\ Pending \in Seq(Chars \cup {Blank}) /\ Pending' = Tail(Pending)
    BY <2>2, <1>0, UsedInRing DEF Queue!Pop
  <2>5. PICK r, s, c, m : FlagsRun(r, s, c) /\ CharsRun(r, s, c, m)
    BY DEF TypedInv
  <2>6. FlagsRun(r, s, c)'
    BY <2>5, <1>0 DEF FlagsRun, Positions, decoder
  <2>7. /\ Len(wire) \in Nat /\ Len(owed) \in Nat /\ Positions' = Positions
        /\ Positions = 0 .. Len(wire)
    BY <1>0 DEF Positions
  <2>8. \A i \in Positions : m[i] \in Nat /\ m[i] >= Used /\ m[i] <= Len(owed)
    <3>1. 0 \in Positions /\ Len(wire) \in Positions /\ \A i \in Positions : 0 <= i /\ i <= Len(wire)
      BY <2>7
    <3> QED BY <3>1, <2>5 DEF CharsRun
  <2>9. Len(owed) >= 1
    <3>1. 0 \in Positions
      BY <2>7
    <3> QED BY <3>1, <2>3, <2>7, <2>8
  <2>10. /\ owed' \in Seq(Forms) /\ Len(owed') = Len(owed) - 1
         /\ \A j \in 2 .. Len(owed) : owed'[j - 1] = owed[j]
    BY <2>1, <2>9, <1>0
  <2>11. \A i \in 1 .. Used' : Pending'[i] \in owed'[i]
    <3> SUFFICES ASSUME NEW i \in 1 .. Used'
                 PROVE  Pending'[i] \in owed'[i]
      OBVIOUS
    <3>1. i + 1 \in 1 .. Used /\ i + 1 \in 2 .. Len(owed) /\ (i + 1) - 1 = i
      <4>1. 0 \in Positions
        BY <2>7
      <4> QED BY <4>1, <2>3, <2>7, <2>8
    <3>2. Pending'[i] = Pending[i + 1]
      BY <2>3, <2>4
    <3>3. owed'[i] = owed[i + 1]
      BY <3>1, <2>10
    <3> QED BY <3>1, <3>2, <3>3, <1>0
  <2>12. PICK m1 : m1 = [i \in Positions |-> m[i] - 1]
    OBVIOUS
  <2>13. CharsRun(r, s, c, m1)'
    <3>1. m1 \in [Positions' -> Nat] /\ m1[0] = Used'
      <4>1. ASSUME NEW i \in Positions
            PROVE  m[i] - 1 \in Nat
        BY <2>3, <2>8
      <4>2. 0 \in Positions /\ m[0] = Used
        BY <2>5, <2>7 DEF CharsRun
      <4> QED BY <4>1, <4>2, <2>3, <2>7, <2>12
    <3>2. ASSUME NEW i \in 1 .. Len(wire)
          PROVE  \/ /\ Typed(wire[i], r[i - 1], s[i - 1], c[i - 1]) = <<>>
                    /\ m1[i] = m1[i - 1]
                 \/ /\ m1[i] = m1[i - 1] + 1
                    /\ Among(Typed(wire[i], r[i - 1], s[i - 1], c[i - 1]), owed'[m1[i]])
      <4>1. i \in Positions /\ i - 1 \in Positions
        BY <2>7
      <4>2. m1[i] = m[i] - 1 /\ m1[i - 1] = m[i - 1] - 1
        BY <4>1, <2>12
      <4>3. m[i] \in Nat /\ m[i - 1] \in Nat /\ m[i] <= Len(owed) /\ m[i - 1] >= Used
        BY <4>1, <2>8
      <4>4. \/ /\ Typed(wire[i], r[i - 1], s[i - 1], c[i - 1]) = <<>>
               /\ m[i] = m[i - 1]
            \/ /\ m[i] = m[i - 1] + 1
               /\ Among(Typed(wire[i], r[i - 1], s[i - 1], c[i - 1]), owed[m[i]])
        BY <2>5 DEF CharsRun
      <4>5. CASE m[i] = m[i - 1] + 1
        <5>1. m[i] \in 2 .. Len(owed)
          BY <4>3, <4>5, <2>3, <2>7
        <5>2. owed'[m1[i]] = owed[m[i]]
          BY <5>1, <4>2, <2>10
        <5>3. m1[i] = m1[i - 1] + 1
          BY <4>2, <4>3, <4>5
        <5>4. m[i] # m[i - 1]
          BY <4>3, <4>5
        <5> QED BY <4>4, <5>2, <5>3, <5>4
      <4>6. CASE m[i] = m[i - 1]
        <5>1. m[i] # m[i - 1] + 1
          BY <4>3, <4>6
        <5> QED BY <4>4, <4>2, <4>6, <5>1
      <4> QED BY <4>4, <4>5, <4>6
    <3>3. ASSUME NEW i \in Positions, NEW j \in Positions, i <= j
          PROVE  m1[i] <= m1[j]
      <4>1. m[i] <= m[j] /\ m[i] \in Nat /\ m[j] \in Nat
        BY <3>3, <2>5 DEF CharsRun
      <4> QED BY <4>1, <2>12
    <3>4. m1[Len(wire)] = Len(owed')
      <4>1. Len(wire) \in Positions /\ m[Len(wire)] = Len(owed)
        BY <2>5, <2>7 DEF CharsRun
      <4> QED BY <4>1, <2>10, <2>12
    <3> QED BY <3>1, <3>2, <3>3, <3>4, <1>0, <2>7 DEF CharsRun
  <2>14. (\E a, b, e, f : FlagsRun(a, b, e) /\ CharsRun(a, b, e, f))'
    BY <2>6, <2>13
  <2> QED BY <1>0, <2>2, <2>10, <2>11, <2>14 DEF TypedInv
<1> QED BY <1>1, <1>2

\* What the decoder makes of a key is what was meant by it.
LEMMA TypedIsMeant ==
    ASSUME NEW k \in Keys, NEW s \in BOOLEAN, NEW c \in BOOLEAN
    PROVE  \/ Typed(k, FALSE, s, c) = <<>> /\ Meant(k, s, c) = {}
           \/ \E ch \in Chars : Typed(k, FALSE, s, c) = <<ch>> /\ Meant(k, s, c) = {ch}
<1> k # RELEASE
  BY KeyboardAssumption DEF RELEASE
<1>1. CASE k = "letter"
  <2>1. Typed(k, FALSE, s, c) = <<[key |-> k, upper |-> s # c]>>
    BY <1>1 DEF Typed, scancode_to_ascii
  <2>2. Meant(k, s, c) = {[key |-> k, upper |-> (s /\ ~c) \/ (~s /\ c)]}
    BY <1>1 DEF Meant
  <2>3. (s # c) = ((s /\ ~c) \/ (~s /\ c))
    OBVIOUS
  <2>4. [key |-> k, upper |-> (s /\ ~c) \/ (~s /\ c)] \in Chars
    BY <1>1 DEF Chars
  <2> QED BY <2>1, <2>2, <2>3, <2>4
<1>2. CASE k = "digit"
  <2>1. Typed(k, FALSE, s, c) = <<[key |-> k, upper |-> s]>>
    BY <1>2 DEF Typed, scancode_to_ascii
  <2>2. Meant(k, s, c) = {[key |-> k, upper |-> s \/ FALSE]}
    BY <1>2 DEF Meant
  <2>3. [key |-> k, upper |-> s] \in Chars
    BY <1>2 DEF Chars
  <2> QED BY <2>1, <2>2, <2>3
<1>3. CASE k = "enter"
  BY <1>3 DEF Typed, scancode_to_ascii, Meant, Newline, Chars
<1>4. CASE k \notin {"letter", "digit", "enter"}
  BY <1>4 DEF Typed, scancode_to_ascii, Meant
<1> QED BY <1>1, <1>2, <1>3, <1>4

\* A key is a character with shift if it is one without.
LEMMA MeantWithShift ==
    ASSUME NEW k, NEW s \in BOOLEAN, NEW c \in BOOLEAN
    PROVE  Meant(k, s, c) = {} <=> k \notin {"letter", "digit", "enter"}
BY DEF Meant

\* Where the decoder will stand is one of the states a press is judged by.
LEMMA TypedIsAcceptable ==
    ASSUME NEW k \in Keys, halved \in BOOLEAN, caps \in BOOLEAN
    PROVE  /\ Acceptable(k) \in Forms
           /\ \/ Typed(k, FALSE, Shifted, caps) = <<>> /\ Acceptable(k) = {}
              \/ Among(Typed(k, FALSE, Shifted, caps), Acceptable(k))
<1>1. Acceptable(k) \in Forms
  <2>1. Meant(k, down # {}, caps) \subseteq Chars /\ Meant(k, FALSE, caps) \subseteq Chars
    <3>1. (down # {}) \in BOOLEAN /\ FALSE \in BOOLEAN
      OBVIOUS
    <3>2. ASSUME NEW sh \in BOOLEAN
          PROVE  Meant(k, sh, caps) \subseteq Chars
      <4>1. Meant(k, sh, caps) = {} \/ \E ch \in Chars : Meant(k, sh, caps) = {ch}
        BY TypedIsMeant
      <4> QED BY <4>1
    <3> QED BY <3>1, <3>2
  <2> QED BY <2>1 DEF Acceptable, Forms
<1>2. CASE halved
  <2>1. Shifted = FALSE /\ Acceptable(k) = Meant(k, down # {}, caps) \cup Meant(k, FALSE, caps)
    BY <1>2 DEF Shifted, Acceptable
  <2>2. Meant(k, FALSE, caps) = {} => Meant(k, down # {}, caps) = {}
    BY MeantWithShift
  <2>3. \/ Typed(k, FALSE, FALSE, caps) = <<>> /\ Meant(k, FALSE, caps) = {}
        \/ \E ch \in Chars : Typed(k, FALSE, FALSE, caps) = <<ch>> /\ Meant(k, FALSE, caps) = {ch}
    BY TypedIsMeant
  <2> QED BY <1>1, <2>1, <2>2, <2>3 DEF Among
<1>3. CASE ~halved
  <2>1. Shifted = (down # {}) /\ Acceptable(k) = Meant(k, Shifted, caps) /\ Shifted \in BOOLEAN
    BY <1>3 DEF Shifted, Acceptable
  <2>2. \/ Typed(k, FALSE, Shifted, caps) = <<>> /\ Meant(k, Shifted, caps) = {}
        \/ \E ch \in Chars : /\ Typed(k, FALSE, Shifted, caps) = <<ch>>
                             /\ Meant(k, Shifted, caps) = {ch}
    <3>1. \A sh \in BOOLEAN :
             \/ Typed(k, FALSE, sh, caps) = <<>> /\ Meant(k, sh, caps) = {}
             \/ \E ch \in Chars : Typed(k, FALSE, sh, caps) = <<ch>> /\ Meant(k, sh, caps) = {ch}
      BY TypedIsMeant
    <3> QED BY <2>1, <3>1
  <2> QED BY <1>1, <2>1, <2>2 DEF Among
<1> QED BY <1>2, <1>3

\* A key is pressed: its scancode comes last on the wire, its character is owed last.
LEMMA PressKeepsTyped ==
    ASSUME TypedInv, NEW k \in Keys, press(k)
    PROVE  TypedInv'
<1> DEFINE n == Len(wire)
<1>0. /\ RingOK /\ wire \in Seq(Codes) /\ owed \in Seq(Forms) /\ n \in Nat
      /\ wire' = Append(wire, k)
      /\ owed' = IF Acceptable(k) = {} THEN owed ELSE Append(owed, Acceptable(k))
      /\ halved \in BOOLEAN /\ halved' \in BOOLEAN
      /\ Shifted' = (Shifted \/ k \in Shifts)
      /\ caps' = (caps # (k = "CAPS_LOCK"))
      /\ down' = down \cup ({k} \cap Shifts)
      /\ UNCHANGED <<ring, decoder>>
      /\ k # RELEASE /\ k \in Codes
  <2>1. k # RELEASE /\ k \in Codes
    BY KeyboardAssumption DEF Codes, RELEASE
  <2>2. Shifted' = (Shifted \/ k \in Shifts)
    BY DEF TypedInv, press, Shifted
  <2> QED BY <2>1, <2>2 DEF TypedInv, press
<1> HIDE DEF n
<1>1. RingOK' /\ Pending' = Pending /\ Used' = Used
  BY <1>0, RingUnchanged DEF Used, ring
<1>2. PICK r, s, c, m : FlagsRun(r, s, c) /\ CharsRun(r, s, c, m)
  BY DEF TypedInv
<1>3. /\ Len(wire') = n + 1 /\ wire'[n + 1] = k /\ wire' \in Seq(Codes)
      /\ \A i \in 1 .. n : wire'[i] = wire[i]
  BY <1>0 DEF n
<1>4. /\ Positions = 0 .. n /\ Positions' = 0 .. n + 1
      /\ 0 \in Positions /\ n \in Positions
  BY <1>0, <1>3 DEF Positions, n
<1>5. /\ r[n] = FALSE /\ s[n] = Shifted /\ c[n] = caps
      /\ Shifted \in BOOLEAN /\ caps \in BOOLEAN
  BY <1>2, <1>4 DEF FlagsRun, n
<1>6. PICK r1, s1, c1, m1 :
         /\ r1 = [i \in 0 .. n + 1 |-> IF i <= n THEN r[i] ELSE FALSE]
         /\ s1 = [i \in 0 .. n + 1 |-> IF i <= n THEN s[i] ELSE Shifted']
         /\ c1 = [i \in 0 .. n + 1 |-> IF i <= n THEN c[i] ELSE caps']
         /\ m1 = [i \in 0 .. n + 1 |-> IF i <= n THEN m[i] ELSE Len(owed')]
  OBVIOUS
<1>7. /\ \A i \in 0 .. n : r1[i] = r[i] /\ s1[i] = s[i] /\ c1[i] = c[i] /\ m1[i] = m[i]
      /\ r1[n + 1] = FALSE /\ s1[n + 1] = Shifted' /\ c1[n + 1] = caps' /\ m1[n + 1] = Len(owed')
  <2>1. /\ n + 1 \in 0 .. n + 1 /\ ~(n + 1 <= n)
        /\ \A i \in 0 .. n : i \in 0 .. n + 1 /\ i <= n
    BY <1>0
  <2>2. r1[n + 1] = FALSE /\ \A i \in 0 .. n : r1[i] = r[i]
    BY <2>1, <1>6
  <2>3. s1[n + 1] = Shifted' /\ \A i \in 0 .. n : s1[i] = s[i]
    BY <2>1, <1>6
  <2>4. c1[n + 1] = caps' /\ \A i \in 0 .. n : c1[i] = c[i]
    BY <2>1, <1>6
  <2>5. m1[n + 1] = Len(owed') /\ \A i \in 0 .. n : m1[i] = m[i]
    BY <2>1, <1>6
  <2> QED BY <2>2, <2>3, <2>4, <2>5
<1>8. FlagsRun(r1, s1, c1)'
  <2>1. r1 \in [Positions' -> BOOLEAN] /\ s1 \in [Positions' -> BOOLEAN] /\ c1 \in [Positions' -> BOOLEAN]
    <3>1. Shifted' \in BOOLEAN /\ caps' \in BOOLEAN
      BY <1>0
    <3>2. ASSUME NEW i \in 0 .. n + 1
          PROVE  /\ (IF i <= n THEN r[i] ELSE FALSE) \in BOOLEAN
                 /\ (IF i <= n THEN s[i] ELSE Shifted') \in BOOLEAN
                 /\ (IF i <= n THEN c[i] ELSE caps') \in BOOLEAN
      <4>1. i <= n => i \in Positions
        BY <1>0, <1>4
      <4> QED BY <4>1, <3>1, <1>2 DEF FlagsRun
    <3> QED BY <3>2, <1>4, <1>6
  <2>2. r1[0] = release_next' /\ s1[0] = shift_pressed' /\ c1[0] = caps_lock'
    BY <1>0, <1>2, <1>4, <1>7 DEF FlagsRun, decoder
  <2>3. ASSUME NEW i \in 1 .. n + 1
        PROVE  /\ r1[i] = (wire'[i] = RELEASE)
               /\ s1[i] = ShiftAfter(wire'[i], r1[i - 1], s1[i - 1])
               /\ c1[i] = CapsAfter(wire'[i], r1[i - 1], c1[i - 1])
    <3>1. CASE i \in 1 .. n
      <4>1. i \in 0 .. n /\ i - 1 \in 0 .. n
        BY <3>1, <1>0
      <4> QED BY <3>1, <4>1, <1>2, <1>3, <1>7 DEF FlagsRun, n
    <3>2. CASE i = n + 1
      <4>1. r1[i - 1] = FALSE /\ s1[i - 1] = Shifted /\ c1[i - 1] = caps /\ wire'[i] = k
        BY <3>2, <1>0, <1>3, <1>4, <1>5, <1>7
      <4>2. r1[i] = (wire'[i] = RELEASE)
        BY <3>2, <4>1, <1>0, <1>7
      <4>3. Shifted' = ShiftAfter(k, FALSE, Shifted)
        BY <1>0, <1>5 DEF ShiftAfter
      <4>4. caps' = CapsAfter(k, FALSE, caps)
        BY <1>0, <1>5 DEF CapsAfter
      <4> QED BY <3>2, <4>1, <4>2, <4>3, <4>4, <1>7
    <3>3. i \in 1 .. n \/ i = n + 1
      BY <1>0
    <3> QED BY <3>1, <3>2, <3>3
  <2> QED BY <2>1, <2>2, <2>3, <1>3, <1>7 DEF FlagsRun
<1>9. /\ owed' \in Seq(Forms) /\ Len(owed) \in Nat
      /\ \A j \in 1 .. Len(owed) : owed'[j] = owed[j]
      /\ \/ Typed(k, FALSE, Shifted, caps) = <<>> /\ Len(owed') = Len(owed)
         \/ /\ Len(owed') = Len(owed) + 1
            /\ Among(Typed(k, FALSE, Shifted, caps), owed'[Len(owed) + 1])
  <2>1. CASE Acceptable(k) = {}
    <3>1. owed' = owed
      BY <2>1, <1>0
    <3>2. Typed(k, FALSE, Shifted, caps) = <<>>
      BY <2>1, <1>0, <1>5, TypedIsAcceptable DEF Among
    <3>3. owed \in Seq(Forms) /\ Len(owed) \in Nat
      BY <1>0
    <3> QED BY <3>1, <3>2, <3>3
  <2>2. CASE Acceptable(k) # {}
    <3>1. owed' = Append(owed, Acceptable(k)) /\ Acceptable(k) \in Forms
      BY <2>2, <1>0, <1>5, TypedIsAcceptable
    <3>2. Among(Typed(k, FALSE, Shifted, caps), Acceptable(k))
      BY <2>2, <1>0, <1>5, TypedIsAcceptable
    <3>3. /\ owed' \in Seq(Forms) /\ Len(owed) \in Nat /\ Len(owed') = Len(owed) + 1
          /\ owed'[Len(owed) + 1] = Acceptable(k)
          /\ \A j \in 1 .. Len(owed) : owed'[j] = owed[j]
      <4>1. PICK e : e = Acceptable(k)
        OBVIOUS
      <4>2. owed \in Seq(Forms) /\ e \in Forms /\ owed' = Append(owed, e)
        BY <3>1, <4>1, <1>0
      <4>3. /\ owed' \in Seq(Forms) /\ Len(owed) \in Nat /\ Len(owed') = Len(owed) + 1
            /\ owed'[Len(owed) + 1] = e
            /\ \A j \in 1 .. Len(owed) : owed'[j] = owed[j]
        BY <4>2
      <4> QED BY <4>1, <4>3
    <3> QED BY <3>2, <3>3
  <2> QED BY <2>1, <2>2
<1>10. \A i \in 0 .. n : m[i] \in Nat /\ m[i] <= Len(owed)
  <2>1. \A i \in 0 .. n : i <= n
    BY <1>0
  <2> QED BY <2>1, <1>2, <1>4 DEF CharsRun, n
<1>11. \A i \in 1 .. Used' : Pending'[i] \in owed'[i]
  <2>1. Used \in Nat /\ Used <= Len(owed)
    BY <1>2, <1>4, <1>10 DEF CharsRun
  <2> QED BY <2>1, <1>1, <1>9 DEF TypedInv
<1>12. CharsRun(r1, s1, c1, m1)'
  <2>1. m1 \in [Positions' -> Nat] /\ m1[0] = Used'
    <3>1. Len(owed') \in Nat
      BY <1>9
    <3>2. m1 \in [Positions' -> Nat]
      BY <3>1, <1>0, <1>4, <1>6, <1>10
    <3>3. m1[0] = Used'
      BY <1>1, <1>2, <1>4, <1>7 DEF CharsRun
    <3> QED BY <3>2, <3>3
  <2>2. ASSUME NEW i \in 1 .. n + 1
        PROVE  \/ /\ Typed(wire'[i], r1[i - 1], s1[i - 1], c1[i - 1]) = <<>>
                  /\ m1[i] = m1[i - 1]
               \/ /\ m1[i] = m1[i - 1] + 1
                  /\ Among(Typed(wire'[i], r1[i - 1], s1[i - 1], c1[i - 1]), owed'[m1[i]])
    <3>1. CASE i \in 1 .. n
      <4>1. i \in 0 .. n /\ i - 1 \in 0 .. n
        BY <3>1, <1>0
      <4>2. /\ wire'[i] = wire[i] /\ r1[i - 1] = r[i - 1] /\ s1[i - 1] = s[i - 1]
            /\ c1[i - 1] = c[i - 1] /\ m1[i] = m[i] /\ m1[i - 1] = m[i - 1]
        BY <3>1, <4>1, <1>3, <1>7
      <4>3. \/ /\ Typed(wire[i], r[i - 1], s[i - 1], c[i - 1]) = <<>>
               /\ m[i] = m[i - 1]
            \/ /\ m[i] = m[i - 1] + 1
               /\ Among(Typed(wire[i], r[i - 1], s[i - 1], c[i - 1]), owed[m[i]])
        BY <3>1, <1>2 DEF CharsRun, n
      <4>4. m[i] = m[i - 1] + 1 => owed'[m[i]] = owed[m[i]]
        BY <4>1, <1>9, <1>10
      <4> QED BY <4>2, <4>3, <4>4
    <3>2. CASE i = n + 1
      <4>1. r1[i - 1] = FALSE /\ s1[i - 1] = Shifted /\ c1[i - 1] = caps /\ wire'[i] = k
        BY <3>2, <1>0, <1>3, <1>4, <1>5, <1>7
      <4>2. m1[i] = Len(owed') /\ m1[i - 1] = Len(owed)
        BY <3>2, <1>0, <1>2, <1>4, <1>7 DEF CharsRun, n
      <4>3. Typed(wire'[i], r1[i - 1], s1[i - 1], c1[i - 1]) = Typed(k, FALSE, Shifted, caps)
        BY <4>1
      <4> QED BY <4>2, <4>3, <1>9
    <3>3. i \in 1 .. n \/ i = n + 1
      BY <1>0
    <3> QED BY <3>1, <3>2, <3>3
  <2>3. ASSUME NEW i \in 0 .. n + 1, NEW j \in 0 .. n + 1, i <= j
        PROVE  m1[i] <= m1[j]
    <3>1. CASE j \in 0 .. n
      <4>1. i \in 0 .. n
        BY <3>1, <2>3, <1>0
      <4> QED BY <3>1, <4>1, <2>3, <1>2, <1>4, <1>7 DEF CharsRun
    <3>2. CASE j = n + 1 /\ i \in 0 .. n
      <4>1. m1[j] = Len(owed') /\ m1[i] = m[i] /\ m[i] \in Nat /\ m[i] <= Len(owed)
        BY <3>2, <1>7, <1>10
      <4>2. Len(owed) \in Nat /\ (Len(owed') = Len(owed) \/ Len(owed') = Len(owed) + 1)
        BY <1>9
      <4> QED BY <4>1, <4>2
    <3>3. CASE j = n + 1 /\ i = n + 1
      BY <3>3, <1>7, <1>9
    <3> QED BY <3>1, <3>2, <3>3, <1>0
  <2> QED BY <2>1, <2>2, <2>3, <1>3, <1>4, <1>7 DEF CharsRun
<1>13. (\E a, b, e, f : FlagsRun(a, b, e) /\ CharsRun(a, b, e, f))'
  BY <1>8, <1>12
<1>14. down' \subseteq Shifts /\ halved' \in BOOLEAN
  BY <1>0 DEF TypedInv
<1> QED BY <1>1, <1>3, <1>9, <1>11, <1>13, <1>14 DEF TypedInv

\* A key is released: two scancodes that pass no character on.
LEMMA ReleaseKeepsTyped ==
    ASSUME TypedInv, NEW k \in Keys, release(k)
    PROVE  TypedInv'
<1> DEFINE n == Len(wire)
<1>0. /\ RingOK /\ wire \in Seq(Codes) /\ owed \in Seq(Forms) /\ n \in Nat
      /\ wire' = wire \o <<RELEASE, k>>
      /\ Shifted' = (Shifted /\ k \notin Shifts)
      /\ down' = down \ {k}
      /\ UNCHANGED <<ring, decoder, caps, owed>>
      /\ k # RELEASE /\ k \in Codes /\ RELEASE \in Codes /\ RELEASE \notin Shifts
  <2>1. k # RELEASE /\ k \in Codes /\ RELEASE \in Codes /\ RELEASE \notin Shifts
    BY KeyboardAssumption DEF Codes, RELEASE, Shifts
  <2>2. RingOK /\ wire \in Seq(Codes) /\ owed \in Seq(Forms) /\ n \in Nat
    BY DEF TypedInv
  <2>3. UNCHANGED <<ring, decoder, caps, owed>>
    BY DEF release
  <2>4. Shifted' = (Shifted /\ k \notin Shifts)
    BY DEF TypedInv, release, Shifted
  <2> QED BY <2>1, <2>2, <2>3, <2>4 DEF release
<1> HIDE DEF n
<1>1. RingOK' /\ Pending' = Pending /\ Used' = Used
  BY <1>0, RingUnchanged DEF Used, ring
<1>2. PICK r, s, c, m : FlagsRun(r, s, c) /\ CharsRun(r, s, c, m)
  BY DEF TypedInv
<1>3. /\ Len(wire') = n + 2 /\ wire'[n + 1] = RELEASE /\ wire'[n + 2] = k /\ wire' \in Seq(Codes)
      /\ \A i \in 1 .. n : wire'[i] = wire[i]
  BY <1>0 DEF n
<1>4. /\ Positions = 0 .. n /\ Positions' = 0 .. n + 2
      /\ 0 \in Positions /\ n \in Positions
  BY <1>0, <1>3 DEF Positions, n
<1>5. /\ r[n] = FALSE /\ s[n] = Shifted /\ c[n] = caps /\ m[n] = Len(owed)
      /\ Shifted \in BOOLEAN /\ caps \in BOOLEAN
  BY <1>2, <1>4 DEF FlagsRun, CharsRun, n
<1>6. PICK r1, s1, c1, m1 :
         /\ r1 = [i \in 0 .. n + 2 |-> IF i <= n THEN r[i] ELSE i = n + 1]
         /\ s1 = [i \in 0 .. n + 2 |-> IF i <= n THEN s[i] ELSE IF i = n + 1 THEN Shifted ELSE Shifted']
         /\ c1 = [i \in 0 .. n + 2 |-> IF i <= n THEN c[i] ELSE caps]
         /\ m1 = [i \in 0 .. n + 2 |-> IF i <= n THEN m[i] ELSE Len(owed)]
  OBVIOUS
<1>7. /\ \A i \in 0 .. n : r1[i] = r[i] /\ s1[i] = s[i] /\ c1[i] = c[i] /\ m1[i] = m[i]
      /\ r1[n + 1] = TRUE /\ s1[n + 1] = Shifted /\ c1[n + 1] = caps /\ m1[n + 1] = Len(owed)
      /\ r1[n + 2] = FALSE /\ s1[n + 2] = Shifted' /\ c1[n + 2] = caps /\ m1[n + 2] = Len(owed)
  <2>1. /\ n + 1 \in 0 .. n + 2 /\ ~(n + 1 <= n)
        /\ n + 2 \in 0 .. n + 2 /\ ~(n + 2 <= n) /\ n + 2 # n + 1
        /\ \A i \in 0 .. n : i \in 0 .. n + 2 /\ i <= n
    BY <1>0
  <2>2. r1[n + 1] = TRUE /\ r1[n + 2] = FALSE /\ \A i \in 0 .. n : r1[i] = r[i]
    BY <2>1, <1>6
  <2>3. s1[n + 1] = Shifted /\ s1[n + 2] = Shifted' /\ \A i \in 0 .. n : s1[i] = s[i]
    BY <2>1, <1>6
  <2>4. c1[n + 1] = caps /\ c1[n + 2] = caps /\ \A i \in 0 .. n : c1[i] = c[i]
    BY <2>1, <1>6
  <2>5. m1[n + 1] = Len(owed) /\ m1[n + 2] = Len(owed) /\ \A i \in 0 .. n : m1[i] = m[i]
    BY <2>1, <1>6
  <2> QED BY <2>2, <2>3, <2>4, <2>5
<1>8. FlagsRun(r1, s1, c1)'
  <2>1. r1 \in [Positions' -> BOOLEAN] /\ s1 \in [Positions' -> BOOLEAN] /\ c1 \in [Positions' -> BOOLEAN]
    <3>1. Shifted' \in BOOLEAN /\ Shifted \in BOOLEAN /\ caps \in BOOLEAN
      BY <1>0, <1>5
    <3>2. ASSUME NEW i \in 0 .. n + 2
          PROVE  /\ (IF i <= n THEN r[i] ELSE i = n + 1) \in BOOLEAN
                 /\ (IF i <= n THEN s[i] ELSE IF i = n + 1 THEN Shifted ELSE Shifted') \in BOOLEAN
                 /\ (IF i <= n THEN c[i] ELSE caps) \in BOOLEAN
      <4>1. i <= n => i \in Positions
        BY <1>0, <1>4
      <4> QED BY <4>1, <3>1, <1>2 DEF FlagsRun
    <3> QED BY <3>2, <1>4, <1>6
  <2>2. r1[0] = release_next' /\ s1[0] = shift_pressed' /\ c1[0] = caps_lock'
    BY <1>0, <1>2, <1>4, <1>7 DEF FlagsRun, decoder
  <2>3. ASSUME NEW i \in 1 .. n + 2
        PROVE  /\ r1[i] = (wire'[i] = RELEASE)
               /\ s1[i] = ShiftAfter(wire'[i], r1[i - 1], s1[i - 1])
               /\ c1[i] = CapsAfter(wire'[i], r1[i - 1], c1[i - 1])
    <3>1. CASE i \in 1 .. n
      <4>1. i \in 0 .. n /\ i - 1 \in 0 .. n
        BY <3>1, <1>0
      <4> QED BY <3>1, <4>1, <1>2, <1>3, <1>7 DEF FlagsRun, n
    <3>2. CASE i = n + 1
      <4>1. r1[i - 1] = FALSE /\ s1[i - 1] = Shifted /\ c1[i - 1] = caps /\ wire'[i] = RELEASE
        <5>1. i - 1 = n
          BY <3>2, <1>0
        <5> QED BY <3>2, <5>1, <1>3, <1>4, <1>5, <1>7
      <4> QED BY <3>2, <4>1, <1>0, <1>7 DEF ShiftAfter, CapsAfter, RELEASE
    <3>3. CASE i = n + 2
      <4>1. r1[i - 1] = TRUE /\ s1[i - 1] = Shifted /\ c1[i - 1] = caps /\ wire'[i] = k
        <5>1. i - 1 = n + 1
          BY <3>3, <1>0
        <5> QED BY <5>1, <3>3, <1>3, <1>7
      <4>2. Shifted' = ShiftAfter(k, TRUE, Shifted)
        BY <1>0, <1>5 DEF ShiftAfter
      <4>3. caps = CapsAfter(k, TRUE, caps)
        BY DEF CapsAfter
      <4>4. r1[i] = FALSE /\ s1[i] = Shifted' /\ c1[i] = caps
        BY <3>3, <1>7
      <4>5. r1[i] = (wire'[i] = RELEASE)
        BY <4>1, <4>4, <1>0
      <4> QED BY <4>1, <4>2, <4>3, <4>4, <4>5
    <3>4. i \in 1 .. n \/ i = n + 1 \/ i = n + 2
      BY <1>0
    <3> QED BY <3>1, <3>2, <3>3, <3>4
  <2> QED BY <2>1, <2>2, <2>3, <1>0, <1>3, <1>7 DEF FlagsRun
<1>9. \A i \in 0 .. n : m[i] \in Nat /\ m[i] <= Len(owed)
  <2>1. \A i \in 0 .. n : i <= n
    BY <1>0
  <2> QED BY <2>1, <1>2, <1>4 DEF CharsRun, n
<1>10. CharsRun(r1, s1, c1, m1)'
  <2>0. Len(owed) \in Nat
    BY <1>0
  <2>1. m1 \in [Positions' -> Nat] /\ m1[0] = Used'
    <3>1. m1 \in [Positions' -> Nat]
      BY <2>0, <1>0, <1>4, <1>6, <1>9
    <3>2. m1[0] = Used'
      BY <1>1, <1>2, <1>4, <1>7 DEF CharsRun
    <3> QED BY <3>1, <3>2
  <2>2. ASSUME NEW i \in 1 .. n + 2
        PROVE  \/ /\ Typed(wire'[i], r1[i - 1], s1[i - 1], c1[i - 1]) = <<>>
                  /\ m1[i] = m1[i - 1]
               \/ /\ m1[i] = m1[i - 1] + 1
                  /\ Among(Typed(wire'[i], r1[i - 1], s1[i - 1], c1[i - 1]), owed[m1[i]])
    <3>1. CASE i \in 1 .. n
      <4>1. i \in 0 .. n /\ i - 1 \in 0 .. n
        BY <3>1, <1>0
      <4>2. /\ wire'[i] = wire[i] /\ r1[i - 1] = r[i - 1] /\ s1[i - 1] = s[i - 1]
            /\ c1[i - 1] = c[i - 1] /\ m1[i] = m[i] /\ m1[i - 1] = m[i - 1]
        BY <3>1, <4>1, <1>3, <1>7
      <4> QED BY <3>1, <4>2, <1>2 DEF CharsRun, n
    <3>2. CASE i = n + 1 \/ i = n + 2
      <4>1. wire'[i] = RELEASE \/ r1[i - 1] = TRUE
        <5>1. i = n + 2 => i - 1 = n + 1
          BY <1>0
        <5> QED BY <3>2, <5>1, <1>3, <1>7
      <4>2. Typed(wire'[i], r1[i - 1], s1[i - 1], c1[i - 1]) = <<>>
        BY <4>1 DEF Typed
      <4>3. m1[i] = Len(owed) /\ m1[i - 1] = Len(owed)
        <5>1. (i = n + 2 /\ i - 1 = n + 1) \/ (i = n + 1 /\ i - 1 = n)
          BY <3>2, <1>0
        <5> QED BY <5>1, <1>4, <1>5, <1>7
      <4> QED BY <4>2, <4>3
    <3>3. i \in 1 .. n \/ i = n + 1 \/ i = n + 2
      BY <1>0
    <3> QED BY <3>1, <3>2, <3>3
  <2>3. ASSUME NEW i \in 0 .. n + 2, NEW j \in 0 .. n + 2, i <= j
        PROVE  m1[i] <= m1[j]
    <3>1. CASE j \in 0 .. n
      <4>1. i \in 0 .. n
        BY <3>1, <2>3, <1>0
      <4> QED BY <3>1, <4>1, <2>3, <1>2, <1>4, <1>7 DEF CharsRun
    <3>2. CASE j \notin 0 .. n
      <4>1. m1[j] = Len(owed)
        BY <3>2, <1>0, <1>6
      <4>2. m1[i] <= Len(owed)
        BY <2>0, <1>0, <1>6, <1>9
      <4> QED BY <4>1, <4>2
    <3> QED BY <3>1, <3>2
  <2> QED BY <2>1, <2>2, <2>3, <1>0, <1>3, <1>4, <1>7 DEF CharsRun
<1>11. (\E a, b, e, f : FlagsRun(a, b, e) /\ CharsRun(a, b, e, f))'
  BY <1>8, <1>10
<1>12. down' \subseteq Shifts /\ halved' \in BOOLEAN
  BY DEF TypedInv, release
<1> QED BY <1>0, <1>1, <1>3, <1>11, <1>12 DEF TypedInv

LEMMA KeyInvInit ==
    ASSUME Init
    PROVE  KeyInv
<1>1. RingOK
  BY InitOfQueue
<1>2. Used = 0
  BY DEF Init, Used
<1>3. Len(wire) = 0 /\ Positions = 0 .. 0 /\ wire \in Seq(Codes) /\ owed \in Seq(Forms) /\ Len(owed) = 0
  BY DEF Init, Positions
<1>4. PICK r, m : r = [i \in 0 .. 0 |-> FALSE] /\ m = [i \in 0 .. 0 |-> 0]
  OBVIOUS
<1>5. FlagsRun(r, r, r)
  <2>1. 0 \in 0 .. 0 /\ 1 .. 0 = {} /\ r[0] = FALSE /\ r \in [0 .. 0 -> BOOLEAN]
    BY <1>4
  <2> QED BY <2>1, <1>3 DEF Init, FlagsRun, Shifted
<1>6. CharsRun(r, r, r, m)
  BY <1>2, <1>3, <1>4 DEF Init, CharsRun
<1>7. \E a, b, e, f : FlagsRun(a, b, e) /\ CharsRun(a, b, e, f)
  BY <1>5, <1>6
<1>8. halved \in BOOLEAN /\ down \subseteq Shifts
  BY DEF Init
<1>9. \A i \in 1 .. Used : Pending[i] \in owed[i]
  BY <1>2
<1> QED BY <1>1, <1>3, <1>7, <1>8, <1>9 DEF KeyInv, TypedInv

\* Every step keeps the run of the decoder over the wire, until an interrupt hangs.
LEMMA KeyInvStep ==
    ASSUME KeyInv, [Next]_vars
    PROVE  KeyInv'
<1>0. RingOK'
  BY StepOfQueue DEF KeyInv
<1> SUFFICES ASSUME ~stuck'
             PROVE  TypedInv'
  BY <1>0 DEF KeyInv
<1>1. ~stuck /\ TypedInv
  <2>1. ~stuck \/ UNCHANGED vars
    BY DEF Next, keyboard_handler, timer_handler, sys_read, lock_keyboard, has_input,
           hlt, read_char, sys_read_return, press, release, spinning, At
  <2>2. ~stuck
    BY <2>1 DEF vars
  <2> QED BY <2>2 DEF KeyInv
<1>2. CASE keyboard_handler
  <2>1. ~lock
    BY <1>2 DEF keyboard_handler
  <2> QED BY <1>1, <1>2, <2>1, HandlerKeepsTyped
<1>3. CASE read_char
  BY <1>1, <1>3, ReadKeepsTyped
<1>4. ASSUME NEW k \in Keys, press(k)
      PROVE  TypedInv'
  BY <1>1, <1>4, PressKeepsTyped
<1>5. ASSUME NEW k \in Keys, release(k)
      PROVE  TypedInv'
  BY <1>1, <1>5, ReleaseKeepsTyped
<1>6. CASE \/ timer_handler \/ lock_keyboard \/ has_input \/ hlt \/ sys_read_return \/ spinning
           \/ UNCHANGED vars \/ \E n \in 0 .. MaxRead : sys_read(n)
  <2>1. UNCHANGED <<ring, decoder, world, owed>>
    BY <1>6 DEF timer_handler, lock_keyboard, has_input, hlt, sys_read_return, spinning, sys_read, vars
  <2> QED BY <1>1, <2>1, TypedUnchanged
<1> QED BY <1>2, <1>3, <1>4, <1>5, <1>6 DEF Next

\* The decoder and the ring keep KeyInv.
THEOREM KeyInvariant == Spec => []KeyInv
<1>1. Init => KeyInv
  BY KeyInvInit
<1>2. KeyInv /\ [Next]_vars => KeyInv'
  BY KeyInvStep
<1> QED BY <1>1, <1>2, PTL DEF Spec

(***************************************************************************)
(* For every size of the ring and every way of typing, also while somebody *)
(* reads: what the decoder passes on is what was typed, in the order it    *)
(* was typed and in the form that the shifts held down and the caps lock   *)
(* ask for.  After one of two held shifts was let go it may also come out  *)
(* unshifted (handle_scancode, scancode_to_ascii, push, read_char).        *)
(***************************************************************************)
THEOREM KeysInOrder == Spec => []TypedInOrder
<1>1. KeyInv => TypedInOrder
  BY KeyInvImplies
<1> QED BY <1>1, KeyInvariant, PTL

(***************************************************************************)
(* Whatever is pressed and released in whatever order, the decoder is left *)
(* neither shifted nor waiting for a released key once no shift is held    *)
(* and the wire is empty (handle_scancode).                                *)
(***************************************************************************)
THEOREM ShiftIsReleased == Spec => []NoStuckShift
<1>1. KeyInv => NoStuckShift
  BY KeyInvImplies
<1> QED BY <1>1, KeyInvariant, PTL
=============================================================================
