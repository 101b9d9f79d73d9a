------------------------------ MODULE Keyboard ------------------------------
(***************************************************************************)
(* The keyboard driver (kernel/kernel/keyboard.c): the interrupt handler   *)
(* decodes scan codes, keeps the state of every key and fills a buffer     *)
(* that kmain empties while interrupts are on.                             *)
(*                                                                         *)
(* The keyboard itself is external: it sends the bytes of the keys that    *)
(* are pressed, held and released, one interrupt per byte.                 *)
(***************************************************************************)
EXTENDS Integers, Sequences, Bags, Functions

CONSTANTS
    translation_map, translation_mapE0,  \* scan code |-> key
    make, break,        \* external: key |-> bytes it sends
    BufferSize,         \* 1024
    MaxPresses,         \* bound: keys pressed and repeated
    ResetAnytime        \* kmain may reset while keys are pressed

ASSUME KeyboardAssumption ==
    /\ BufferSize \in Nat \ {0}
    /\ MaxPresses \in Nat
    /\ ResetAnytime \in BOOLEAN

KEY_NONE == 0
KEY_CAPS_LOCK == 68
KEY_LSHIFT == 69
KEY_LCTRL == 70
KEY_LALT == 72
KEY_RSHIFT == 73
KEY_RCTRL == 74
KEY_RALT == 76
KEY_SCROLL_LOCK == 92
KEY_PAUSE == 93
KEY_NUM_LOCK == 104

\* Bytes that are no prefix, with an entry in the table they are looked up in.
Codes == DOMAIN translation_map \ {224, 225, 240}
CodesE0 == DOMAIN translation_mapE0 \ {224, 225, 240}

\* Scan code set 2: a key sends its code when pressed, the code behind 240 when
\* released, each behind 224 if it is an extended key; Print Screen sends two
\* codes, Pause its release with its press.
ASSUME CodesAssumption ==
    /\ DOMAIN break = DOMAIN make
    /\ \A k \in DOMAIN make :
         \/ \E b \in Codes : /\ translation_map[b] = k
                             /\ make[k] = << b >> /\ break[k] = << 240, b >>
         \/ \E b \in CodesE0 : /\ make[k] = << 224, b >>
                               /\ break[k] = << 224, 240, b >>
         \/ \E b, c \in CodesE0 : /\ make[k] = << 224, b, 224, c >>
                                  /\ break[k] = << 224, 240, c, 224, 240, b >>
         \/ /\ make[k] = << 225, 20, 119, 225, 240, 20, 240, 119 >>
            /\ break[k] = << >>
    /\ \A b \in CodesE0 : translation_mapE0[b] # KEY_CAPS_LOCK

KEY_STATE_UP == 0
KEY_STATE_DOWN == 1
KEY_STATE_HELD == 2

Empty == 65535                    \* buffer_index of a buffer read to its end

\* The keys whose state a handler can read or write.
Keys == {KEY_NONE, KEY_CAPS_LOCK, KEY_LSHIFT, KEY_LCTRL, KEY_LALT, KEY_RSHIFT,
         KEY_RCTRL, KEY_RALT, KEY_SCROLL_LOCK, KEY_PAUSE, KEY_NUM_LOCK}
        \cup Range(translation_map) \cup Range(translation_mapE0)

VARIABLES
    key_states, buffer_index, key_buffer, state, status, last_caps_state,
    kmain,              \* where kmain is, and what it has read
    pending,            \* external: bytes of the key that are still to come
    held, repeating,    \* external: keys that are down, the last of them
    presses,
    unread              \* bag of the keys pushed that nobody has read

driver == <<key_states, state, status, last_caps_state>>
buffer == <<buffer_index, key_buffer, unread>>
hardware == <<pending, held, repeating, presses>>
vars == <<driver, buffer, kmain, hardware>>

Reading == [pc |-> "read", index |-> 0, key |-> KEY_NONE, last_state |-> 0]

Init == /\ key_states = [k \in Keys |-> KEY_STATE_UP]
        /\ buffer_index = 0
        /\ key_buffer = [i \in 0 .. BufferSize - 1 |-> KEY_NONE]
        /\ state = {}
        /\ status = {}
        /\ last_caps_state = KEY_STATE_UP
        /\ kmain = [Reading EXCEPT !.pc = "reset"]
        /\ pending = << >>
        /\ held = {}
        /\ repeating = KEY_NONE
        /\ presses = 0
        /\ unread = EmptyBag

-----------------------------------------------------------------------------
(* The keyboard.                                                           *)

Send(bytes) == /\ pending = << >>
               /\ pending' = bytes
               /\ UNCHANGED <<driver, buffer, kmain>>

\* Pause sends its release with its press.
Press(k) == /\ k \notin held
            /\ presses < MaxPresses
            /\ Send(make[k])
            /\ held' = IF break[k] = << >> THEN held ELSE held \cup {k}
            /\ repeating' = IF break[k] = << >> THEN KEY_NONE ELSE k
            /\ presses' = presses + 1

Repeat == /\ repeating # KEY_NONE
          /\ presses < MaxPresses
          /\ Send(make[repeating])
          /\ presses' = presses + 1
          /\ UNCHANGED <<held, repeating>>

Release(k) == /\ k \in held
              /\ Send(break[k])
              /\ held' = held \ {k}
              /\ repeating' = IF repeating = k THEN KEY_NONE ELSE repeating
              /\ UNCHANGED presses

-----------------------------------------------------------------------------
(* keyboard_isr.                                                           *)

\* A full buffer drops the key.
Push(k) ==
    LET at == IF buffer_index = Empty THEN 0 ELSE buffer_index
    IN  IF at >= BufferSize
        THEN UNCHANGED buffer
        ELSE /\ key_buffer' = [key_buffer EXCEPT ![at] = k]
             /\ buffer_index' = at + 1
             /\ unread' = unread (+) SetToBag({k})

\* keyboard_getKeyState compares the state, not the key, with KEY_PAUSE: its
\* branch for Pause is never taken.
KeyState(states, k) == states[k]

\* The flags after a key; a caps lock that has just gone down flips CAPS.
Lights(states) ==
    LET down(k) == KeyState(states, k) # KEY_STATE_UP
        flag(name, on) == IF on THEN {name} ELSE {}
    IN  flag("SCROLL_LOCK", down(KEY_SCROLL_LOCK))
        \cup flag("NUM_LOCK", down(KEY_NUM_LOCK))
        \cup flag("SHIFT", down(KEY_LSHIFT) \/ down(KEY_RSHIFT))
        \cup flag("CTRL", down(KEY_LCTRL) \/ down(KEY_RCTRL))
        \cup flag("ALT", down(KEY_LALT))
        \cup flag("ALTGR", down(KEY_RALT))

\* Mutated form: the previous state of the key is not looked at.
CapsFlipsAlways(states) == states[KEY_CAPS_LOCK] = KEY_STATE_DOWN

CapsFlips(states) == /\ KeyState(states, KEY_CAPS_LOCK) = KEY_STATE_DOWN
                     /\ last_caps_state = KEY_STATE_UP

\* Mutated form: an extended key leaves before the flags are computed.
StatusCheckRegular(states) ==
    /\ status' = IF "EXTENDED0" \in state THEN status
                 ELSE Lights(states)
                      \cup (IF CapsFlips(states) THEN {"CAPS"} \ status
                            ELSE {"CAPS"} \cap status)
    /\ last_caps_state' = states[KEY_CAPS_LOCK]

StatusCheck(states) ==
    /\ status' = Lights(states)
                 \cup (IF CapsFlips(states) THEN {"CAPS"} \ status
                       ELSE {"CAPS"} \cap status)
    /\ last_caps_state' = KeyState(states, KEY_CAPS_LOCK)

\* The state of a key after its code.
Pressed(k) ==
    IF KeyState(key_states, k) # KEY_STATE_DOWN THEN KEY_STATE_DOWN
    ELSE IF "BREAK" \in state THEN KEY_STATE_UP ELSE KEY_STATE_HELD

RegularKey(byte) ==
    LET k == IF "EXTENDED0" \in state THEN translation_mapE0[byte]
             ELSE translation_map[byte]
        states == [key_states EXCEPT ![k] = Pressed(k)]
    IN  /\ key_states' = states
        /\ IF states[k] # KEY_STATE_UP THEN Push(k) ELSE UNCHANGED buffer
        /\ state' = {}
        /\ StatusCheck(states)

\* Mutated form: the decoder stays in Pause.
EndOfPauseStays ==
    /\ Push(KEY_PAUSE)
    /\ key_states' = [key_states EXCEPT ![KEY_PAUSE] = KEY_STATE_DOWN]
    /\ UNCHANGED <<state, status, last_caps_state>>

EndOfPause == /\ Push(KEY_PAUSE)
              /\ key_states' = [key_states EXCEPT ![KEY_PAUSE] = KEY_STATE_DOWN]
              /\ state' = {}
              /\ UNCHANGED <<status, last_caps_state>>

\* A byte that only moves the decoder.
Decode(newState) == /\ state' = newState
                    /\ UNCHANGED <<key_states, status, last_caps_state, buffer>>

InPause == "PAUSE" \in state /\ state \cap {"EXTENDED1", "BREAK"} # {}

Extended0 == Decode(IF "EXTENDED0" \in state THEN {}
                    ELSE state \cup {"EXTENDED0"})

Extended1 == Decode(state \cup {IF "EXTENDED1" \in state THEN "PAUSE"
                                ELSE "EXTENDED1"})

Break == Decode(IF "BREAK" \in state /\ state \cap {"EXTENDED1", "PAUSE"} = {}
                THEN {} ELSE state \cup {"BREAK"})

Other(byte) ==
    \/ InPause /\ byte = 119 /\ EndOfPause
    \/ InPause /\ byte # 119 /\ Decode(state)
    \/ ~ InPause /\ state \cap {"EXTENDED1", "PAUSE"} # {} /\ Decode(state)
    \/ ~ InPause /\ state \cap {"EXTENDED1", "PAUSE"} = {} /\ RegularKey(byte)

keyboard_isr ==
    /\ pending # << >>
    /\ LET byte == Head(pending)
       IN  \/ byte = 224 /\ Extended0
           \/ byte = 225 /\ Extended1
           \/ byte = 240 /\ Break
           \/ byte \notin {224, 225, 240} /\ Other(byte)
    /\ pending' = Tail(pending)
    /\ UNCHANGED <<held, repeating, presses, kmain>>

-----------------------------------------------------------------------------
(* kmain.                                                                  *)

keyboard_resetState ==
    /\ kmain.pc = "reset"
    /\ ResetAnytime \/ (pending = << >> /\ held = {})
    /\ kmain' = Reading
    /\ buffer_index' = 0
    /\ key_buffer' = [key_buffer EXCEPT ![0] = KEY_NONE]
    /\ unread' = EmptyBag
    /\ key_states' = [k \in Keys |-> KEY_STATE_UP]
    /\ state' = {} /\ status' = {} /\ last_caps_state' = KEY_STATE_UP
    /\ UNCHANGED hardware

\* buffer_pop loads buffer_index, and stores it later: a key may come between.
Slot(index) == IF index = 0 THEN 0 ELSE index - 1

PopLoad == /\ kmain.pc = "read"
           /\ IF buffer_index = Empty
              THEN kmain' = [kmain EXCEPT !.pc = "echo", !.key = KEY_NONE]
              ELSE kmain' = [kmain EXCEPT !.pc = "pop", !.index = buffer_index,
                                          !.key = key_buffer[Slot(buffer_index)]]
           /\ UNCHANGED <<driver, buffer, hardware>>

\* Mutated form: the last key stays in the buffer.
AfterPopKeeps(index) == IF index = 0 THEN 0 ELSE index - 1

AfterPop(index) == IF index = 0 THEN Empty ELSE index - 1

\* The compiler may load the key before or after it stores the index.
PopStore == /\ kmain.pc = "pop"
            /\ buffer_index' = AfterPop(kmain.index)
            /\ \E k \in {kmain.key, key_buffer[Slot(kmain.index)]} :
                  /\ kmain' = [kmain EXCEPT !.pc = "echo", !.key = k]
                  /\ unread' = unread (-) SetToBag({k})
            /\ UNCHANGED <<driver, key_buffer, hardware>>

\* kmain prints the key if its state is not the one it has just seen.
Echo == /\ kmain.pc = "echo"
        /\ LET s == KeyState(key_states, kmain.key)
               new == kmain.key # KEY_NONE /\ s # kmain.last_state
           IN  kmain' = [Reading EXCEPT !.last_state = IF new THEN s ELSE 0]
        /\ UNCHANGED <<driver, buffer, hardware>>

-----------------------------------------------------------------------------
User == \/ \E k \in DOMAIN make : Press(k) \/ Release(k)
        \/ Repeat

Kmain == keyboard_resetState \/ PopLoad \/ PopStore \/ Echo

Next == User \/ keyboard_isr \/ Kmain

Spec == Init /\ [][Next]_vars

\* A byte that has been sent raises its interrupt; kmain is scheduled.
FairSpec == Spec /\ WF_vars(keyboard_isr) /\ WF_vars(Kmain)

-----------------------------------------------------------------------------
(* Properties.                                                             *)

TypeOK ==
    /\ key_states \in [Keys -> {KEY_STATE_UP, KEY_STATE_DOWN, KEY_STATE_HELD}]
    /\ buffer_index \in 0 .. BufferSize \cup {Empty}
    /\ key_buffer \in [0 .. BufferSize - 1 -> Keys]
    /\ state \subseteq {"BREAK", "EXTENDED0", "EXTENDED1", "PAUSE"}
    /\ kmain.index \in 0 .. BufferSize
    /\ BagToSet(unread) \subseteq Keys

\* The decoder never loses its place: when the keyboard has sent a whole key,
\* be it one byte or the eight of Pause, the next byte starts a new one.
DecoderInStep == pending = << >> => state = {}

\* So it is whatever keyboard_isr has done to the key states and the buffer, whose
\* index stays in its bounds.
DecoderSound == TypeOK /\ DecoderInStep

\* The flags are those of the keys, left or right, whichever key was last.
StatusTrue ==
    pending = << >> => status \ {"CAPS"} = Lights(key_states)

\* The code of caps lock is about to come from a key that is down, and the driver
\* has that key as UP.
CapsArrives == /\ pending = make[KEY_CAPS_LOCK] /\ state = {}
               /\ KEY_CAPS_LOCK \in held
               /\ key_states[KEY_CAPS_LOCK] = KEY_STATE_UP

\* CAPS flips when the code of caps lock comes while the driver has the key as UP,
\* and only then: the flip is not lost, and no repeated code, no release, no other
\* key and no half of a longer code makes one.
CapsOnPress ==
    [][kmain.pc # "reset" \/ kmain'.pc = "reset" =>
         (("CAPS" \in status') # ("CAPS" \in status)
            <=> CapsArrives /\ pending' = << >>)]_vars

\* A user expects every press of caps lock to flip CAPS, so the driver would have to
\* have the key as UP when it is pressed.
EveryPressFlips ==
    [][(KEY_CAPS_LOCK \in held' \ held) =>
         key_states[KEY_CAPS_LOCK] = KEY_STATE_UP]_vars

\* When nobody types, kmain reads the buffer to its end.
BufferIsRead == presses = MaxPresses /\ kmain.pc # "reset" ~> buffer_index = Empty

\* keyboard.h on keyboard_readKey: "The key from the buffer, or KEY_NONE if the
\* buffer is empty": what it returns has not been read before,
KeyReadOnce ==
    [][kmain.pc = "pop" /\ kmain'.pc = "echo" /\ kmain'.key # KEY_NONE
         => kmain'.key \in BagToSet(unread)]_vars

\* and KEY_NONE says that no key is left.
NoneMeansEmpty ==
    [][kmain.pc = "read" /\ kmain'.pc = "echo" => unread = EmptyBag]_vars

\* keyboard.h on keyboard_getKeyState: "The current state of the key specified".
ReleasedIsUp ==
    pending = << >> =>
       \A k \in DOMAIN make \ held : KeyState(key_states, k) = KEY_STATE_UP

PressedIsDown ==
    pending = << >> /\ kmain.pc # "reset" =>
       \A k \in held : KeyState(key_states, k) # KEY_STATE_UP

\* keyboard.c:93: "Pause is immediately released at press, so reflect that".
PauseReleased ==
    [][kmain.pc = "echo" /\ kmain'.pc = "read" /\ kmain.key = KEY_PAUSE
         => key_states'[KEY_PAUSE] = KEY_STATE_UP]_vars
=============================================================================
