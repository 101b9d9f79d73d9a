--------------------------- MODULE KeyboardProofs ---------------------------
(***************************************************************************)
(* The decoder of keyboard_isr, the flags and the types of the driver,     *)
(* proved for any translation tables, any keys of scan code set 2, any     *)
(* buffer and any number of presses.                                       *)
(***************************************************************************)
EXTENDS Keyboard, TLAPS

-----------------------------------------------------------------------------
(* The inductive invariant: what can still come in which state of the      *)
(* decoder.                                                                *)

PauseCodes == << 225, 20, 119, 225, 240, 20, 240, 119 >>

\* Nothing is on its way.
Between == pending = << >> /\ state = {}

\* A key of one code is.
InPlain ==
    \E b \in Codes : \/ pending = << b >> /\ state \in {{}, {"BREAK"}}
                     \/ pending = << 240, b >> /\ state = {}

\* An extended key is.
InExtended ==
    \E b \in CodesE0 :
        \/ pending = << 224, b >> /\ state = {}
        \/ pending = << 224, 240, b >> /\ state = {}
        \/ pending = << 240, b >> /\ state = {"EXTENDED0"}
        \/ /\ pending = << b >>
           /\ state \in {{"EXTENDED0"}, {"EXTENDED0", "BREAK"}}

\* The first half of a key of two extended codes is.
InDouble ==
    \E b, c \in CodesE0 :
        \/ pending = << 224, b, 224, c >> /\ state = {}
        \/ pending = << b, 224, c >> /\ state = {"EXTENDED0"}
        \/ pending = << 224, 240, b, 224, 240, c >> /\ state = {}
        \/ pending = << 240, b, 224, 240, c >> /\ state = {"EXTENDED0"}
        \/ pending = << b, 224, 240, c >> /\ state = {"EXTENDED0", "BREAK"}

\* Pause is.
InPauseKey ==
    \/ pending = PauseCodes /\ state = {}
    \/ /\ pending \in {<< 20, 119, 225, 240, 20, 240, 119 >>,
                       << 119, 225, 240, 20, 240, 119 >>,
                       << 225, 240, 20, 240, 119 >>}
       /\ state = {"EXTENDED1"}
    \/ pending = << 240, 20, 240, 119 >> /\ state = {"EXTENDED1", "PAUSE"}
    \/ /\ pending \in {<< 20, 240, 119 >>, << 240, 119 >>, << 119 >>}
       /\ state = {"EXTENDED1", "PAUSE", "BREAK"}

InPlace == Between \/ InPlain \/ InExtended \/ InDouble \/ InPauseKey

States == {KEY_STATE_UP, KEY_STATE_DOWN, KEY_STATE_HELD}

\* The locals of kmain's loop.
KmainOK == kmain \in [pc : {"reset", "read", "pop", "echo"},
                      index : 0 .. BufferSize, key : Keys, last_state : States]

\* The keys that are down are keys of the keyboard.
HeldOK == held \subseteq DOMAIN make /\ repeating \in held \cup {KEY_NONE}

IInv == TypeOK /\ KmainOK /\ HeldOK /\ InPlace

-----------------------------------------------------------------------------
(* Bytes, keys and bags.                                                   *)

\* What keyboard_isr takes and leaves of the keys a keyboard sends.
LEMMA Rests ==
  /\ \A a : Head(<< a >>) = a /\ Tail(<< a >>) = << >>
  /\ \A a, b : Head(<< a, b >>) = a /\ Tail(<< a, b >>) = << b >>
  /\ \A a, b, c : Head(<< a, b, c >>) = a /\ Tail(<< a, b, c >>) = << b, c >>
  /\ \A a, b, c, d : /\ Head(<< a, b, c, d >>) = a
                     /\ Tail(<< a, b, c, d >>) = << b, c, d >>
  /\ \A a, b, c, d, e : /\ Head(<< a, b, c, d, e >>) = a
                        /\ Tail(<< a, b, c, d, e >>) = << b, c, d, e >>
  /\ \A a, b, c, d, e, f :
        /\ Head(<< a, b, c, d, e, f >>) = a
        /\ Tail(<< a, b, c, d, e, f >>) = << b, c, d, e, f >>
  /\ \A a, b, c, d, e, f, g :
        /\ Head(<< a, b, c, d, e, f, g >>) = a
        /\ Tail(<< a, b, c, d, e, f, g >>) = << b, c, d, e, f, g >>
  /\ \A a, b, c, d, e, f, g, h :
        /\ Head(<< a, b, c, d, e, f, g, h >>) = a
        /\ Tail(<< a, b, c, d, e, f, g, h >>) = << b, c, d, e, f, g, h >>
OBVIOUS

\* A key more, and one less, of those nobody has read.
LEMMA UnreadKeys ==
  ASSUME NEW B, NEW k
  PROVE  /\ BagToSet(B (+) SetToBag({k})) = BagToSet(B) \cup {k}
         /\ BagToSet(B (-) SetToBag({k})) \subseteq BagToSet(B)
         /\ BagToSet(EmptyBag) = {}
BY DEF BagToSet, SetToBag, EmptyBag, (+), (-)

\* The codes are those of keys the driver knows.
LEMMA CodeKeys ==
  /\ \A b \in Codes : translation_map[b] \in Keys /\ b \notin {224, 225, 240}
  /\ \A b \in CodesE0 : /\ translation_mapE0[b] \in Keys
                       /\ b \notin {224, 225, 240}
BY DEF Codes, CodesE0, Keys, Range

-----------------------------------------------------------------------------
(* The decoder.                                                            *)

\* The state of the decoder after a byte.
LEMMA Moves ==
  ASSUME keyboard_isr
  PROVE  /\ Head(pending) = 224 =>
               state' = IF "EXTENDED0" \in state THEN {}
                        ELSE state \cup {"EXTENDED0"}
         /\ Head(pending) = 225 =>
               state' = state \cup {IF "EXTENDED1" \in state THEN "PAUSE"
                                    ELSE "EXTENDED1"}
         /\ Head(pending) = 240 =>
               state' = IF "BREAK" \in state
                           /\ state \cap {"EXTENDED1", "PAUSE"} = {}
                        THEN {} ELSE state \cup {"BREAK"}
         /\ Head(pending) \notin {224, 225, 240} =>
               state' = IF \/ InPause /\ Head(pending) # 119
                           \/ /\ ~ InPause
                              /\ state \cap {"EXTENDED1", "PAUSE"} # {}
                        THEN state ELSE {}
         /\ pending' = Tail(pending) /\ pending # << >>
<1> USE DEF keyboard_isr
<1>1. CASE Head(pending) \in {224, 225, 240}
  BY <1>1 DEF Extended0, Extended1, Break, Decode
<1>2. CASE Head(pending) \notin {224, 225, 240}
  <2>1. Other(Head(pending))
    BY <1>2
  <2>2. CASE InPause
    <3>1. state' = IF Head(pending) = 119 THEN {} ELSE state
      BY <2>1, <2>2 DEF Other, EndOfPause, Decode
    <3> QED
      BY <1>2, <2>2, <3>1
  <2>3. CASE ~ InPause
    BY <1>2, <2>1, <2>3 DEF Other, RegularKey, Decode
  <2> QED
    BY <2>2, <2>3
<1> QED
  BY <1>1, <1>2

\* Whatever part of a key has come, the next byte leaves a part of it.
LEMMA IsrInPlace ==
  ASSUME InPlace, keyboard_isr
  PROVE  InPlace'
<1>1. CASE InPlain
  <2>1. PICK b \in Codes : \/ pending = << b >> /\ state \in {{}, {"BREAK"}}
                           \/ pending = << 240, b >> /\ state = {}
    BY <1>1 DEF InPlain
  <2>2. CASE pending = << b >> /\ state \in {{}, {"BREAK"}}
    <3>1. Head(pending) = b /\ Tail(pending) = << >> /\ b \notin {224, 225, 240}
      BY <2>2, Rests, CodeKeys
    <3>2. pending' = << >> /\ state' = {}
      BY <2>2, <3>1, Moves DEF InPause
    <3> QED
      BY <3>2 DEF InPlace, Between
  <2>3. CASE pending = << 240, b >> /\ state = {}
    <3>1. Head(pending) = 240 /\ Tail(pending) = << b >>
      BY <2>3, Rests
    <3>2. pending' = << b >> /\ state' = {"BREAK"}
      BY <2>3, <3>1, Moves
    <3> QED
      BY <3>2 DEF InPlace, InPlain
  <2> QED
    BY <2>1, <2>2, <2>3
<1>2. CASE InExtended
  <2>1. PICK b \in CodesE0 :
           \/ pending = << 224, b >> /\ state = {}
           \/ pending = << 224, 240, b >> /\ state = {}
           \/ pending = << 240, b >> /\ state = {"EXTENDED0"}
           \/ /\ pending = << b >>
              /\ state \in {{"EXTENDED0"}, {"EXTENDED0", "BREAK"}}
    BY <1>2 DEF InExtended
  <2>2. CASE pending = << 224, b >> /\ state = {}
    <3>1. Head(pending) = 224 /\ Tail(pending) = << b >>
      BY <2>2, Rests
    <3>2. pending' = << b >> /\ state' = {"EXTENDED0"}
      BY <2>2, <3>1, Moves
    <3> QED
      BY <3>2 DEF InPlace, InExtended
  <2>3. CASE pending = << 224, 240, b >> /\ state = {}
    <3>1. Head(pending) = 224 /\ Tail(pending) = << 240, b >>
      BY <2>3, Rests
    <3>2. pending' = << 240, b >> /\ state' = {"EXTENDED0"}
      BY <2>3, <3>1, Moves
    <3> QED
      BY <3>2 DEF InPlace, InExtended
  <2>4. CASE pending = << 240, b >> /\ state = {"EXTENDED0"}
    <3>1. Head(pending) = 240 /\ Tail(pending) = << b >>
      BY <2>4, Rests
    <3>2. pending' = << b >> /\ state' = {"EXTENDED0", "BREAK"}
      BY <2>4, <3>1, Moves
    <3> QED
      BY <3>2 DEF InPlace, InExtended
  <2>5. CASE /\ pending = << b >>
             /\ state \in {{"EXTENDED0"}, {"EXTENDED0", "BREAK"}}
    <3>1. Head(pending) = b /\ Tail(pending) = << >> /\ b \notin {224, 225, 240}
      BY <2>5, Rests, CodeKeys
    <3>2. pending' = << >> /\ state' = {}
      BY <2>5, <3>1, Moves DEF InPause
    <3> QED
      BY <3>2 DEF InPlace, Between
  <2> QED
    BY <2>1, <2>2, <2>3, <2>4, <2>5
<1>3. CASE InDouble
  <2>1. PICK b \in CodesE0, c \in CodesE0 :
           \/ pending = << 224, b, 224, c >> /\ state = {}
           \/ pending = << b, 224, c >> /\ state = {"EXTENDED0"}
           \/ pending = << 224, 240, b, 224, 240, c >> /\ state = {}
           \/ pending = << 240, b, 224, 240, c >> /\ state = {"EXTENDED0"}
           \/ pending = << b, 224, 240, c >> /\ state = {"EXTENDED0", "BREAK"}
    BY <1>3 DEF InDouble
  <2>2. CASE pending = << 224, b, 224, c >> /\ state = {}
    <3>1. Head(pending) = 224 /\ Tail(pending) = << b, 224, c >>
      BY <2>2, Rests
    <3>2. pending' = << b, 224, c >> /\ state' = {"EXTENDED0"}
      BY <2>2, <3>1, Moves
    <3> QED
      BY <3>2 DEF InPlace, InDouble
  <2>3. CASE pending = << b, 224, c >> /\ state = {"EXTENDED0"}
    <3>1. /\ Head(pending) = b /\ Tail(pending) = << 224, c >>
          /\ b \notin {224, 225, 240}
      BY <2>3, Rests, CodeKeys
    <3>2. pending' = << 224, c >> /\ state' = {}
      BY <2>3, <3>1, Moves DEF InPause
    <3> QED
      BY <3>2 DEF InPlace, InExtended
  <2>4. CASE pending = << 224, 240, b, 224, 240, c >> /\ state = {}
    <3>1. Head(pending) = 224 /\ Tail(pending) = << 240, b, 224, 240, c >>
      BY <2>4, Rests
    <3>2. pending' = << 240, b, 224, 240, c >> /\ state' = {"EXTENDED0"}
      BY <2>4, <3>1, Moves
    <3> QED
      BY <3>2 DEF InPlace, InDouble
  <2>5. CASE pending = << 240, b, 224, 240, c >> /\ state = {"EXTENDED0"}
    <3>1. Head(pending) = 240 /\ Tail(pending) = << b, 224, 240, c >>
      BY <2>5, Rests
    <3>2. pending' = << b, 224, 240, c >> /\ state' = {"EXTENDED0", "BREAK"}
      BY <2>5, <3>1, Moves
    <3> QED
      BY <3>2 DEF InPlace, InDouble
  <2>6. CASE pending = << b, 224, 240, c >> /\ state = {"EXTENDED0", "BREAK"}
    <3>1. /\ Head(pending) = b /\ Tail(pending) = << 224, 240, c >>
          /\ b \notin {224, 225, 240}
      BY <2>6, Rests, CodeKeys
    <3>2. pending' = << 224, 240, c >> /\ state' = {}
      BY <2>6, <3>1, Moves DEF InPause
    <3> QED
      BY <3>2 DEF InPlace, InExtended
  <2> QED
    BY <2>1, <2>2, <2>3, <2>4, <2>5, <2>6
<1>4. CASE InPauseKey
  <2>1. CASE pending = PauseCodes /\ state = {}
    <3>1. /\ Head(pending) = 225
          /\ Tail(pending) = << 20, 119, 225, 240, 20, 240, 119 >>
      BY <2>1, Rests DEF PauseCodes
    <3>2. state' = {"EXTENDED1"}
      BY <2>1, <3>1, Moves
    <3> QED
      BY <3>1, <3>2, Moves DEF InPlace, InPauseKey
  <2>2. CASE /\ pending = << 20, 119, 225, 240, 20, 240, 119 >>
             /\ state = {"EXTENDED1"}
    <3>1. /\ Head(pending) = 20
          /\ Tail(pending) = << 119, 225, 240, 20, 240, 119 >>
      BY <2>2, Rests
    <3>2. state' = {"EXTENDED1"}
      BY <2>2, <3>1, Moves DEF InPause
    <3> QED
      BY <3>1, <3>2, Moves DEF InPlace, InPauseKey
  <2>3. CASE /\ pending = << 119, 225, 240, 20, 240, 119 >>
             /\ state = {"EXTENDED1"}
    <3>1. /\ Head(pending) = 119
          /\ Tail(pending) = << 225, 240, 20, 240, 119 >>
      BY <2>3, Rests
    <3>2. state' = {"EXTENDED1"}
      BY <2>3, <3>1, Moves DEF InPause
    <3> QED
      BY <3>1, <3>2, Moves DEF InPlace, InPauseKey
  <2>4. CASE pending = << 225, 240, 20, 240, 119 >> /\ state = {"EXTENDED1"}
    <3>1. Head(pending) = 225 /\ Tail(pending) = << 240, 20, 240, 119 >>
      BY <2>4, Rests
    <3>2. state' = {"EXTENDED1", "PAUSE"}
      BY <2>4, <3>1, Moves
    <3> QED
      BY <3>1, <3>2, Moves DEF InPlace, InPauseKey
  <2>5. CASE /\ pending = << 240, 20, 240, 119 >>
             /\ state = {"EXTENDED1", "PAUSE"}
    <3>1. Head(pending) = 240 /\ Tail(pending) = << 20, 240, 119 >>
      BY <2>5, Rests
    <3>2. state' = {"EXTENDED1", "PAUSE", "BREAK"}
      BY <2>5, <3>1, Moves
    <3> QED
      BY <3>1, <3>2, Moves DEF InPlace, InPauseKey
  <2>6. CASE /\ pending = << 20, 240, 119 >>
             /\ state = {"EXTENDED1", "PAUSE", "BREAK"}
    <3>1. Head(pending) = 20 /\ Tail(pending) = << 240, 119 >>
      BY <2>6, Rests
    <3>2. state' = {"EXTENDED1", "PAUSE", "BREAK"}
      BY <2>6, <3>1, Moves DEF InPause
    <3> QED
      BY <3>1, <3>2, Moves DEF InPlace, InPauseKey
  <2>7. CASE /\ pending = << 240, 119 >>
             /\ state = {"EXTENDED1", "PAUSE", "BREAK"}
    <3>1. Head(pending) = 240 /\ Tail(pending) = << 119 >>
      BY <2>7, Rests
    <3>2. state' = {"EXTENDED1", "PAUSE", "BREAK"}
      BY <2>7, <3>1, Moves
    <3> QED
      BY <3>1, <3>2, Moves DEF InPlace, InPauseKey
  <2>8. CASE /\ pending = << 119 >>
             /\ state = {"EXTENDED1", "PAUSE", "BREAK"}
    <3>1. Head(pending) = 119 /\ Tail(pending) = << >>
      BY <2>8, Rests
    <3>2. state' = {}
      BY <2>8, <3>1, Moves DEF InPause
    <3> QED
      BY <3>1, <3>2, Moves DEF InPlace, Between
  <2> QED
    BY <1>4, <2>1, <2>2, <2>3, <2>4, <2>5, <2>6, <2>7, <2>8 DEF InPauseKey
<1>5. ~ Between
  BY DEF Between, keyboard_isr
<1> QED
  BY <1>1, <1>2, <1>3, <1>4, <1>5 DEF InPlace

\* A key that is pressed, held or released starts a new one.
LEMMA SendInPlace ==
  ASSUME InPlace, NEW k \in DOMAIN make,
         Send(make[k]) \/ Send(break[k])
  PROVE  InPlace'
<1>1. pending = << >> /\ state' = state
  BY DEF Send, driver
<1>2. state = {}
  BY <1>1, Rests DEF InPlace, Between, InPlain, InExtended, InDouble,
     InPauseKey, PauseCodes
<1>3. pending' \in {make[k], break[k]}
  BY DEF Send
<1>4. CASE \E b \in Codes : /\ translation_map[b] = k
                            /\ make[k] = << b >> /\ break[k] = << 240, b >>
  BY <1>1, <1>2, <1>3, <1>4 DEF InPlace, InPlain
<1>5. CASE \E b \in CodesE0 : /\ make[k] = << 224, b >>
                              /\ break[k] = << 224, 240, b >>
  BY <1>1, <1>2, <1>3, <1>5 DEF InPlace, InExtended
<1>6. CASE \E b, c \in CodesE0 : /\ make[k] = << 224, b, 224, c >>
                                 /\ break[k] = << 224, 240, c, 224, 240, b >>
  BY <1>1, <1>2, <1>3, <1>6 DEF InPlace, InDouble
<1>7. CASE /\ make[k] = << 225, 20, 119, 225, 240, 20, 240, 119 >>
           /\ break[k] = << >>
  BY <1>1, <1>2, <1>3, <1>7 DEF InPlace, InPauseKey, PauseCodes, Between
<1> QED
  BY <1>4, <1>5, <1>6, <1>7, CodesAssumption

-----------------------------------------------------------------------------
(* Types.                                                                  *)

\* A byte that is looked up in a table has an entry there.
LEMMA LookedUp ==
  ASSUME InPlace, pending # << >>, Head(pending) \notin {224, 225, 240},
         state \cap {"EXTENDED1", "PAUSE"} = {}
  PROVE  Head(pending) \in IF "EXTENDED0" \in state THEN CodesE0 ELSE Codes
<1>1. CASE InPlain
  BY <1>1, Rests DEF InPlain
<1>2. CASE InExtended
  BY <1>2, Rests DEF InExtended
<1>3. CASE InDouble
  BY <1>3, Rests DEF InDouble
<1>4. CASE InPauseKey
  BY <1>4, Rests DEF InPauseKey, PauseCodes
<1> QED
  BY <1>1, <1>2, <1>3, <1>4 DEF InPlace, Between

\* The key RegularKey decodes.
KeyOf(byte) == IF "EXTENDED0" \in state THEN translation_mapE0[byte]
               ELSE translation_map[byte]

LEMMA KeyOfIsKey ==
  ASSUME InPlace, pending # << >>, Head(pending) \notin {224, 225, 240},
         state \cap {"EXTENDED1", "PAUSE"} = {}
  PROVE  KeyOf(Head(pending)) \in Keys
BY LookedUp, CodeKeys DEF KeyOf

\* The ways an interrupt changes the driver: a key, the end of Pause, or only
\* the decoder.
LEMMA IsrEffects ==
  ASSUME IInv, keyboard_isr
  PROVE  \/ \E k \in Keys, s \in States :
              /\ key_states' = [key_states EXCEPT ![k] = s]
              /\ StatusCheck(key_states') /\ (Push(k) \/ UNCHANGED buffer)
              /\ Head(pending) \notin {224, 225, 240}
              /\ state \cap {"EXTENDED1", "PAUSE"} = {}
              /\ k = KeyOf(Head(pending)) /\ s = Pressed(k)
         \/ /\ key_states' = [key_states EXCEPT ![KEY_PAUSE] = KEY_STATE_DOWN]
            /\ Push(KEY_PAUSE) /\ UNCHANGED <<status, last_caps_state>>
         \/ UNCHANGED <<key_states, status, last_caps_state, buffer>>
<1> DEFINE byte == Head(pending)
<1>1. CASE byte \in {224, 225, 240}
  BY <1>1 DEF keyboard_isr, Extended0, Extended1, Break, Decode
<1>2. CASE byte \notin {224, 225, 240}
  <2>1. Other(byte) /\ pending # << >>
    BY <1>2 DEF keyboard_isr
  <2>2. CASE EndOfPause
    BY <2>2 DEF EndOfPause
  <2>3. CASE Decode(state)
    BY <2>3 DEF Decode
  <2>4. CASE RegularKey(byte) /\ state \cap {"EXTENDED1", "PAUSE"} = {}
    <3>1. KeyOf(byte) \in Keys
      BY <1>2, <2>1, <2>4, KeyOfIsKey DEF IInv
    <3>2. Pressed(KeyOf(byte)) \in States
      BY DEF Pressed, States
    <3>3. /\ key_states' = [key_states EXCEPT ![KeyOf(byte)]
                                                 = Pressed(KeyOf(byte))]
          /\ Push(KeyOf(byte)) \/ UNCHANGED buffer
          /\ StatusCheck(key_states')
      BY <2>4 DEF RegularKey, KeyOf
    <3> HIDE DEF byte
    <3> QED
      BY <1>2, <2>4, <3>1, <3>2, <3>3 DEF byte
  <2> QED
    BY <2>1, <2>2, <2>3, <2>4 DEF Other
<1> QED
  BY <1>1, <1>2

\* A key fits into the buffer, or is dropped.
LEMMA PushTypes ==
  ASSUME TypeOK, NEW k \in Keys, Push(k)
  PROVE  /\ buffer_index' \in 0 .. BufferSize \cup {Empty}
         /\ key_buffer' \in [0 .. BufferSize - 1 -> Keys]
         /\ BagToSet(unread') \subseteq Keys
<1> DEFINE at == IF buffer_index = Empty THEN 0 ELSE buffer_index
<1> USE KeyboardAssumption
<1>1. at \in 0 .. BufferSize
  BY DEF TypeOK
<1>2. CASE at >= BufferSize
  BY <1>2 DEF Push, buffer, TypeOK
<1>3. CASE at < BufferSize
  <2>1. /\ key_buffer' = [key_buffer EXCEPT ![at] = k]
        /\ buffer_index' = at + 1
        /\ unread' = unread (+) SetToBag({k})
    BY <1>1, <1>3 DEF Push
  <2>2. at + 1 \in 0 .. BufferSize
    BY <1>1, <1>3
  <2>3. BagToSet(unread') \subseteq Keys
    <3>1. BagToSet(unread) \subseteq Keys
      BY DEF TypeOK
    <3>2. BagToSet(unread (+) SetToBag({k})) = BagToSet(unread) \cup {k}
      BY UnreadKeys
    <3> QED
      BY <2>1, <3>1, <3>2
  <2> HIDE DEF at
  <2> QED
    BY <2>1, <2>2, <2>3 DEF TypeOK
<1> QED
  BY <1>1, <1>2, <1>3

\* The interrupt handler.
LEMMA IsrIInv ==
  ASSUME IInv, keyboard_isr
  PROVE  IInv'
<1>1. TypeOK /\ KEY_PAUSE \in Keys /\ KEY_STATE_DOWN \in States
  BY DEF IInv, Keys, States
<1>2. InPlace'
  BY IsrInPlace DEF IInv
<1>3. KmainOK' /\ HeldOK'
  BY DEF keyboard_isr, IInv, KmainOK, HeldOK
<1>4. state' \subseteq {"BREAK", "EXTENDED0", "EXTENDED1", "PAUSE"}
  BY <1>2 DEF InPlace, Between, InPlain, InExtended, InDouble, InPauseKey
<1>5. kmain'.index \in 0 .. BufferSize
  BY <1>1 DEF keyboard_isr, TypeOK
<1>6. /\ key_states' \in [Keys -> States]
      /\ \/ \E k \in Keys : Push(k)
         \/ UNCHANGED buffer
  <2>1. key_states \in [Keys -> States]
    BY <1>1 DEF TypeOK, States
  <2> QED
    BY <1>1, <2>1, IsrEffects
<1>7. /\ buffer_index' \in 0 .. BufferSize \cup {Empty}
      /\ key_buffer' \in [0 .. BufferSize - 1 -> Keys]
      /\ BagToSet(unread') \subseteq Keys
  <2>1. CASE \E k \in Keys : Push(k)
    BY <1>1, <2>1, PushTypes
  <2>2. CASE UNCHANGED buffer
    BY <1>1, <2>2 DEF buffer, TypeOK
  <2> QED
    BY <1>6, <2>1, <2>2
<1>8. TypeOK'
  BY <1>4, <1>5, <1>6, <1>7 DEF TypeOK, States
<1> QED
  BY <1>2, <1>3, <1>8 DEF IInv

\* The keyboard.
LEMMA UserIInv ==
  ASSUME IInv, User
  PROVE  IInv'
<1>1. PICK k \in DOMAIN make : /\ Send(make[k]) \/ Send(break[k])
                               /\ HeldOK'
  <2>1. ASSUME NEW k \in DOMAIN make, Press(k)
        PROVE  Send(make[k]) /\ HeldOK'
    BY <2>1 DEF Press, IInv, HeldOK
  <2>2. ASSUME NEW k \in DOMAIN make, Release(k)
        PROVE  Send(break[k]) /\ HeldOK'
    BY <2>2 DEF Release, IInv, HeldOK
  <2>3. CASE Repeat
    BY <2>3 DEF Repeat, IInv, HeldOK
  <2> QED
    BY <2>1, <2>2, <2>3 DEF User
<1>2. InPlace'
  BY <1>1, SendInPlace DEF IInv
<1>3. UNCHANGED <<driver, buffer, kmain>>
  BY <1>1 DEF Send
<1> QED
  BY <1>1, <1>2, <1>3 DEF IInv, TypeOK, KmainOK, driver, buffer

\* kmain.
LEMMA KmainIInv ==
  ASSUME ~ ResetAnytime, IInv, Kmain
  PROVE  IInv'
<1> USE KeyboardAssumption DEF IInv
<1>1. KEY_NONE \in Keys /\ Reading \in [pc : {"read"}, index : 0 .. BufferSize,
                                        key : Keys, last_state : States]
  BY DEF Keys, Reading, States, KEY_STATE_UP
<1>2. CASE keyboard_resetState
  <2>1. TypeOK'
    <3>1. key_buffer' \in [0 .. BufferSize - 1 -> Keys]
      BY <1>1, <1>2 DEF keyboard_resetState, TypeOK
    <3>2. BagToSet(unread') \subseteq Keys
      BY <1>2, UnreadKeys DEF keyboard_resetState
    <3>3. kmain'.index \in 0 .. BufferSize
      BY <1>1, <1>2 DEF keyboard_resetState
    <3>4. /\ buffer_index' \in 0 .. BufferSize \cup {Empty}
          /\ key_states' \in [Keys -> {KEY_STATE_UP, KEY_STATE_DOWN,
                                       KEY_STATE_HELD}]
          /\ state' = {}
      BY <1>2 DEF keyboard_resetState
    <3> QED
      BY <3>1, <3>2, <3>3, <3>4 DEF TypeOK
  <2>2. KmainOK' /\ HeldOK'
    BY <1>1, <1>2 DEF keyboard_resetState, KmainOK, HeldOK, hardware
  <2>3. InPlace'
    BY <1>2 DEF keyboard_resetState, hardware, InPlace, Between
  <2> QED
    BY <2>1, <2>2, <2>3
<1>3. CASE PopLoad
  <2>1. KmainOK'
    <3>1. CASE buffer_index = Empty
      BY <1>1, <1>3, <3>1 DEF PopLoad, KmainOK
    <3>2. CASE buffer_index # Empty
      <4>1. /\ buffer_index \in 0 .. BufferSize
            /\ Slot(buffer_index) \in 0 .. BufferSize - 1
        BY <3>2 DEF TypeOK, Slot
      <4>2. key_buffer[Slot(buffer_index)] \in Keys
        BY <4>1 DEF TypeOK
      <4> QED
        BY <1>3, <3>2, <4>1, <4>2 DEF PopLoad, KmainOK
    <3> QED
      BY <3>1, <3>2
  <2>2. kmain'.index \in 0 .. BufferSize
    BY <2>1 DEF KmainOK
  <2> QED
    BY <1>3, <2>1, <2>2 DEF PopLoad, TypeOK, HeldOK, InPlace, Between, InPlain,
       InExtended, InDouble, InPauseKey, driver, buffer, hardware
<1>4. CASE PopStore
  <2>1. /\ kmain.index \in 0 .. BufferSize
        /\ Slot(kmain.index) \in 0 .. BufferSize - 1
    BY DEF TypeOK, Slot
  <2>2. {kmain.key, key_buffer[Slot(kmain.index)]} \subseteq Keys
    BY <2>1 DEF TypeOK, KmainOK
  <2>3. PICK k \in Keys : /\ kmain' = [kmain EXCEPT !.pc = "echo", !.key = k]
                          /\ unread' = unread (-) SetToBag({k})
    BY <1>4, <2>2 DEF PopStore
  <2>4. KmainOK'
    BY <2>3 DEF KmainOK
  <2>5. buffer_index' \in 0 .. BufferSize \cup {Empty}
    BY <1>4, <2>1 DEF PopStore, AfterPop
  <2>6. BagToSet(unread') \subseteq Keys
    BY <2>3, UnreadKeys DEF TypeOK
  <2>7. kmain'.index \in 0 .. BufferSize
    BY <2>4 DEF KmainOK
  <2>8. UNCHANGED <<driver, key_buffer, hardware>>
    BY <1>4 DEF PopStore
  <2>9. TypeOK'
    BY <2>5, <2>6, <2>7, <2>8 DEF TypeOK, driver
  <2> QED
    BY <2>4, <2>8, <2>9 DEF HeldOK, InPlace, Between, InPlain,
       InExtended, InDouble, InPauseKey, driver, hardware
<1>5. CASE Echo
  <2>1. KmainOK'
    <3>1. key_states[kmain.key] \in States
      BY DEF TypeOK, KmainOK, States
    <3>2. 0 \in States
      BY DEF States, KEY_STATE_UP
    <3>3. \E l \in States : kmain' = [Reading EXCEPT !.last_state = l]
      BY <1>5, <3>1, <3>2 DEF Echo, KeyState
    <3> QED
      BY <1>1, <3>3 DEF KmainOK
  <2>2. kmain'.index \in 0 .. BufferSize
    BY <2>1 DEF KmainOK
  <2> QED
    BY <1>5, <2>1, <2>2 DEF Echo, TypeOK, HeldOK, InPlace, Between, InPlain,
       InExtended, InDouble, InPauseKey, driver, buffer, hardware
<1> QED
  BY <1>2, <1>3, <1>4, <1>5 DEF Kmain

\* What the keyboard sends in whatever rhythm, whatever is read meanwhile.
LEMMA Invariance ==
  ASSUME ~ ResetAnytime
  PROVE  Spec => []IInv
<1> USE DEF Init
<1>1. Init => IInv
  <2> SUFFICES ASSUME Init PROVE IInv
    OBVIOUS
  <2>1. KEY_NONE \in Keys /\ KEY_STATE_UP \in States
    BY DEF Keys, States
  <2>2. KmainOK
    BY <2>1, KeyboardAssumption DEF KmainOK, Reading, KEY_STATE_UP
  <2>3. BagToSet(unread) \subseteq Keys
    BY UnreadKeys
  <2>4. kmain.index \in 0 .. BufferSize
    BY <2>2 DEF KmainOK
  <2>5. TypeOK
    BY <2>1, <2>3, <2>4, KeyboardAssumption DEF TypeOK, States
  <2> QED
    BY <2>2, <2>5 DEF IInv, HeldOK, InPlace, Between
<1>2. IInv /\ [Next]_vars => IInv'
  <2> SUFFICES ASSUME IInv, [Next]_vars PROVE IInv'
    OBVIOUS
  <2>1. CASE UNCHANGED vars
    BY <2>1 DEF vars, driver, buffer, hardware, IInv, TypeOK, KmainOK, HeldOK,
       InPlace, Between, InPlain, InExtended, InDouble, InPauseKey
  <2> QED
    BY <2>1, UserIInv, IsrIInv, KmainIInv DEF Next
<1> QED
  BY <1>1, <1>2, PTL DEF Spec

\* The decoder never loses its place, and the driver never leaves its types:
\* after every whole key, of whatever shape, the next byte starts a new one;
\* every byte looked up has an entry, every index is in the buffer.  kmain
\* resets the driver while no key is down.
THEOREM DecoderIsSound ==
  ASSUME ~ ResetAnytime
  PROVE  Spec => []DecoderSound
<1>1. IInv => DecoderSound
  BY Rests DEF IInv, DecoderSound, DecoderInStep, InPlace, Between, InPlain,
     InExtended, InDouble, InPauseKey, PauseCodes
<1> QED
  BY <1>1, Invariance, PTL

-----------------------------------------------------------------------------
(* The flags.                                                              *)

StatusInv == status \ {"CAPS"} = Lights(key_states)

\* The flags are those of the keys after every byte, not only after a key.
THEOREM StatusIsTrue ==
  ASSUME ~ ResetAnytime
  PROVE  Spec => []StatusTrue
<1>1. Init => StatusInv
  BY DEF Init, StatusInv, Lights, KeyState, Keys
<1>2. IInv /\ StatusInv /\ [Next]_vars => StatusInv'
  <2> SUFFICES ASSUME IInv, StatusInv, [Next]_vars PROVE StatusInv'
    OBVIOUS
  <2>1. CASE keyboard_isr
    <3>1. ASSUME StatusCheck(key_states') PROVE StatusInv'
      <4>1. "CAPS" \notin Lights(key_states')
        BY DEF Lights
      <4> QED
        BY <3>1, <4>1 DEF StatusCheck, StatusInv
    <3>2. ASSUME key_states' = [key_states EXCEPT
                                  ![KEY_PAUSE] = KEY_STATE_DOWN],
                 status' = status
          PROVE  StatusInv'
      <4>1. Lights(key_states') = Lights(key_states)
        BY <3>2 DEF Lights, KeyState, IInv, TypeOK, Keys, KEY_SCROLL_LOCK,
           KEY_NUM_LOCK, KEY_LSHIFT, KEY_RSHIFT, KEY_LCTRL, KEY_RCTRL,
           KEY_LALT, KEY_RALT, KEY_PAUSE
      <4> QED
        BY <3>2, <4>1 DEF StatusInv
    <3> QED
      BY <2>1, <3>1, <3>2, IsrEffects DEF StatusInv
  <2>2. CASE keyboard_resetState
    BY <2>2 DEF keyboard_resetState, StatusInv, Lights, KeyState, Keys
  <2>3. CASE UNCHANGED <<key_states, status>>
    BY <2>3 DEF StatusInv
  <2> QED
    BY <2>1, <2>2, <2>3 DEF Next, User, Press, Release, Repeat, Send, Kmain,
       PopLoad, PopStore, Echo, driver, vars
<1>3. StatusInv => StatusTrue
  BY DEF StatusInv, StatusTrue
<1> QED
  BY <1>1, <1>2, <1>3, Invariance, PTL DEF Spec

-----------------------------------------------------------------------------
(* Caps lock.                                                              *)

CapsCodes == {b \in Codes : translation_map[b] = KEY_CAPS_LOCK}

\* The press of caps lock, and its release, with b still to come.
CapsPress(b) == pending = << b >> /\ state = {}
CapsRelease(b) == \/ pending = << 240, b >> /\ state = {}
                  \/ pending = << b >> /\ state = {"BREAK"}

\* Whoever sends the code of caps lock is caps lock.  From its press to the end
\* of its release its state is not UP.
CapsAt(b) ==
    /\ CapsPress(b) => KEY_CAPS_LOCK \in held /\ make[KEY_CAPS_LOCK] = << b >>
    /\ CapsRelease(b) => /\ KEY_CAPS_LOCK \notin held
                         /\ key_states[KEY_CAPS_LOCK] # KEY_STATE_UP
    /\ KEY_CAPS_LOCK \in held /\ make[KEY_CAPS_LOCK] = << b >> =>
          CapsPress(b) \/ key_states[KEY_CAPS_LOCK] # KEY_STATE_UP

CapsInv == /\ last_caps_state = key_states[KEY_CAPS_LOCK]
           /\ \A b \in CapsCodes : CapsAt(b)

\* A key that is looked up as caps lock is one of its codes.
LEMMA CapsLookedUp ==
  ASSUME InPlace, pending # << >>, Head(pending) \notin {224, 225, 240},
         state \cap {"EXTENDED1", "PAUSE"} = {},
         KeyOf(Head(pending)) = KEY_CAPS_LOCK
  PROVE  \E b \in CapsCodes : CapsPress(b) \/ CapsRelease(b)
<1>1. "EXTENDED0" \notin state
  BY LookedUp, CodesAssumption DEF KeyOf
<1>2. InPlain
  <2>1. ~ InExtended
    BY <1>1, Rests DEF InExtended
  <2>2. ASSUME InDouble PROVE FALSE
    <3>1. state = {}
      BY <1>1, <2>2 DEF InDouble
    <3>2. PICK b \in CodesE0, c \in CodesE0 :
             pending \in {<< 224, b, 224, c >>, << 224, 240, b, 224, 240, c >>}
      BY <2>2, <3>1 DEF InDouble
    <3>3. Head(pending) = 224
      BY <3>2, Rests
    <3> QED
      BY <3>3
  <2>3. ASSUME InPauseKey PROVE FALSE
    <3>0. "EXTENDED1" \notin state
      OBVIOUS
    <3>1. pending = PauseCodes
      BY <2>3, <3>0 DEF InPauseKey
    <3>2. Head(pending) = 225
      BY <3>1, Rests DEF PauseCodes
    <3> QED
      BY <3>2
  <2> QED
    BY <2>1, <2>2, <2>3 DEF InPlace, Between
<1>3. PICK b \in Codes : pending = << b >> /\ state \in {{}, {"BREAK"}}
  BY <1>2, Rests DEF InPlain
<1>4. Head(pending) = b
  BY <1>3, Rests
<1>5. b \in CapsCodes
  BY <1>1, <1>4 DEF KeyOf, CapsCodes
<1> QED
  BY <1>3, <1>5 DEF CapsPress, CapsRelease

\* An interrupt leaves a press of caps lock for no other to take, and its
\* release only as it was.
LEMMA CapsRests ==
  ASSUME InPlace, keyboard_isr, NEW b \in CapsCodes
  PROVE  ~ CapsPress(b)' /\ (CapsRelease(b)' => CapsRelease(b))
<1>1. pending' = Tail(pending) /\ b \in Codes
  BY Moves DEF CapsCodes
<1>2. CASE InPlain
  <2>1. PICK c \in Codes : \/ pending = << c >> /\ state \in {{}, {"BREAK"}}
                           \/ pending = << 240, c >> /\ state = {}
    BY <1>2 DEF InPlain
  <2>2. CASE pending = << c >>
    BY <1>1, <2>2, Rests DEF CapsPress, CapsRelease
  <2>3. CASE pending = << 240, c >> /\ state = {}
    <3>1. pending' = << c >> /\ Head(pending) = 240
      BY <1>1, <2>3, Rests
    <3>2. state' = {"BREAK"}
      BY <2>3, <3>1, Moves
    <3> QED
      BY <2>3, <3>1, <3>2 DEF CapsPress, CapsRelease
  <2> QED
    BY <2>1, <2>2, <2>3
<1>3. CASE InExtended \/ InDouble
  <2>1. CASE state = {}
    <3>1. Head(pending) = 224
      BY <1>3, <2>1, Rests DEF InExtended, InDouble
    <3>2. state' = {"EXTENDED0"}
      BY <2>1, <3>1, Moves
    <3> QED
      BY <3>2 DEF CapsPress, CapsRelease
  <2>2. CASE state # {} /\ Head(pending) = 240
    <3>1. state = {"EXTENDED0"}
      BY <1>3, <2>2, Rests, CodeKeys DEF InExtended, InDouble
    <3>2. state' = {"EXTENDED0", "BREAK"}
      BY <2>2, <3>1, Moves
    <3> QED
      BY <3>2 DEF CapsPress, CapsRelease
  <2>3. CASE state # {} /\ Head(pending) # 240
    <3>1. CASE InExtended
      BY <1>1, <2>3, <3>1, Rests DEF InExtended, CapsPress, CapsRelease
    <3>2. CASE InDouble
      <4>1. PICK c \in CodesE0, d \in CodesE0 :
               pending \in {<< c, 224, d >>, << c, 224, 240, d >>,
                            << 240, c, 224, 240, d >>}
        BY <2>3, <3>2 DEF InDouble
      <4>2. CASE pending = << c, 224, d >>
        BY <1>1, <4>2, Rests DEF CapsPress, CapsRelease
      <4>3. CASE pending = << c, 224, 240, d >>
        BY <1>1, <4>3, Rests DEF CapsPress, CapsRelease
      <4>4. pending # << 240, c, 224, 240, d >>
        BY <2>3, Rests
      <4> QED
        BY <4>1, <4>2, <4>3, <4>4
    <3> QED
      BY <1>3, <3>1, <3>2
  <2> QED
    BY <2>1, <2>2, <2>3
<1>4. CASE InPauseKey
  <2>1. InPlace'
    BY IsrInPlace
  <2>2. state' \cap {"EXTENDED1"} # {} \/ pending' = << >>
    <3>1. CASE state = {}
      <4>1. Head(pending) = 225
        BY <1>4, <3>1, Rests DEF InPauseKey, PauseCodes
      <4> QED
        BY <3>1, <4>1, Moves
    <3>2. CASE state # {} /\ pending # << 119 >>
      <4>1. /\ "EXTENDED1" \in state
            /\ InPause => Head(pending) # 119
        BY <1>4, <3>2, Rests DEF InPauseKey, InPause
      <4>2. Head(pending) # 224
        BY <1>4, <3>2, Rests DEF InPauseKey
      <4> QED
        BY <4>1, <4>2, Moves
    <3>3. CASE pending = << 119 >>
      BY <1>1, <3>3, Rests
    <3> QED
      BY <3>1, <3>2, <3>3
  <2> QED
    BY <2>2 DEF CapsPress, CapsRelease
<1>5. ~ Between
  BY DEF Between, keyboard_isr
<1> QED
  BY <1>2, <1>3, <1>4, <1>5 DEF InPlace

\* What the keyboard sends as one code, or behind 240, are the presses and the
\* releases of that code's key.
LEMMA CapsSends ==
  ASSUME NEW b \in CapsCodes, NEW k \in DOMAIN make
  PROVE  /\ make[k] = << b >> =>
               k = KEY_CAPS_LOCK /\ break[k] = << 240, b >>
         /\ break[k] = << 240, b >> =>
               k = KEY_CAPS_LOCK /\ make[k] = << b >>
         /\ make[k] # << 240, b >> /\ break[k] # << b >>
<1>1. CASE \E c \in Codes : /\ translation_map[c] = k
                            /\ make[k] = << c >> /\ break[k] = << 240, c >>
  BY <1>1 DEF CapsCodes
<1>2. CASE \E c \in CodesE0 : /\ make[k] = << 224, c >>
                              /\ break[k] = << 224, 240, c >>
  BY <1>2
<1>3. CASE \E c, d \in CodesE0 : /\ make[k] = << 224, c, 224, d >>
                                 /\ break[k] = << 224, 240, d, 224, 240, c >>
  BY <1>3
<1>4. CASE /\ make[k] = << 225, 20, 119, 225, 240, 20, 240, 119 >>
           /\ break[k] = << >>
  BY <1>4
<1> QED
  BY <1>1, <1>2, <1>3, <1>4, CodesAssumption

\* The keyboard keeps CapsInv.
LEMMA UserCaps ==
  ASSUME IInv, CapsInv, User
  PROVE  CapsInv'
<1>1. pending = << >> /\ state = {} /\ state' = {}
      /\ UNCHANGED <<key_states, last_caps_state>>
  <2>1. pending = << >> /\ state' = state
        /\ UNCHANGED <<key_states, last_caps_state>>
    BY DEF User, Press, Release, Repeat, Send, driver
  <2> QED
    BY <2>1 DEF IInv, InPlace, Between, InPlain, InExtended, InDouble,
       InPauseKey, PauseCodes
<1> SUFFICES ASSUME NEW b \in CapsCodes PROVE CapsAt(b)'
  BY <1>1 DEF CapsInv
<1>2. /\ ~ CapsPress(b)
      /\ KEY_CAPS_LOCK \in held /\ make[KEY_CAPS_LOCK] = << b >>
            => key_states[KEY_CAPS_LOCK] # KEY_STATE_UP
  BY <1>1 DEF CapsPress, CapsInv, CapsAt
<1>3. << 240, b >> # << >>
  OBVIOUS
<1>4. ASSUME NEW k \in DOMAIN make, Press(k) PROVE CapsAt(b)'
  <2>1. /\ pending' = make[k]
        /\ held' = IF break[k] = << >> THEN held ELSE held \cup {k}
    BY <1>4 DEF Press, Send
  <2>2. pending' # << 240, b >>
    BY <2>1, CapsSends
  <2>3. pending' = << b >> =>
           KEY_CAPS_LOCK \in held' /\ make[KEY_CAPS_LOCK] = << b >>
    BY <1>3, <2>1, CapsSends
  <2>4. KEY_CAPS_LOCK \in held' => KEY_CAPS_LOCK \in held \/ k = KEY_CAPS_LOCK
    BY <2>1
  <2> QED
    BY <1>1, <1>2, <2>1, <2>2, <2>3, <2>4 DEF CapsAt, CapsPress, CapsRelease
<1>5. ASSUME NEW k \in DOMAIN make, Release(k) PROVE CapsAt(b)'
  <2>1. pending' = break[k] /\ held' = held \ {k} /\ k \in held
    BY <1>5 DEF Release, Send
  <2>2. pending' # << b >>
    BY <2>1, CapsSends
  <2>3. pending' = << 240, b >> =>
           k = KEY_CAPS_LOCK /\ make[KEY_CAPS_LOCK] = << b >>
    BY <2>1, CapsSends
  <2> QED
    BY <1>1, <1>2, <2>1, <2>2, <2>3 DEF CapsAt, CapsPress, CapsRelease
<1>6. CASE Repeat
  <2>1. /\ pending' = make[repeating] /\ held' = held
        /\ repeating \in held /\ repeating \in DOMAIN make
    BY <1>6 DEF Repeat, Send, IInv, HeldOK
  <2>2. pending' # << 240, b >>
    BY <2>1, CapsSends
  <2>3. pending' = << b >> =>
           KEY_CAPS_LOCK \in held' /\ make[KEY_CAPS_LOCK] = << b >>
    BY <2>1, CapsSends
  <2> QED
    BY <1>1, <1>2, <2>1, <2>2, <2>3 DEF CapsAt, CapsPress, CapsRelease
<1> QED
  BY <1>4, <1>5, <1>6 DEF User

\* A byte changes the state of caps lock only if it is one of its codes.
LEMMA CapsChanges ==
  ASSUME IInv, CapsInv, keyboard_isr
  PROVE  /\ last_caps_state' = key_states'[KEY_CAPS_LOCK]
         /\ \/ key_states'[KEY_CAPS_LOCK] = key_states[KEY_CAPS_LOCK]
            \/ /\ \E b \in CapsCodes : CapsPress(b) \/ CapsRelease(b)
               /\ key_states'[KEY_CAPS_LOCK] = Pressed(KEY_CAPS_LOCK)
<1>1. key_states \in [Keys -> States] /\ KEY_CAPS_LOCK \in Keys
      /\ pending # << >>
  BY DEF IInv, TypeOK, States, Keys, keyboard_isr
<1>2. ASSUME NEW k \in Keys, NEW s \in States,
             key_states' = [key_states EXCEPT ![k] = s],
             StatusCheck(key_states'),
             Head(pending) \notin {224, 225, 240},
             state \cap {"EXTENDED1", "PAUSE"} = {},
             k = KeyOf(Head(pending)), s = Pressed(k)
      PROVE  /\ last_caps_state' = key_states'[KEY_CAPS_LOCK]
             /\ \/ key_states'[KEY_CAPS_LOCK] = key_states[KEY_CAPS_LOCK]
                \/ /\ \E b \in CapsCodes : CapsPress(b) \/ CapsRelease(b)
                   /\ key_states'[KEY_CAPS_LOCK] = Pressed(KEY_CAPS_LOCK)
  <2>1. last_caps_state' = key_states'[KEY_CAPS_LOCK]
    BY <1>2 DEF StatusCheck, KeyState
  <2>2. CASE k # KEY_CAPS_LOCK
    BY <1>1, <1>2, <2>1, <2>2
  <2>3. CASE k = KEY_CAPS_LOCK
    <3>1. \E b \in CapsCodes : CapsPress(b) \/ CapsRelease(b)
      BY <1>1, <1>2, <2>3, CapsLookedUp DEF IInv
    <3> QED
      BY <1>1, <1>2, <2>1, <2>3, <3>1
  <2> QED
    BY <2>2, <2>3
<1>3. CASE key_states' = [key_states EXCEPT ![KEY_PAUSE] = KEY_STATE_DOWN]
           /\ last_caps_state' = last_caps_state
  BY <1>1, <1>3 DEF CapsInv, KEY_PAUSE, KEY_CAPS_LOCK
<1>4. CASE UNCHANGED <<key_states, last_caps_state>>
  BY <1>4 DEF CapsInv
<1> QED
  BY <1>2, <1>3, <1>4, IsrEffects

\* So does the interrupt handler.
LEMMA IsrCaps ==
  ASSUME IInv, CapsInv, keyboard_isr
  PROVE  CapsInv'
<1>1. /\ InPlace /\ held' = held
      /\ last_caps_state' = key_states'[KEY_CAPS_LOCK]
  BY CapsChanges DEF IInv, keyboard_isr
<1> SUFFICES ASSUME NEW b \in CapsCodes PROVE CapsAt(b)'
  BY <1>1 DEF CapsInv
<1>2. ~ CapsPress(b)' /\ (CapsRelease(b)' => CapsRelease(b)) /\ CapsAt(b)
  BY <1>1, CapsRests DEF CapsInv
<1>3. ASSUME NEW c \in CapsCodes, CapsPress(c),
             key_states'[KEY_CAPS_LOCK] = Pressed(KEY_CAPS_LOCK)
      PROVE  key_states'[KEY_CAPS_LOCK] # KEY_STATE_UP
  BY <1>3 DEF CapsPress, Pressed, KEY_STATE_UP, KEY_STATE_DOWN, KEY_STATE_HELD
<1>4. ASSUME CapsRelease(b)'
      PROVE  /\ KEY_CAPS_LOCK \notin held
             /\ key_states'[KEY_CAPS_LOCK] # KEY_STATE_UP
  <2>1. CapsRelease(b)
    BY <1>2, <1>4
  <2>2. pending = << 240, b >> /\ state = {}
    <3>1. pending = << b >> => pending' = << >>
      BY Rests, Moves
    <3> QED
      BY <1>4, <2>1, <3>1 DEF CapsRelease
  <2>3. ~ \E c \in CapsCodes : CapsPress(c)
    BY <2>2 DEF CapsPress
  <2>4. ~ \E c \in CapsCodes : pending = << c >>
    BY <2>2
  <2>5. key_states'[KEY_CAPS_LOCK] = key_states[KEY_CAPS_LOCK]
    <3>1. Head(pending) = 240
      BY <2>2, Rests
    <3> QED
      BY <3>1 DEF keyboard_isr, Break, Decode
  <2> QED
    BY <1>2, <2>1, <2>5 DEF CapsAt
<1>5. ASSUME KEY_CAPS_LOCK \in held, make[KEY_CAPS_LOCK] = << b >>
      PROVE  key_states'[KEY_CAPS_LOCK] # KEY_STATE_UP
  <2>1. \A c \in CapsCodes : ~ CapsRelease(c)
    BY <1>5 DEF CapsInv, CapsAt
  <2>2. CASE \E c \in CapsCodes : CapsPress(c)
    <3>1. PICK c \in CapsCodes : CapsPress(c)
      BY <2>2
    <3>2. CASE key_states'[KEY_CAPS_LOCK] = Pressed(KEY_CAPS_LOCK)
      BY <1>3, <3>1, <3>2
    <3>3. CASE key_states'[KEY_CAPS_LOCK] # Pressed(KEY_CAPS_LOCK)
      <4>1. c = b
        BY <1>5, <3>1 DEF CapsInv, CapsAt
      <4>2. KeyOf(Head(pending)) = KEY_CAPS_LOCK /\ RegularKey(Head(pending))
        BY <3>1, Rests, CodeKeys DEF CapsPress, CapsCodes, KeyOf,
           keyboard_isr, Other, InPause
      <4> QED
        BY <3>3, <4>2 DEF RegularKey, KeyOf, IInv, TypeOK, Keys
    <3> QED
      BY <3>2, <3>3
  <2>3. CASE ~ \E c \in CapsCodes : CapsPress(c)
    BY <1>2, <1>5, <2>1, <2>3, CapsChanges DEF CapsAt
  <2> QED
    BY <2>2, <2>3
<1> QED
  BY <1>1, <1>2, <1>4, <1>5 DEF CapsAt

\* kmain resets the driver while no key is down, and else leaves it alone.
LEMMA KmainCaps ==
  ASSUME ~ ResetAnytime, CapsInv, Kmain \/ UNCHANGED vars
  PROVE  CapsInv'
<1>1. CASE keyboard_resetState
  <2>1. pending' = << >> /\ held' = {}
    BY <1>1 DEF keyboard_resetState, hardware
  <2>2. last_caps_state' = key_states'[KEY_CAPS_LOCK]
    BY <1>1 DEF keyboard_resetState, Keys
  <2>3. \A b : << b >> # << >> /\ << 240, b >> # << >>
    OBVIOUS
  <2> QED
    BY <2>1, <2>2, <2>3 DEF CapsInv, CapsAt, CapsPress, CapsRelease
<1>2. CASE UNCHANGED <<driver, hardware>>
  BY <1>2 DEF driver, hardware, CapsInv, CapsAt, CapsPress, CapsRelease
<1> QED
  BY <1>1, <1>2 DEF Kmain, PopLoad, PopStore, Echo, vars

\* The code of a caps lock that the driver has as UP makes it DOWN and flips CAPS.
LEMMA CapsArrivesFlips ==
  ASSUME IInv, CapsInv, [Next]_vars, CapsArrives, pending' = << >>
  PROVE  ("CAPS" \in status') # ("CAPS" \in status)
<1>1. KEY_CAPS_LOCK \in DOMAIN make /\ make[KEY_CAPS_LOCK] # << >>
  <2>1. KEY_CAPS_LOCK \in DOMAIN make
    BY DEF CapsArrives, IInv, HeldOK
  <2>2. CASE \E b \in Codes : make[KEY_CAPS_LOCK] = << b >>
    BY <2>1, <2>2
  <2>3. CASE \E b \in CodesE0 : make[KEY_CAPS_LOCK] = << 224, b >>
    BY <2>1, <2>3
  <2>4. CASE \E b, c \in CodesE0 : make[KEY_CAPS_LOCK] = << 224, b, 224, c >>
    BY <2>1, <2>4
  <2>5. CASE make[KEY_CAPS_LOCK] = << 225, 20, 119, 225, 240, 20, 240, 119 >>
    BY <2>1, <2>5
  <2> QED
    BY <2>1, <2>2, <2>3, <2>4, <2>5, CodesAssumption
<1>2. keyboard_isr
  BY <1>1 DEF CapsArrives, Next, User, Press, Release, Repeat, Send, Kmain,
     keyboard_resetState, PopLoad, PopStore, Echo, hardware, vars
<1>3. pending' = Tail(pending)
  BY <1>2 DEF keyboard_isr
<1>4. PICK b \in Codes : /\ translation_map[b] = KEY_CAPS_LOCK
                         /\ make[KEY_CAPS_LOCK] = << b >>
  <2>1. CASE \E b \in CodesE0 : make[KEY_CAPS_LOCK] = << 224, b >>
    BY <1>3, <2>1, Rests DEF CapsArrives
  <2>2. CASE \E b, c \in CodesE0 : make[KEY_CAPS_LOCK] = << 224, b, 224, c >>
    BY <1>3, <2>2, Rests DEF CapsArrives
  <2>3. CASE make[KEY_CAPS_LOCK] = << 225, 20, 119, 225, 240, 20, 240, 119 >>
    BY <1>3, <2>3, Rests DEF CapsArrives
  <2> QED
    BY <1>1, <2>1, <2>2, <2>3, CodesAssumption
<1>5. Head(pending) = b /\ b \notin {224, 225, 240} /\ state = {}
  BY <1>4, Rests, CodeKeys DEF CapsArrives
<1>6. RegularKey(b)
  BY <1>2, <1>5 DEF keyboard_isr, Other, InPause
<1>7. key_states \in [Keys -> States] /\ KEY_CAPS_LOCK \in Keys
  BY DEF IInv, TypeOK, States, Keys
<1>8. /\ key_states' = [key_states EXCEPT ![KEY_CAPS_LOCK] = KEY_STATE_DOWN]
      /\ StatusCheck(key_states')
  <2>1. Pressed(KEY_CAPS_LOCK) = KEY_STATE_DOWN
    BY DEF Pressed, KeyState, CapsArrives, KEY_STATE_UP, KEY_STATE_DOWN
  <2> QED
    BY <1>4, <1>5, <1>6, <2>1 DEF RegularKey
<1>9. CapsFlips(key_states')
  BY <1>7, <1>8 DEF CapsFlips, KeyState, CapsInv, CapsArrives
<1> QED
  BY <1>8, <1>9 DEF StatusCheck, Lights

\* A flip of CAPS was made by that code, or by the reset of kmain.
LEMMA FlipsArrive ==
  ASSUME IInv, CapsInv, [Next]_vars,
         ("CAPS" \in status') # ("CAPS" \in status)
  PROVE  \/ kmain.pc = "reset" /\ kmain'.pc # "reset"
         \/ CapsArrives /\ pending' = << >>
<1>1. status' # status
  OBVIOUS
<1>2. CASE keyboard_resetState
  BY <1>2 DEF keyboard_resetState, Reading
<1>3. CASE keyboard_isr
  <2>1. StatusCheck(key_states')
    BY <1>1, <1>3, IsrEffects
  <2>2. CapsFlips(key_states')
    BY <2>1 DEF StatusCheck, Lights
  <2>3. /\ key_states'[KEY_CAPS_LOCK] = KEY_STATE_DOWN
        /\ key_states[KEY_CAPS_LOCK] = KEY_STATE_UP
    BY <2>2 DEF CapsFlips, KeyState, CapsInv
  <2>4. PICK b \in CapsCodes : CapsPress(b) \/ CapsRelease(b)
    BY <1>3, <2>3, CapsChanges DEF KEY_STATE_DOWN, KEY_STATE_UP
  <2>5. CapsPress(b) /\ KEY_CAPS_LOCK \in held /\ make[KEY_CAPS_LOCK] = << b >>
    BY <2>3, <2>4 DEF CapsInv, CapsAt
  <2>6. pending' = << >>
    BY <1>3, <2>5, Rests DEF keyboard_isr, CapsPress
  <2> QED
    BY <2>3, <2>5, <2>6 DEF CapsArrives, CapsPress
<1> QED
  BY <1>1, <1>2, <1>3 DEF Next, User, Press, Release, Repeat, Send, Kmain,
     PopLoad, PopStore, Echo, driver, vars

\* Whatever keys are pressed, held and released in whatever order: the code of a
\* caps lock that the driver has as UP flips CAPS, and nothing else does.
THEOREM CapsFlipsOnPress ==
  ASSUME ~ ResetAnytime
  PROVE  Spec => CapsOnPress
<1>1. Init => CapsInv
  <2> SUFFICES ASSUME Init PROVE CapsInv
    OBVIOUS
  <2>1. last_caps_state = key_states[KEY_CAPS_LOCK]
    BY DEF Init, Keys
  <2>2. \A b : << b >> # << >> /\ << 240, b >> # << >>
    OBVIOUS
  <2> QED
    BY <2>1, <2>2 DEF Init, CapsInv, CapsAt, CapsPress, CapsRelease
<1>2. IInv /\ CapsInv /\ [Next]_vars => CapsInv'
  BY UserCaps, IsrCaps, KmainCaps DEF Next
<1>3. IInv /\ CapsInv /\ [Next]_vars =>
        (kmain.pc # "reset" \/ kmain'.pc = "reset" =>
           (("CAPS" \in status') # ("CAPS" \in status)
              <=> CapsArrives /\ pending' = << >>))
  BY CapsArrivesFlips, FlipsArrive
<1> QED
  BY <1>1, <1>2, <1>3, Invariance, PTL DEF Spec, CapsOnPress
=============================================================================
