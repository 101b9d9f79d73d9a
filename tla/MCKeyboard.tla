----------------------------- MODULE MCKeyboard -----------------------------
(* Instances of Keyboard for TLC: some keys of a set 2 keyboard with the     *)
(* codes it sends, and the entries of the translation tables for them.       *)
EXTENDS Keyboard

KEY_A == 1
KEY_B == 2

Set2 == (28 :> KEY_A) @@ (50 :> KEY_B) @@ (18 :> KEY_LSHIFT)
        @@ (20 :> KEY_LCTRL) @@ (88 :> KEY_CAPS_LOCK)
        @@ (119 :> KEY_NUM_LOCK)

\* translation_mapE0[code - 0x11]: Print Screen's first byte is the entry of the
\* right Alt key, the right Control key has none.
Set2E0 == (18 :> KEY_RALT) @@ (20 :> KEY_NONE) @@ (124 :> KEY_NONE)

Code(k) == CHOOSE c \in DOMAIN Set2 : Set2[c] = k

Plain(keys) == [k \in keys |-> << Code(k) >>]
PlainBreak(keys) == [k \in keys |-> << 240, Code(k) >>]

PauseKey == KEY_PAUSE :> << 225, 20, 119, 225, 240, 20, 240, 119 >>
PauseBreak == KEY_PAUSE :> << >>
RightCtrl == KEY_RCTRL :> << 224, 20 >>
RightCtrlBreak == KEY_RCTRL :> << 224, 240, 20 >>

KEY_PRINT_SCR == 91
PrintScreen == KEY_PRINT_SCR :> << 224, 18, 224, 124 >>
PrintScreenBreak == KEY_PRINT_SCR :> << 224, 240, 124, 224, 240, 18 >>

AllMake == Plain({KEY_LSHIFT, KEY_CAPS_LOCK}) @@ PauseKey @@ PrintScreen
AllBreak == PlainBreak({KEY_LSHIFT, KEY_CAPS_LOCK})
            @@ PauseBreak @@ PrintScreenBreak

LettersMake == Plain({KEY_A, KEY_B})
LettersBreak == PlainBreak({KEY_A, KEY_B})

PauseMake == Plain({KEY_A}) @@ PauseKey
PauseAndBreak == PlainBreak({KEY_A}) @@ PauseBreak

ExtendedMake == Plain({KEY_A}) @@ RightCtrl
ExtendedBreak == PlainBreak({KEY_A}) @@ RightCtrlBreak
=============================================================================
