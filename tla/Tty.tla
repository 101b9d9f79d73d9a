-------------------------------- MODULE Tty --------------------------------
(***************************************************************************)
(* The terminal on the VGA text buffer (kernel/arch/i386/tty.c).           *)
(*                                                                         *)
(* An operation of the terminal is a sequence of steps between which the   *)
(* timer interrupt may come: a cell is written, the position advances, the *)
(* screen scrolls, one of the ports of the cursor is written.  Do is what  *)
(* one step does to the terminal, and the steps it turns out to need.      *)
(***************************************************************************)
EXTENDS Integers, Sequences, SequencesExt

CONSTANTS
    VGA_WIDTH, VGA_HEIGHT,
    Byte,               \* values of a uint8_t (256)
    Below               \* the characters of the row that is below the screen

ASSUME TtyAssumption ==
    /\ VGA_WIDTH \in Nat \ {0} /\ VGA_HEIGHT \in Nat \ {0, 1}
    /\ Byte \in Nat /\ Byte > VGA_WIDTH

BLACK == 0
BLUE == 1
GREY == 7
LIGHT_RED == 12
WHITE == 15

\* background << 4 | foreground, in 8 bits.
makeColor(foreground, background) == (background * 16 + foreground) % 256

Blank == "NUL"
Cell(c, color) == [char |-> c, color |-> color]

\* In terminal_column, ... and the ports 0x3D4 and 0x3D5 of the cursor.
terminal_init ==
    [column |-> 0, row |-> 1, column_store |-> 0, row_store |-> 0,
     should_update_cursor |-> TRUE, default_color |-> makeColor(GREY, BLACK),
     buffer |-> [i \in 0 .. VGA_WIDTH * (VGA_HEIGHT + 1) - 1 |->
                    Cell(IF i < VGA_WIDTH * VGA_HEIGHT THEN Blank ELSE Below,
                         makeColor(GREY, BLACK))],
     port |-> "high", low |-> 0, high |-> 0]

-----------------------------------------------------------------------------
(* Steps.                                                                  *)

Own == -1               \* stands for the color the terminal has at the step

Entry(c, color) == [op |-> "entry", char |-> c, color |-> color]
Step(name) == [op |-> name]
MoveTo(x, y) == [op |-> "moveTo", x |-> x, y |-> y]
SetColor(fg, bg) == [op |-> "color", color |-> makeColor(fg, bg)]
Update(value) == [op |-> "update", value |-> value]
Port(register) == [op |-> "port", register |-> register]
Data(value) == [op |-> "data", value |-> value]

Special(c) ==
    CASE c = "\n" -> <<Step("newline")>>
      [] c = "\t" -> FlattenSeq([l \in 1 .. 4 |-> <<Entry(" ", Own), Step("advanceTab")>>])
      [] c = "BS" -> <<Step("back"), Entry(" ", Own)>>

IsSpecial(c) == c \in {"\n", "\t", "BS"}

terminal_putchar(c, color) ==
    (IF IsSpecial(c) THEN Special(c) ELSE <<Entry(c, color), Step("advance")>>)
    \o <<Step("move")>>

terminal_puts(s, color) ==
    FlattenSeq([i \in DOMAIN s |->
                   IF IsSpecial(s[i]) THEN Special(s[i]) \o <<Step("move")>>
                   ELSE <<Entry(s[i], color), Step("advance")>>])
    \o <<Step("move")>>

\* printf: every character goes to terminal_putchar.
putAll(s) == FlattenSeq([i \in DOMAIN s |-> terminal_putchar(s[i], Own)])

-----------------------------------------------------------------------------
(* What a step does.                                                       *)

Then(t, steps) == [tty |-> t, steps |-> steps]

Newline(t) ==
    Then([t EXCEPT !.column = 0, !.row = @ + 1],
         IF t.row + 1 >= VGA_HEIGHT THEN <<Step("scroll")>> ELSE <<>>)

\* The row is wrapped at the width, or behind it for a tab.
Advance(t, width) ==
    IF t.column + 1 >= width THEN Newline(t) ELSE Then([t EXCEPT !.column = @ + 1], <<>>)

putEntryAt(t, c, color) ==
    [t EXCEPT !.buffer[t.column + t.row * VGA_WIDTH] =
                  Cell(c, IF color = Own THEN t.default_color ELSE color)]

\* Rows 2 to VGA_HEIGHT go up by one; the row below the screen becomes blank.
scroll(t) ==
    [t EXCEPT !.column = 0, !.row = @ - 1,
              !.buffer = [i \in DOMAIN @ |->
                             IF i < VGA_WIDTH THEN @[i]
                             ELSE IF i < VGA_WIDTH * VGA_HEIGHT THEN @[i + VGA_WIDTH]
                             ELSE Cell(Blank, BLACK)]]

moveCursor(t, x, y) ==
    LET column == IF x > VGA_WIDTH THEN VGA_WIDTH ELSE x
        position == column + y * VGA_WIDTH
    IN  Then([t EXCEPT !.column = column, !.row = y],
             IF ~t.should_update_cursor THEN <<>>
             ELSE <<Port("low"), Data(position % Byte), Port("high"), Data(position \div Byte)>>)

Do(t, s) ==
    CASE s.op = "entry" -> Then(putEntryAt(t, s.char, s.color), <<>>)
      [] s.op = "advance" -> Advance(t, VGA_WIDTH)
      [] s.op = "advanceTab" -> Advance(t, VGA_WIDTH + 1)
      [] s.op = "newline" -> Newline(t)
      [] s.op = "back" -> Then([t EXCEPT !.column = (@ - 1) % Byte], <<>>)
      [] s.op = "scroll" -> Then(scroll(t), <<>>)
      [] s.op = "move" -> moveCursor(t, t.column, t.row)
      [] s.op = "moveTo" -> moveCursor(t, s.x, s.y)
      [] s.op = "color" -> Then([t EXCEPT !.default_color = s.color], <<>>)
      [] s.op = "update" -> Then([t EXCEPT !.should_update_cursor = s.value], <<>>)
      [] s.op = "store" -> Then([t EXCEPT !.column_store = t.column, !.row_store = t.row], <<>>)
      [] s.op = "restore" -> Then([t EXCEPT !.column = t.column_store, !.row = t.row_store], <<>>)
      [] s.op = "port" -> Then([t EXCEPT !.port = s.register], <<>>)
      [] s.op = "data" -> Then([t EXCEPT ![t.port] = s.value], <<>>)

\* All the steps, with nothing between them.
RECURSIVE Finish(_, _)
Finish(t, steps) ==
    IF steps = <<>> THEN t
    ELSE LET done == Do(t, Head(steps)) IN Finish(done.tty, done.steps \o Tail(steps))
=============================================================================
