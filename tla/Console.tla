------------------------------ MODULE Console ------------------------------
(***************************************************************************)
(* What the kernel prints: printf and terminal_puts on the terminal, log   *)
(* (kernel/kernel/klogger.c) on the terminal and the serial port, the      *)
(* status line that the timer interrupt prints in the middle of any of     *)
(* them (kernel/arch/i386/scheduler.c), and kspanic (condor.c).            *)
(*                                                                         *)
(* todo holds the steps that kmain still has to take.  The timer interrupt *)
(* runs as a whole, between two of them.  An exception of the process that *)
(* runs instead of kmain leaves the print where it is for ever: interrupts *)
(* stay off and kspanic halts.                                             *)
(***************************************************************************)
EXTENDS Printf, Tty, Serial

CONSTANTS
    Calls,              \* what kmain prints: printf, puts and log
    MaxCalls,           \* bound: calls of kmain
    FaultCalls,         \* bound: an exception comes in or after one of the first ones
    Pids, Eip,          \* what the status line shows
    Messages,           \* what kspanic is called with
    Registers           \* registers of the state that kspanic dumps

VARIABLES
    tty,
    uart,
    todo,               \* steps of the running call
    halted,             \* kspanic has been called
    said                \* the calls so far

vars == <<tty, uart, todo, halted, said>>

Printf(items) == [kind |-> "printf", items |-> items]
Puts(s) == [kind |-> "puts", text |-> s]
Log(level, s) == [kind |-> "log", level |-> level, text |-> s]

-----------------------------------------------------------------------------
(* klogger.c                                                               *)

LevelColor == [FINE |-> 8, DEBG |-> 2, INFO |-> GREY, OK |-> 10, WARN |-> 14,
               ERRO |-> 4, FERR |-> LIGHT_RED]

\* The name of a level stands for its four letters.
log(t, level, s) ==
    LET background == t.default_color \div 16 IN
    terminal_putchar("[", makeColor(WHITE, background))
    \o terminal_puts(<<level>>, makeColor(LevelColor[level], background))
    \o terminal_puts(<<"]", " ">>, makeColor(WHITE, background))
    \o terminal_puts(s, Own)
    \o serial_writechar("[") \o serial_writes(<<level>>) \o serial_writes(<<"]", " ">>)
    \o serial_writes(s)

printf(items) == putAll(vprintf(FormatOf(items), ArgsOf(items)))

Steps(t, call) ==
    CASE call.kind = "printf" -> printf(call.items)
      [] call.kind = "puts" -> terminal_puts(call.text, Own)
      [] call.kind = "log" -> log(t, call.level, call.text)

-----------------------------------------------------------------------------
(* condor.c                                                                *)

\* One register of each kind stands for its line.
kdump_useStack(r) ==
    LET n == "\n" IN
    printf(<<Plain(<<"R">>), Hex(r.eax), Plain(<<n>>)>>)
    \o printf(<<ShortHex(r.cs), Decimal(r.cs \div 8), String(<<"G">>), Plain(<<n>>)>>)
    \o printf(<<Plain(<<"E">>), Hex(r.eip), Plain(<<n>>)>>)
    \o printf(<<Plain(<<"C">>), LongHex(r.cr0), Plain(<<",">>), LongHex(r.cr2), Plain(<<n>>)>>)
    \o serial_writes(<<n>>) \o serial_writes(itoa(r.eax, 16))
    \o serial_writes(<<n>>) \o serial_writes(itoa(r.cs, 16))
    \o serial_writes(<<n>>) \o serial_writes(itoa(r.eip, 16))
    \o serial_writes(<<n>>) \o serial_writes(itoa(r.cr0, 16))
    \o serial_writes(<<",">>) \o serial_writes(itoa(r.cr0, 16))
    \o serial_writechar(n)

kspanic(t, message, registers) ==
    LET color == SetColor(WHITE, BLUE) IN
    <<color>> \o kdump_useStack(registers)
    \o log([t EXCEPT !.default_color = color.color], "FERR", message)

-----------------------------------------------------------------------------
(* scheduler_preempt                                                       *)

Status(pid) == <<Decimal(pid), Plain(<<":">>), Hex(Eip), Plain(<<"\n">>)>>

\* Mutated forms: the color is not restored; the cursor is written.
PrintStatus_white(t, pid) ==
    <<Step("store"), [op |-> "update", value |-> FALSE], MoveTo(0, 0), SetColor(WHITE, BLACK)>>
    \o printf(Status(pid)) \o <<[op |-> "update", value |-> TRUE], Step("restore")>>

PrintStatus_moved(t, pid) ==
    <<Step("store"), MoveTo(0, 0), SetColor(WHITE, BLACK)>>
    \o printf(Status(pid))
    \o <<SetColor(t.default_color % 256, t.default_color \div 256), Step("restore")>>

PrintStatus(t, pid) ==
    <<Step("store"), [op |-> "update", value |-> FALSE], MoveTo(0, 0), SetColor(WHITE, BLACK)>>
    \o printf(Status(pid))
    \o <<SetColor(t.default_color % 256, t.default_color \div 256),
         [op |-> "update", value |-> TRUE], Step("restore")>>

-----------------------------------------------------------------------------
(* Behaviour.                                                              *)

Init ==
    /\ tty = terminal_init
    /\ uart = [fifo |-> <<>>, line |-> <<>>]
    /\ todo = <<>> /\ halted = FALSE /\ said = <<>>

Call(call) ==
    /\ todo = <<>> /\ ~halted /\ Len(said) < MaxCalls
    /\ todo' = Steps(tty, call)
    /\ said' = Append(said, call)
    /\ UNCHANGED <<tty, uart, halted>>

\* The next step on the terminal.
TerminalStep ==
    /\ todo # <<>> /\ Head(todo).op \notin {"ready", "byte"}
    /\ LET done == Do(tty, Head(todo)) IN
         /\ tty' = done.tty
         /\ todo' = done.steps \o Tail(todo)
    /\ UNCHANGED <<uart, halted, said>>

\* serial_writeReady is polled until the queue is empty.
WaitReady ==
    /\ todo # <<>> /\ Head(todo).op = "ready" /\ serial_writeReady(uart)
    /\ todo' = Tail(todo)
    /\ UNCHANGED <<tty, uart, halted, said>>

WriteByte ==
    /\ todo # <<>> /\ Head(todo).op = "byte"
    /\ uart' = outb(uart, Head(todo).byte)
    /\ todo' = Tail(todo)
    /\ UNCHANGED <<tty, halted, said>>

LineSends ==
    /\ uart.fifo # <<>>
    /\ uart' = Sends(uart)
    /\ UNCHANGED <<tty, todo, halted, said>>

\* scheduler_preempt prints the status line.
Tick(pid) ==
    /\ ~halted
    /\ tty' = Finish(tty, PrintStatus(tty, pid))
    /\ UNCHANGED <<uart, todo, halted, said>>

\* An exception while kmain is preempted.
Fault(message) ==
    /\ ~halted /\ Len(said) <= FaultCalls
    /\ halted' = TRUE
    /\ todo' = kspanic(tty, message, Registers)
    /\ said' = Append(said, Log("FERR", message))
    /\ UNCHANGED <<tty, uart>>

Next ==
    \/ \E call \in Calls : Call(call)
    \/ TerminalStep \/ WaitReady \/ WriteByte \/ LineSends
    \/ \E pid \in Pids : Tick(pid)
    \/ \E message \in Messages : Fault(message)

Spec == Init /\ [][Next]_vars

-----------------------------------------------------------------------------
(* What the calls mean: a text, laid out on a paper of any length.         *)

Colored(s, color) == [i \in DOMAIN s |-> Cell(s[i], color)]

TextOf(call) ==
    LET own == makeColor(GREY, BLACK) IN
    CASE call.kind = "printf" -> Colored(Meaning(call.items), own)
      [] call.kind = "puts" -> Colored(call.text, own)
      [] call.kind = "log" ->
           <<Cell("[", WHITE), Cell(call.level, LevelColor[call.level]),
             Cell("]", WHITE), Cell(" ", WHITE)>> \o Colored(call.text, own)

LayOut(lines, cell) ==
    LET last == Len(lines)
        row == lines[last]
        with(cells) == [lines EXCEPT ![last] = cells]
    IN  CASE cell.char = "\n" -> Append(lines, <<>>)
          [] cell.char = "\t" -> with(row \o [l \in 1 .. 4 |-> [cell EXCEPT !.char = " "]])
          [] cell.char = "BS" -> with(Front(row))
          [] Len(row) = VGA_WIDTH - 1 -> Append(with(Append(row, cell)), <<>>)
          [] OTHER -> with(Append(row, cell))

Lines == FoldLeft(LayOut, << <<>> >>, FlattenSeq([i \in DOMAIN said |-> TextOf(said[i])]))

LogBytes(call) ==
    IF call.kind = "log" THEN BytesOf(<<"[", call.level, "]", " ">> \o call.text) ELSE <<>>

Received == uart.line \o uart.fifo

-----------------------------------------------------------------------------
(* Properties.                                                             *)

\* The state has its types; the queue of the UART never holds more than its size.
TypeOK ==
    /\ tty.column \in 0 .. Byte - 1 /\ tty.row \in 0 .. VGA_HEIGHT + 1
    /\ tty.low \in 0 .. Byte - 1 /\ tty.high \in 0 .. Byte - 1
    /\ tty.default_color \in 0 .. 255 /\ tty.should_update_cursor
    /\ Len(uart.fifo) <= Fifo
    /\ halted \in BOOLEAN /\ Len(said) <= MaxCalls + 1

\* When kmain prints nothing, the rows under the status line show the last lines
\* of what printf, puts and log were called with, each character in its color and
\* the rest blank, and the next character goes behind them: whatever the numbers,
\* the wraps, the scrolls, and wherever the timer printed its line.
ScreenShows ==
    (todo = <<>> /\ ~halted) =>
        LET above == IF Len(Lines) < VGA_HEIGHT THEN 0 ELSE Len(Lines) - VGA_HEIGHT + 1
        IN  /\ tty.row = Len(Lines) - above
            /\ tty.column = Len(Lines[Len(Lines)])
            /\ \A y \in 1 .. VGA_HEIGHT - 1, x \in 0 .. VGA_WIDTH - 1 :
                   LET cell == tty.buffer[x + y * VGA_WIDTH]
                   IN  IF above + y <= Len(Lines) /\ x < Len(Lines[above + y])
                       THEN cell = Lines[above + y][x + 1]
                       ELSE cell.char \in {Blank, " "}

\* When kmain prints nothing, the cursor of the screen is where the next character
\* goes: the four writes of its two registers have not been mixed with others.
CursorTrue ==
    (todo = <<>> /\ said # <<>>) =>
        tty.high * Byte + tty.low = tty.column + tty.row * VGA_WIDTH

\* When kspanic halts, its message stands on the screen in front of the cursor, on
\* blue, unless it began on the row below the screen.
PanicShown ==
    (todo = <<>> /\ halted /\ tty.row < VGA_HEIGHT) =>
        LET text == said[Len(said)].text
            end == tty.column + tty.row * VGA_WIDTH
        IN  \A i \in DOMAIN text :
               tty.buffer[end - Len(text) + i - 1] = Cell(text[i], makeColor(WHITE, BLUE))

\* What is on the screen is what was said, up to an exception and after it: kmain,
\* the timer and kspanic share the position, the color and the buffer.
DisplayRight == TypeOK /\ ScreenShows /\ PanicShown

\* When nothing is being written, the line has or will have every byte of what was
\* logged, in order; after kspanic, of its message at least.
SerialComplete ==
    todo = <<>> =>
        IF halted THEN IsSuffix(LogBytes(said[Len(said)]), Received)
        ELSE Received = FlattenSeq([i \in DOMAIN said |-> LogBytes(said[i])])

-----------------------------------------------------------------------------
(* Properties that the code does not have.                                 *)

\* The message of kspanic is on the screen.
PanicOnScreen == (todo = <<>> /\ halted) => tty.row < VGA_HEIGHT

\* Behind the status line its row is blank.
StatusRow ==
    [][\A pid \in Pids : Tick(pid) =>
          LET shown == Front(Meaning(Status(pid)))
          IN  \A x \in 0 .. VGA_WIDTH - 1 :
                 tty'.buffer[x].char = IF x < Len(shown) THEN shown[x + 1] ELSE Blank]_vars

\* sprintf writes what printf shows.
SprintfRight ==
    \A i \in DOMAIN said : said[i].kind = "printf" =>
        vsprintf(FormatOf(said[i].items), ArgsOf(said[i].items)) = Meaning(said[i].items)
=============================================================================
