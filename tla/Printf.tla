------------------------------- MODULE Printf -------------------------------
(***************************************************************************)
(* The formatted output of the C library (libc/stdio/vprintf.c and         *)
(* vsprintf.c, stdlib/itoa.c and ultoa.c).  A character is a string of one *)
(* letter.  An argument is a word, or the address of a string.             *)
(***************************************************************************)
EXTENDS Integers, Sequences, SequencesExt

CONSTANT WordBits       \* bits of an int (32)

ASSUME PrintfAssumption == WordBits \in Nat \ {0}

WordSize == 2 ^ WordBits

Word(n) == [kind |-> "word", word |-> n, text |-> <<>>]
Text(s) == [kind |-> "text", word |-> 0, text |-> s]

\* What is printed of a thing that is not what it is taken for.
Garbage == <<"?">>

-----------------------------------------------------------------------------
(* Numbers.                                                                *)

Numerals == <<"0", "1", "2", "3", "4", "5", "6", "7", "8", "9",
              "A", "B", "C", "D", "E", "F">>

ultoa(n, base) ==
    LET f[v \in Nat] == IF v = 0 THEN <<>>
                        ELSE Append(f[v \div base], Numerals[(v % base) + 1])
    IN  IF n = 0 THEN <<"0">> ELSE f[n]

\* The negative of the least int is itself: its digits are read from before the
\* table of numerals.
itoa(n, base) ==
    IF n < WordSize \div 2 THEN ultoa(n, base)
    ELSE <<"-">> \o IF n = WordSize \div 2 THEN Garbage ELSE ultoa(WordSize - n, base)

tolower(c) ==
    LET upper == <<"A", "B", "C", "D", "E", "F">>
        lower == <<"a", "b", "c", "d", "e", "f">>
    IN  IF \E i \in 1 .. 6 : upper[i] = c THEN lower[CHOOSE i \in 1 .. 6 : upper[i] = c] ELSE c

-----------------------------------------------------------------------------
(* Formats.                                                                *)

\* The argument of number i, or what is on the stack behind the last one.
Argument(args, i) == IF i <= Len(args) THEN args[i] ELSE [Word(0) EXCEPT !.kind = "none"]

Number(arg, digits) == IF arg.kind = "word" THEN digits ELSE Garbage

\* Arguments taken: x and X read one only if there is an l, and print what is in
\* number otherwise; ll reads 64 bits for d and i alone.
Taken(c, l) == IF c \in {"x", "X"} THEN IF l \in {1, 2} THEN 1 ELSE 0
               ELSE IF c \in {"d", "i"} /\ l = 2 THEN 2 ELSE 1

Converted(c, l, pound, arg) ==
    LET hexOf == IF l \in {1, 2} THEN Number(arg, ultoa(arg.word, 16)) ELSE Garbage
        hex == IF c = "x" THEN [i \in DOMAIN hexOf |-> tolower(hexOf[i])] ELSE hexOf
    IN  CASE c = "c" -> <<IF arg.kind = "word" THEN <<arg.word>> ELSE arg.text>>
          [] c = "s" -> <<IF arg.kind = "text" THEN arg.text ELSE Garbage>>
          [] c \in {"d", "i"} -> <<Number(arg, itoa(arg.word, 10))>>
          [] c = "u" -> <<Number(arg, ultoa(arg.word, 10))>>
          [] OTHER -> (IF pound THEN << <<"0", "x">> >> ELSE <<>>) \o <<hex>>

Conversions == {"c", "s", "d", "i", "u", "x", "X"}

NextPercent(format, i) ==
    CHOOSE j \in i + 1 .. Len(format) + 1 :
        /\ j = Len(format) + 1 \/ format[j] = "%"
        /\ \A k \in i + 1 .. j - 1 : format[k] # "%"

\* The pieces that vprintf gives to print, from character i and argument a on.
\* Text goes up to the next %.  A conversion that is not known is printed as text,
\* and so is every one after it.
Pieces(format, args) ==
    LET f[i \in 1 .. Len(format) + 1, a \in Nat, rejected \in BOOLEAN] ==
            LET text(j, bad) == LET n == NextPercent(format, j) IN
                                <<SubSeq(format, j, n - 1)>> \o f[n, a, bad]
                pound == format[i + 1] = "#"
                start == IF pound THEN i + 2 ELSE i + 1
                at == CHOOSE j \in start .. Len(format) :
                         format[j] # "l" /\ \A k \in start .. j - 1 : format[k] = "l"
                c == format[at]
                l == at - start
            IN  IF i > Len(format) THEN <<>>
                ELSE IF format[i] # "%" THEN text(i, rejected)
                ELSE IF format[i + 1] = "%" \/ rejected THEN text(i + 1, rejected)
                ELSE IF c \notin Conversions THEN text(i + 1, TRUE)
                ELSE Converted(c, l, pound, Argument(args, a))
                     \o f[at + 1, a + Taken(c, l), rejected]
    IN  f[1, 1, FALSE]

\* vprintf: its print gives each character to putchar.
vprintf(format, args) == FlattenSeq(Pieces(format, args))

\* vsprintf: its print copies a piece from the character on that the length of
\* the result so far is the number of.
vsprintf(format, args) ==
    FoldLeft(LAMBDA dest, piece : dest \o SubSeq(piece, Len(dest) + 1, Len(piece)),
             <<>>, Pieces(format, args))

-----------------------------------------------------------------------------
(* What a format means: items of text, or of a conversion with its argument.*)

\* The digits of n, the least number of them, by their places.
Digits(n, base) ==
    LET size == CHOOSE k \in 1 .. WordBits :
                   base ^ k > n /\ \A j \in 1 .. k - 1 : base ^ j <= n
    IN  [i \in 1 .. size |-> Numerals[((n \div base ^ (size - i)) % base) + 1]]

Signed(n) ==
    IF n < WordSize \div 2 THEN Digits(n, 10) ELSE <<"-">> \o Digits(WordSize - n, 10)

LowerHex(n) == [i \in DOMAIN Digits(n, 16) |-> tolower(Digits(n, 16)[i])]

Plain(s) == [chars |-> s, args |-> <<>>, shown |-> s]
Conversion(chars, arg, shown) == [chars |-> chars, args |-> <<arg>>, shown |-> shown]

Decimal(n) == Conversion(<<"%", "d">>, Word(n), Signed(n))
Hex(n) == Conversion(<<"%", "#", "l", "x">>, Word(n), <<"0", "x">> \o LowerHex(n))
LongHex(n) == Conversion(<<"%", "l", "x">>, Word(n), LowerHex(n))
Character(c) == Conversion(<<"%", "c">>, Text(<<c>>), <<c>>)
String(s) == Conversion(<<"%", "s">>, Text(s), s)
ShortHex(n) == Conversion(<<"%", "x">>, Word(n), LowerHex(n))

FormatOf(items) == FlattenSeq([i \in DOMAIN items |-> items[i].chars])
ArgsOf(items) == FlattenSeq([i \in DOMAIN items |-> items[i].args])
Meaning(items) == FlattenSeq([i \in DOMAIN items |-> items[i].shown])
=============================================================================
