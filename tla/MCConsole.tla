------------------------------ MODULE MCConsole ------------------------------
(***************************************************************************)
(* Small screens for Console: 6 columns and the status line above 3 rows,  *)
(* ints of 8 bits, a UART of 4 bytes.                                      *)
(***************************************************************************)
EXTENDS Console

\* A wrap, numbers of either sign, a scroll, a tab, a backspace, a log.
CallsAll ==
    {Printf(<<Plain(<<"a", "b", "c", "d">>), Decimal(253), Plain(<<"e">>)>>),
     Printf(<<Hex(26), Plain(<<"\n">>), String(<<"s", "t">>), Character("u")>>),
     Puts(<<"\n", "x", "BS", "y", "\t", "w">>),
     Puts(<<"\n", "z", "\n", "\n">>),
     Log("OK", <<"k", "\n">>)}

CallsFault == {Puts(<<"p", "q", "\n">>), Puts(<<"\n", "\n">>), Log("OK", <<"k">>)}

MessagesFault == {<<"P", "F">>}

RegistersFault == [eax |-> 200, cs |-> 8, eip |-> 5, cr0 |-> 17, cr2 |-> 3]

\* Calls that are not shown right.
CallsShort == {Printf(<<ShortHex(8), Plain(<<" ">>), Decimal(1), String(<<"G">>)>>)}
CallsTab == {Puts(<<"a", "b", "\t", "x", "y">>)}
CallsBack == {Puts(<<"a", "\n", "BS", "b">>)}
CallsScroll == {Puts(<<"\n", "\n", "\n">>)}
CallsLong == {Log("OK", <<"k", "l", "m", "n", "o">>)}
CallsSprintf == {Printf(<<Plain(<<"a">>), Decimal(1)>>)}
CallsLeast == {Printf(<<Decimal(128)>>)}

BelowBlank == Blank
BelowJunk == "J"
==============================================================================
