------------------------------ MODULE MCPrintk ------------------------------
(***************************************************************************)
(* Characters that do something to the screen, and calls: the integer      *)
(* conversions with all flags, the others with some.                       *)
(***************************************************************************)
EXTENDS ConsoleRefinement

CONSTANT none

MCChars == {0, 5, 7, 8, 10, 12, 13, 65, 66, 127}

Cross(convs, flags, widths, precisions, args) ==
    [conv : convs, flags : flags, width : widths, precision : precisions, arg : args]

Numbers == {<<0>>, <<10>>, <<255>>}

Formats ==
    Cross({"d", "o", "x"}, SUBSET FlagNames, {none, 5}, {none, 3}, Numbers)
    \cup Cross({"i", "u", "X", "p", "b"}, {{}, {"ZEROPAD"}}, {none, 5, -5}, {none, 2}, Numbers \cup {<<128>>})
    \cup Cross({"f"}, {{}, {"PLUS"}}, {none, 6}, {none},
               {0, 1} \X {0, 12} \X {0, 5, 10, 99})
    \cup Cross({"c"}, {{}, {"LEFT"}}, {none, 3, -3}, {none}, {<<65>>})
    \cup Cross({"s"}, {{}, {"LEFT"}}, {none, 3, -3}, {none, 0, 1},
               {<<65>>, <<65, 66, 65, 66>>, <<66, 0, 66>>})
    \cup Cross({"m"}, {{}, {"LEFT", "PLUS"}}, {none}, {none, 3}, {<<0, 9, 16, 171, 205, 255>>})
    \cup Cross({"r"}, {{}, {"SPACE"}, {"ZEROPAD"}}, {none, 4, -4}, {none}, {<<0, 10, 99, 255>>})

\* Several conversions in a call, one of them a NUL, which ends the text of debugk.
Several ==
    {<<Literal(<<66, 58>>), it, Plain("c", <<ch>>), Plain("d", <<10>>)>> :
         ch \in {0, 65}, it \in {i \in Formats : i.conv \in {"m", "r", "f"}}}

\* Calls of printk with a conversion, some of debugk, and some with several.
MCCalls ==
    {[file |-> none, line |-> <<0>>, format |-> <<it>>] : it \in Formats}
    \cup {[file |-> <<65, 66>>, line |-> <<12>>, format |-> <<it>>] :
             it \in {i \in Formats : i.conv \in {"i", "s"}}}
    \cup [file : {none, <<65, 66>>}, line : {<<12>>}, format : Several]
=============================================================================
