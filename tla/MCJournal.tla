------------------------------- MODULE MCJournal ------------------------------
(* TLC instances of Journal. *)
EXTENDS Journal

Text(n) == Json("Text", n)
Priority(n) == "PRIORITY" :> Json("Numeral", n)

\* Of a unit, of a program, without a source and with a priority that is
\* none, and no entry at all.
SomeEntries ==
  { Priority(3) @@ ("_SYSTEMD_UNIT" :> Text(1)),
    Priority(6) @@ ("SYSLOG_IDENTIFIER" :> Text(2)),
    Priority(8),
    "PRIORITY" :> Text(0),
    Garbage }

Every == [include |-> {}, exclude |-> {}, level |-> NoOption, extend |-> <<>>]
Warnings == [Every EXCEPT !.level = 4]
OfUnit == [Every EXCEPT !.include = {[attr |-> "SOURCE", pattern |-> {Text(1)}]},
                        !.extend = "_TAG" :> Text(3)]
NotTheUnit == [Warnings EXCEPT !.exclude = {[attr |-> NoOption, pattern |-> {Text(1)}]}]
Renumbering == [Every EXCEPT !.extend = "PRIORITY" :> Json("U64", 5)]

SomeFilters == {<<>>, <<Warnings>>, <<NotTheUnit, OfUnit>>, <<Warnings, Renumbering>>}

=============================================================================
