----------------------------- MODULE MC_Deadcode -----------------------------
(* Dumps of up to five lines over three section names, three signatures   *)
(* (the empty one, "x", and "yx", which has "x" as a suffix) and four code *)
(* lines: calls of x and of yx, a line naming x without a call, and a line *)
(* naming x before it calls x.                                            *)
EXTENDS Deadcode

MCSectionNames == {"method code index", "codes", "strings"}
MCSigs == {<< >>, <<"x">>, <<"y", "x">>}

HdrLine(n) == <<"HDR", n>>
IdxLine(s) == <<"IDX">> \o s

MCLines ==
  {HdrLine(n) : n \in MCSectionNames} \cup {IdxLine(s) : s \in MCSigs}
    \cup {<<"invoke", "x">>, <<"invoke", "y", "x">>, <<"x">>, <<"x", "invoke", "x">>}

MCDumps == SeqOf(MCLines, 5)

=============================================================================
