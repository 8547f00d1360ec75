--------------------------- MODULE MC_GenTemplate ---------------------------
(* Model of gen-template.py for TLC: opcode lists of up to three templates *)
(* (empty, repeated names included), two directories, and a fragment      *)
(* library in which armv5te's templates use %break, %include with a       *)
(* parameter, %default and the global placeholders, mips' TEMPLATE_A names *)
(* an unbound placeholder and mips' TEMPLATE_B does not exist.            *)
EXTENDS GenTemplate

MCNames == {"TEMPLATE_A", "TEMPLATE_B"}
MCDirs == {"armv5te", "mips"}

\* Fragment lines in the form of TemplateExpand's Text / Break / Include /
\* Default.
TextL(k) == [d |-> "text", key |-> k]
BreakL == [d |-> "break"]
IncludeL(f, p) == [d |-> "include", file |-> f, param |-> p]
DefaultL(p) == [d |-> "default", param |-> p]

MCLib ==
     ("armv5te/TEMPLATE_A.S" :> << TextL("opcode"), BreakL, TextL("handler_size_bytes") >>)
  @@ ("armv5te/TEMPLATE_B.S" :> << IncludeL("armv5te/common.S", "reg" :> "r1"), TextL("opnum") >>)
  @@ ("armv5te/common.S"     :> << DefaultL("reg" :> "r0"), TextL("reg") >>)
  @@ ("mips/TEMPLATE_A.S"    :> << TextL("reg") >>)
  @@ ("header.S"             :> << TextL("handler_size_bytes") >>)

MCImportFiles == {"header.S", "absent.S", "header.cpp"}
MCExt == [f \in MCImportFiles |-> IF f = "header.cpp" THEN ".cpp" ELSE ".S"]
MCStubFiles == {"stub.S", "nostub.S"}
MCStubExists == [f \in MCStubFiles |-> f = "stub.S"]
MCSizeArgs == {0, 64}
AllCommands == CmdNames \cup {"bogus"}
BadLines == {"bogus"}
============================================================================
