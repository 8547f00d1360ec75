------------------------- MODULE MC_TemplateExpand -------------------------
(* Libraries of two fragments: the root a.S (up to three lines) and b.S   *)
(* (up to two), over lines that exercise every directive: text with and    *)
(* without an unbound placeholder, %include of either fragment with and    *)
(* without a parameter, %default, %verify, %break and a malformed line.    *)
EXTENDS TemplateExpand

MCFiles == {"a.S", "b.S"}
MCGlobalDict == [opcode |-> "OP_NOP", handler_size_bytes |-> "64"]  \* substitute() writes str(value)
MCAlphabet ==
  { Text("opcode"), Text("k"),
    Include("a.S", None), Include("b.S", None), Include("b.S", "k" :> "1"),
    Default("k" :> "2"), Verify, Break, Malformed }
MCMaxLen == [f \in MCFiles |-> IF f = "a.S" THEN 3 ELSE 2]
============================================================================
