---------------------------- MODULE MC_GenMterp ----------------------------
(* Model of gen-mterp.py for TLC: two opcodes (OP_NOP and one more), a     *)
(* directory of plain fragments, one whose fragments use %break, one whose *)
(* fragments do not exist, and "c"; stub, alt-stub and import files of     *)
(* every content class the code distinguishes.                             *)
EXTENDS GenMterp

MCDirs == {"c", "armv5te", "armv7", "gone"}
MCStubFiles == {"stub.S", "empty.S", "nostub.S"}
MCAltStubFiles == {"alt_stub.S", "noalt.S"}
MCImportFiles == {"header.cpp", "entry.S", "notes.txt"}

MCExt == [f \in MCImportFiles |->
            CASE f = "header.cpp" -> ".cpp" [] f = "entry.S" -> ".S" [] OTHER -> ".txt"]

\* Content class of the fragment files under each directory and of each file.
MCFrag == [x \in MCDirs \cup MCStubFiles \cup MCAltStubFiles \cup MCImportFiles |->
             CASE x = "armv5te"  -> "break"
               [] x = "gone"     -> "missing"
               [] x = "nostub.S" -> "missing"
               [] x = "noalt.S"  -> "missing"
               [] x = "empty.S"  -> "empty"
               [] x = "header.cpp" -> "badkey"
               [] OTHER          -> "plain"]

MCSizeArgs == {-4, 0, 12, 64}
MCStyleArgs == {"computed-goto", "jump-table", "all-c", "portable"}
AllCommands == CmdNames \cup {"bogus"}
BadLines == {"bogus", "op-end"}
============================================================================
