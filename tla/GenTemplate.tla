----------------------------- MODULE GenTemplate -----------------------------
(***************************************************************************)
(* The JIT template generator gen-template.py (src/dalvik/vm/compiler/     *)
(* template).  It reads config-<arch> one command line at a time, like    *)
(* gen-mterp.py but with only handler-size, import, asm-stub, op-start, op *)
(* and op-end, no handler-style, and a single output stream.  op-end      *)
(* emits one labelled block per template of the opcode list, each the     *)
(* expansion of <location>/<name>.S by appendSourceFile, modelled by the  *)
(* expander of module TemplateExpand over a fixed fragment library Lib.   *)
(* Blank and comment config lines change nothing and are left out.        *)
(* Setup is the start of main: the argument check, getOpcodeList and the   *)
(* opening of the config and output files.                                *)
(***************************************************************************)
EXTENDS Integers, Sequences, SequencesExt, TLC

CONSTANTS
  Names,          \* template names TEMPLATE_<x> the opcode list may hold
  MaxTemplates,   \* bound on the length of the opcode list
  Dirs,           \* directory arguments of op-start / op
  Lib,            \* the fragment files on disk: file name -> lines
  ImportFiles,    \* file arguments of import
  Ext,            \* Ext[f]: extension of import file f
  StubFiles,      \* file arguments of asm-stub
  StubExists,     \* StubExists[f]: the asm-stub file can be opened
  SizeArgs,       \* integer arguments of handler-size
  Commands,       \* the command words config lines start with
  MalformedLines, \* command words tried with a wrong number of arguments
  MaxConfigLines, \* bound on the number of command lines of the config
  MaxDepth,       \* include nesting at which Python raises RuntimeError
  None,
  UnknownOp       \* a name that is not in the opcode list

CmdNames == {"handler-size", "import", "asm-stub", "op-start", "op-end", "op"}
Unset == -1000                                    \* initial handler_size_*

ASSUME /\ MaxTemplates \in Nat
       /\ Commands \subseteq CmdNames \cup {"bogus"}
       /\ MalformedLines \subseteq Commands
       /\ SizeArgs \subseteq Int /\ Unset \notin SizeArgs

\* appendSourceFile of gen-template.py: %break is honoured whenever a sister
\* list is passed (no style test), the case cg = TRUE of the shared model.
TE == INSTANCE TemplateExpand
        WITH Files <- DOMAIN Lib, Root <- CHOOSE f \in DOMAIN Lib : TRUE,
             Keys <- {}, Vals <- {}, GlobalDict <- [opcode |-> ""],
             Alphabet <- {}, MaxLen <- [f \in DOMAIN Lib |-> Len(Lib[f])],
             lib <- Lib, call <- None, result <- None, ref <- None

VARIABLES
  status,         \* "setup", then "usage" (exit 2), "aborted" (start-up failed,
                  \* exit 1) or "running", then "done", "failed" (DataParseError)
                  \* or "crashed"
  stopLine,       \* command word of the line the run stopped at, or the
                  \* start-up step that failed
  outputs,        \* the output files opened for writing (created or truncated)
  lines,          \* command lines read so far
  opcodes,        \* the JIT_TEMPLATE names of the header, which getOpcodeList returns
  hsBytes,        \* handler_size_bytes
  hsBits,         \* handler_size_bits
  inOpStart,      \* in_op_start: 0 not started, 1 started, 2 ended
  defaultOpDir,   \* default_op_dir
  opLocs,         \* opcode_locations, keyed by name, None where absent
  asmStub,        \* asm_stub_text: the stub file loaded, None while empty
  asm,            \* the CompilerTemplateAsm-<arch>.S stream
  sister          \* the sister_list of the last op-end (never written out)

cfgVars == <<hsBytes, hsBits, inOpStart, defaultOpDir, opLocs, asmStub>>
vars == <<status, stopLine, outputs, lines, opcodes, cfgVars, asm, sister>>

-----------------------------------------------------------------------------
(* Items the generator itself writes, next to those of appendSourceFile.  *)
StartMark == [i |-> "start"]               \* .global dvmCompilerTemplateStart ...
SizeMark == [i |-> "size"]                 \* .size dvmCompilerTemplateStart, ...
Label(n) == [i |-> "label", v |-> n]       \* .balign 4; .global dvmCompiler_<n>

\* "%s/%s.S" % (location, op)
Path(d, n) == d \o "/" \o n \o ".S"

\* getGlobalSubDict(); Template.substitute writes str() of the integers
GlobalSubDict ==
  [handler_size_bits |-> ToString(hsBits), handler_size_bytes |-> ToString(hsBytes)]

\* dict.update({"opcode": op, "opnum": opindex}) for list position k
TemplateDict(k) == [opcode |-> opcodes[k], opnum |-> ToString(k - 1)] @@ GlobalSubDict

Loc(n) == IF opLocs[n] # None THEN opLocs[n] ELSE defaultOpDir

\* appendSourceFile(source, dict, asm_fp, sister_list): the file marker is
\* written before open(), whose IOError on a missing file is not caught.
Append1(acc, source, dict, sisOn) ==
  IF source \notin DOMAIN Lib
  THEN [acc EXCEPT !.asm = Append(@, TE!FileMark(source)), !.res = "crashed"]
  ELSE LET r == TE!Expand(Lib, source, dict, sisOn, TRUE, 1)
       IN [acc EXCEPT !.asm = @ \o r.out, !.sis = @ \o r.sis, !.res = r.res]

\* loadAndEmitAsm for list position k: emitAsmHeader, then the fragment.
EmitTemplate(acc, k) ==
  LET n == opcodes[k] IN
  IF acc.res # "ok" THEN acc
  ELSE Append1([acc EXCEPT !.asm = Append(@, Label(n))], Path(Loc(n), n), TemplateDict(k), TRUE)

\* loadAndEmitOpcodes: the sister_list is collected and then dropped.
LoadAndEmitOpcodes ==
  LET r == FoldLeft(EmitTemplate, [asm |-> Append(asm, StartMark), sis |-> << >>, res |-> "ok"],
                    [k \in 1 .. Len(opcodes) |-> k])
  IN IF r.res = "ok" THEN [r EXCEPT !.asm = Append(@, SizeMark)] ELSE r

-----------------------------------------------------------------------------
ReadLine(cmd) ==
  /\ status = "running"
  /\ UNCHANGED outputs
  /\ cmd \in Commands
  /\ lines < MaxConfigLines
  /\ lines' = lines + 1

\* The command returned: the loop goes on (no handler-style check here).
Proceed == status' = "running" /\ stopLine' = None
Stop(res, cmd) == status' = res /\ stopLine' = cmd

\* getOpcodeList: "TEMPLATE_" + x for every JIT_TEMPLATE(x) line of the
\* header, in file order; nothing checks the count or repeats.
OpcodeLists == SeqOf(Names, MaxTemplates)

\* main up to the config loop: the argument check, getOpcodeList (whose
\* open of <arch>/TemplateOpList.h raises IOError when it is missing), the
\* config file, then the output file; its header is left out.
Setup ==
  LET Abort(step) == status' = "aborted" /\ stopLine' = step /\ UNCHANGED outputs IN
  /\ status = "setup"
  /\ \/ status' = "usage" /\ stopLine' = "argv" /\ UNCHANGED outputs   \* len(sys.argv) != 3
     \/ Abort("opcode-list")
     \/ Abort("config")
     \/ Abort("output")
     \/ status' = "running" /\ UNCHANGED stopLine /\ outputs' = {"asm"}
  /\ UNCHANGED <<lines, opcodes, cfgVars, asm, sister>>

Init ==
  /\ status = "setup"
  /\ stopLine = None
  /\ outputs = {}
  /\ lines = 0
  /\ opcodes \in OpcodeLists
  /\ hsBytes = Unset
  /\ hsBits = Unset
  /\ inOpStart = 0
  /\ defaultOpDir = None
  /\ opLocs = [n \in Names |-> None]
  /\ asmStub = None
  /\ asm = << >>
  /\ sister = << >>

RECURSIVE HalvingBits(_, _)
HalvingBits(bytes, bits) ==
  IF bytes > 0 THEN HalvingBits(bytes \div 2, bits + 1) ELSE bits

\* Mutant of SetHandlerSize: handler_size_bits = bits is done before the
\* power-of-two test, so a rejected size still records its bits.
SetHandlerSizeEarlyBits(v) ==
  LET bits == HalvingBits(v, -1)
      rejected == IF v = 0 \/ bits < 0 THEN TRUE ELSE v # 2 ^ bits
  IN
  /\ ReadLine("handler-size")
  /\ \/ /\ hsBits # Unset
        /\ Stop("failed", "handler-size")
        /\ UNCHANGED <<hsBytes, hsBits>>
     \/ /\ hsBits = Unset
        /\ hsBytes' = v
        /\ hsBits' = bits
        /\ \/ ~rejected /\ Proceed
           \/ rejected /\ Stop("crashed", "handler-size")
  /\ UNCHANGED <<opcodes, inOpStart, defaultOpDir, opLocs, asmStub, asm, sister>>

\* setHandlerSize: as in gen-mterp.py, every rejection formats the undefined
\* orig_bytes (NameError), a negative value fails on 1 << -1 (ValueError).
SetHandlerSize(v) ==
  LET bits == HalvingBits(v, -1)
      rejected == IF v = 0 \/ bits < 0 THEN TRUE ELSE v # 2 ^ bits
  IN
  /\ ReadLine("handler-size")
  /\ \/ /\ hsBits # Unset
        /\ Stop("failed", "handler-size")
        /\ UNCHANGED <<hsBytes, hsBits>>
     \/ /\ hsBits = Unset
        /\ hsBytes' = v
        /\ \/ ~rejected /\ hsBits' = bits /\ Proceed
           \/ rejected /\ Stop("crashed", "handler-size") /\ UNCHANGED hsBits
  /\ UNCHANGED <<opcodes, inOpStart, defaultOpDir, opLocs, asmStub, asm, sister>>

\* importFile: only .S files, expanded at once with getGlobalSubDict().
ImportFile(f) ==
  LET r == Append1([asm |-> asm, sis |-> << >>, res |-> "ok"], f, GlobalSubDict, FALSE) IN
  /\ ReadLine("import")
  /\ \/ /\ Ext[f] = ".S"
        /\ asm' = r.asm
        /\ IF r.res = "ok" THEN Proceed ELSE Stop(r.res, "import")
     \/ /\ Ext[f] # ".S"
        /\ Stop("failed", "import")
        /\ UNCHANGED asm
  /\ UNCHANGED <<opcodes, cfgVars, sister>>

\* setAsmStub: a failed open() makes the except clause close an unbound
\* stub_fp (UnboundLocalError).  The stub text is never used by op-end.
SetAsmStub(f) ==
  /\ ReadLine("asm-stub")
  /\ \/ StubExists[f] /\ asmStub' = f /\ Proceed
     \/ ~StubExists[f] /\ Stop("crashed", "asm-stub") /\ UNCHANGED asmStub
  /\ UNCHANGED <<opcodes, hsBytes, hsBits, inOpStart, defaultOpDir, opLocs, asm, sister>>

OpStart(d) ==
  /\ ReadLine("op-start")
  /\ \/ inOpStart # 0 /\ Stop("failed", "op-start") /\ UNCHANGED <<inOpStart, defaultOpDir>>
     \/ inOpStart = 0 /\ defaultOpDir' = d /\ inOpStart' = 1 /\ Proceed
  /\ UNCHANGED <<opcodes, hsBytes, hsBits, opLocs, asmStub, asm, sister>>

\* Mutant of OpEntry: op lines are also taken after op-end.
OpEntryAfterEnd(n, d) ==
  /\ ReadLine("op")
  /\ \/ (inOpStart = 0 \/ n \notin ToSet(opcodes)) /\ Stop("failed", "op") /\ UNCHANGED opLocs
     \/ inOpStart >= 1 /\ n \in ToSet(opcodes) /\ opLocs' = [opLocs EXCEPT ![n] = d] /\ Proceed
  /\ UNCHANGED <<opcodes, hsBytes, hsBits, inOpStart, defaultOpDir, asmStub, asm, sister>>

\* opEntry: inside the bracket, for a name opcodes.index() finds.
OpEntry(n, d) ==
  /\ ReadLine("op")
  /\ \/ (inOpStart # 1 \/ n \notin ToSet(opcodes)) /\ Stop("failed", "op") /\ UNCHANGED opLocs
     \/ inOpStart = 1 /\ n \in ToSet(opcodes) /\ opLocs' = [opLocs EXCEPT ![n] = d] /\ Proceed
  /\ UNCHANGED <<opcodes, hsBytes, hsBits, inOpStart, defaultOpDir, asmStub, asm, sister>>

OpEnd ==
  LET r == LoadAndEmitOpcodes IN
  /\ ReadLine("op-end")
  /\ \/ /\ inOpStart # 1
        /\ Stop("failed", "op-end")
        /\ UNCHANGED <<inOpStart, asm, sister>>
     \/ /\ inOpStart = 1
        /\ inOpStart' = 2
        /\ asm' = r.asm
        /\ sister' = r.sis
        /\ IF r.res = "ok" THEN Proceed ELSE Stop(r.res, "op-end")
  /\ UNCHANGED <<opcodes, hsBytes, hsBits, defaultOpDir, opLocs, asmStub>>

\* An unrecognized first word, or a command with the wrong token count.
Malformed(cmd) ==
  /\ ReadLine(cmd)
  /\ Stop("failed", cmd)
  /\ UNCHANGED <<opcodes, cfgVars, asm, sister>>

\* End of the config file: asm_fp is closed, sys.exit(False).
EndOfConfig ==
  /\ status = "running"
  /\ status' = "done"
  /\ UNCHANGED <<stopLine, outputs, lines, opcodes, cfgVars, asm, sister>>

Next ==
  \/ Setup
  \/ \E v \in SizeArgs : SetHandlerSize(v)
  \/ \E f \in ImportFiles : ImportFile(f)
  \/ \E f \in StubFiles : SetAsmStub(f)
  \/ \E d \in Dirs : OpStart(d)
  \/ \E n \in Names \cup {UnknownOp}, d \in Dirs : OpEntry(n, d)
  \/ OpEnd
  \/ \E cmd \in MalformedLines : Malformed(cmd)
  \/ EndOfConfig

Spec == Init /\ [][Next]_vars

-----------------------------------------------------------------------------
(* Properties                                                              *)

Items == {StartMark, SizeMark} \cup {Label(n) : n \in Names}
           \cup {TE!FileMark(f) : f \in DOMAIN Lib \cup {Path(d, n) : d \in Dirs, n \in Names}
                                                  \cup ImportFiles}
           \cup {TE!Sep} \cup {TE!ContHeader(n) : n \in Names}
           \cup {it \in [i : {"text"}, f : DOMAIN Lib, j : Nat, v : STRING \cup {None}] :
                   it.j \in DOMAIN Lib[it.f]}
           \cup {[i |-> "raw", f |-> f, j |-> j] : f \in DOMAIN Lib, j \in 1 .. 3}

TypeOK ==
  /\ status \in {"setup", "usage", "aborted", "running", "done", "failed", "crashed"}
  /\ stopLine \in Commands \cup {"argv", "opcode-list", "config", "output", None}
  /\ outputs \subseteq {"asm"}
  /\ lines \in 0 .. MaxConfigLines
  /\ opcodes \in Seq(Names) /\ Len(opcodes) <= MaxTemplates
  /\ hsBytes \in SizeArgs \cup {Unset}
  /\ hsBits \in Nat \cup {Unset}
  /\ inOpStart \in 0 .. 2
  /\ defaultOpDir \in Dirs \cup {None}
  /\ opLocs \in [Names -> Dirs \cup {None}]
  /\ asmStub \in StubFiles \cup {None}
  /\ asm \in Seq(Items) /\ sister \in Seq(Items)

\* The directory d with Path(d, n) = f, from the file marker after a label.
DirOf(n, f) == CHOOSE d \in Dirs : Path(d, n) = f

\* The table the output holds: per template label, its name and the
\* directory of the fragment expanded after it.
Heads == SelectSeq([k \in 1 .. (Len(asm) - 1) |-> <<asm[k], asm[k + 1]>>],
                   LAMBDA p : p[1].i = "label")
EmittedTable == [k \in DOMAIN Heads |-> <<Heads[k][1].v, DirOf(Heads[k][1].v, Heads[k][2].f)>>]

\* The run ended without success: exit 1 or 2.
Stopped == {"usage", "aborted", "failed", "crashed"}

Table == INSTANCE TemplateTable
           WITH phase  <- CASE status \in Stopped -> "failed"
                            [] status = "done"                  -> "done"
                            [] inOpStart = 0                    -> "idle"
                            [] inOpStart = 1                    -> "open"
                            [] OTHER                            -> "closed",
                ops    <- opcodes,
                defDir <- defaultOpDir,
                locs   <- opLocs,
                table  <- IF status \in Stopped THEN << >> ELSE EmittedTable

(* gen-template.py implements the op-table bracket of the spec: op-start  *)
(* opens it once, op lines change a template's location only while it is *)
(* open, op-end writes one labelled block per template of the opcode list *)
(* in list order, each expanded from its op override or the op-start      *)
(* directory, and a failing line invalidates the run.                     *)
TableRefinement == Table!Spec

(* Continuation code is relocated, not lost: every line appendSourceFile  *)
(* diverted to sister_list after a %break is written to the output.       *)
ContinuationKept ==
  \A k \in DOMAIN sister : sister[k].i = "text" => \E j \in DOMAIN asm : asm[j] = sister[k]

=============================================================================
