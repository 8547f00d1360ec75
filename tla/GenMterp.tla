------------------------------ MODULE GenMterp ------------------------------
(***************************************************************************)
(* The interpreter generator gen-mterp.py (src/dalvik/vm/mterp).  It reads *)
(* an architecture config file one line at a time; each command mutates   *)
(* the process-wide configuration (the module-level globals of the script) *)
(* or drives the opcode-table state machine, and op-end / alt-ops emit the *)
(* primary, alternate and jump tables into the assembly output stream.     *)
(*                                                                         *)
(* Abstraction.  One step is one config line (blank and comment lines,     *)
(* which change nothing, are left out).  A fragment file is abstracted to  *)
(* the class of its content (Frag): plain text, text with a %break         *)
(* continuation, a file that does not exist, or text with a placeholder    *)
(* the substitution dictionary does not bind.  The two output files are   *)
(* sequences of entries, one per block the script writes: a labelled slot *)
(* (alignment + label + fragment), a stub, a section marker defining a     *)
(* global symbol, a continuation in the sister block or a jump-table word. *)
(* Comment lines and whitespace of the output are left out.                *)
(* Before the config loop, Setup is the start of main: the argument check,  *)
(* getOpcodeList and the opening of the config and output files.            *)
(***************************************************************************)
EXTENDS Integers, Sequences, SequencesExt, FiniteSets

CONSTANTS
  NumOps,         \* kNumPackedOpcodes; opcode i is opcodes[i], opcode 0 is OP_NOP
  Dirs,           \* directory arguments of op-start / op / alt; "c" selects C
  StubFiles,      \* file arguments of asm-stub
  AltStubFiles,   \* file arguments of asm-alt-stub
  ImportFiles,    \* file arguments of import
  Ext,            \* Ext[f]: ".S", ".cpp" or another extension of an import file
  Frag,           \* Frag[x]: content class of the fragments of dir or file x
  SizeArgs,       \* integer arguments of handler-size
  StyleArgs,      \* word arguments of handler-style, valid or not
  Commands,       \* the command words the config vocabulary uses
  MalformedLines, \* command words tried with a wrong number of arguments
  MaxConfigLines, \* bound on the number of command lines of the config
  None,           \* Python None (and the -1000 "unset" sentinel's absence)
  UnknownOp,      \* an opcode name that is not in the opcode list
  HeaderOpCounts  \* numbers of H(OP_x) entries the Interp header may hold

Ops == 0 .. (NumOps - 1)
OpSeq == [k \in 1 .. NumOps |-> k - 1]          \* xrange(kNumPackedOpcodes)
Styles == {"computed-goto", "jump-table", "all-c"}
FragKinds == {"plain", "break", "missing", "badkey", "empty"}
CmdNames == {"handler-size", "import", "asm-stub", "asm-alt-stub", "op-start",
             "op-end", "alt", "op", "handler-style", "alt-ops", "split-ops"}
Unset == -1000                                  \* initial handler_size_*

ASSUME /\ NumOps \in Nat \ {0}
       /\ "c" \in Dirs
       /\ Frag \in [Dirs \cup StubFiles \cup AltStubFiles \cup ImportFiles -> FragKinds]
       /\ SizeArgs \subseteq Int /\ Unset \notin SizeArgs
       /\ Commands \subseteq CmdNames \cup {"bogus"}
       /\ MalformedLines \subseteq Commands
       /\ MaxConfigLines \in Nat
       /\ HeaderOpCounts \subseteq Nat

VARIABLES
  status,         \* "setup", then "usage" (exit 2), "aborted" (start-up failed,
                  \* exit 1) or "running", then "done" (exit 0), "failed"
                  \* (DataParseError caught, files closed, exit 1) or "crashed"
                  \* (uncaught exception)
  stopLine,       \* the command word of the line the run stopped at ("Failed: ..."),
                  \* or the start-up step that failed
  outputs,        \* the output files opened for writing (created or truncated)
  lines,          \* command lines read so far
  style,          \* style
  hsBytes,        \* handler_size_bytes
  hsBits,         \* handler_size_bits
  inOpStart,      \* in_op_start: 0 not started, 1 started, 2 ended
  defaultOpDir,   \* default_op_dir
  defaultAltStub, \* default_alt_stub
  opLocs,         \* opcode_locations, None where absent
  altLocs,        \* alt_opcode_locations, None where absent
  asmStub,        \* asm_stub_text: the stub file loaded, None while empty
  genAlt,         \* generate_alt_table
  splitops,       \* splitops
  asm,            \* the InterpAsm-<arch>.S stream
  cOut            \* the InterpC-<arch>.cpp stream

cfgVars == <<style, hsBytes, hsBits, inOpStart, defaultOpDir, defaultAltStub,
             opLocs, altLocs, asmStub, genAlt, splitops>>
vars == <<status, stopLine, outputs, lines, cfgVars, asm, cOut>>

-----------------------------------------------------------------------------
(* Output entries.  kind: what was written; t: primary or alternate table; *)
(* op: opcode index; src: fragment location or the global symbol defined; *)
(* size: the .balign argument written before it (None: no .balign);       *)
(* body: "full", or "head" when the text after %break went to the sister   *)
(* list.                                                                   *)
Kinds == {"import", "cfrag", "start", "slot", "stub", "dummy", "end",
          "sisterStart", "cont", "sisterEnd", "jmpStart", "jmp"}
OutEntry == [kind : Kinds, t : {"primary", "alt", None}, op : Ops \cup {None},
          src : Dirs \cup StubFiles \cup AltStubFiles \cup ImportFiles \cup STRING \cup {None},
          size : Int \cup {None}, body : {"full", "head", None}]

E(kind, t, op, src, size, body) ==
  [kind |-> kind, t |-> t, op |-> op, src |-> src, size |-> size, body |-> body]
Mark(kind, t, sym) == E(kind, t, None, sym, None, None)

\* emitAlign: .balign handler_size_bytes, only for computed-goto
AlignOf == IF style = "computed-goto" THEN hsBytes ELSE None

\* What appendSourceFile does with a fragment of class k: open() of a missing
\* file raises IOError (uncaught); an unbound placeholder raises KeyError,
\* turned into DataParseError.
FragResult(x) ==
  CASE x = None                -> "crashed"   \* open(None): TypeError
    [] Frag[x] = "missing"     -> "crashed"
    [] Frag[x] = "badkey"      -> "failed"
    [] OTHER                   -> "ok"

\* location = opcode_locations[op] if present, else default_op_dir
Loc(i) == IF opLocs[i] # None THEN opLocs[i] ELSE defaultOpDir

\* One iteration of the loop of loadAndEmitOpcodes, with loadAndEmitC
\* (C fragment, then emitAsmStub if asm_stub_text is non-empty) and
\* loadAndEmitAsm (emitAsmHeader, then appendSourceFile with sister_list);
\* divert: the fragment's %break sends the rest of it to sister_list.
EmitOpcode(acc, i, divert) ==
  LET loc == Loc(i) IN
  IF acc.res # "ok" THEN acc
  ELSE IF loc = "c"
  THEN LET withC == [acc EXCEPT !.c = Append(@, E("cfrag", "primary", i, loc, None, "full")),
                                !.res = FragResult(loc)]
       IN IF withC.res # "ok" THEN withC
          ELSE IF asmStub = None THEN [withC EXCEPT !.dummy = TRUE]
          ELSE [withC EXCEPT !.asm = Append(@, E("stub", "primary", i, asmStub, AlignOf, "full")),
                             !.res = IF Frag[asmStub] = "badkey" THEN "crashed" ELSE "ok"]
  ELSE [acc EXCEPT !.asm = Append(@, E("slot", "primary", i, loc, AlignOf,
                                       IF divert THEN "head" ELSE "full")),
                   !.sis = IF divert /\ FragResult(loc) = "ok" THEN Append(@, i) ELSE @,
                   !.res = FragResult(loc)]

\* Mutant of PrimaryStep: %break diverts to sister_list whatever the style.
PrimaryStepAnyStyle(acc, i) == EmitOpcode(acc, i, Frag[Loc(i)] = "break")

\* %break is honoured only when style == "computed-goto" (appendSourceFile)
PrimaryStep(acc, i) ==
  EmitOpcode(acc, i, Frag[Loc(i)] = "break" /\ style = "computed-goto")

\* loadAndEmitOpcodes
PrimaryPass(asm0, c0) ==
  LET jt   == style = "jump-table"
      head == Mark("start", "primary",
                   IF jt THEN "dvmAsmInstructionStartCode" ELSE "dvmAsmInstructionStart")
      r    == FoldLeft(PrimaryStep,
                       [asm |-> Append(asm0, head), c |-> c0, sis |-> << >>,
                        dummy |-> FALSE, res |-> "ok"], OpSeq)
      dum  == IF r.dummy THEN << E("dummy", "primary", 0, None, AlignOf, None) >> ELSE << >>
      tail == Mark("end", "primary",
                   IF jt THEN "dvmAsmInstructionEndCode" ELSE "dvmAsmInstructionEnd")
      sis  == IF style = "computed-goto"
              THEN << Mark("sisterStart", "primary", "dvmAsmSisterStart") >>
                   \o [k \in DOMAIN r.sis |-> E("cont", "primary", r.sis[k], None, None, None)]
                   \o << Mark("sisterEnd", "primary", "dvmAsmSisterEnd") >>
              ELSE << >>
  IN IF r.res # "ok" THEN r
     ELSE [r EXCEPT !.asm = @ \o dum \o << tail >> \o sis]

\* Mutant of AltStep: the alt override is ignored.
AltStepNoOverride(acc, i) ==
  IF acc.res # "ok" THEN acc
  ELSE [acc EXCEPT !.asm = Append(@, E("slot", "alt", i, defaultAltStub, AlignOf, "full")),
                   !.res = FragResult(defaultAltStub)]

\* loadAndEmitAltStub for opcode i, source from alt_opcode_locations or
\* default_alt_stub
AltStep(acc, i) ==
  LET src == IF altLocs[i] # None THEN altLocs[i] ELSE defaultAltStub
  IN IF acc.res # "ok" THEN acc
     ELSE [acc EXCEPT !.asm = Append(@, E("slot", "alt", i, src, AlignOf, "full")),
                      !.res = FragResult(src)]

\* emitJmpTable(start_label, prefix)
JmpTable(t, sym) ==
  << Mark("jmpStart", t, sym) >> \o [k \in 1 .. NumOps |-> E("jmp", t, k - 1, None, None, None)]

\* loadAndEmitAltOpcodes, followed by the two jump tables for jump-table
\* style: the common body of opEnd (unless splitops) and genaltop.
AltPass(asm0) ==
  LET jt == style = "jump-table"
      r  == FoldLeft(AltStep,
                     [asm |-> Append(asm0, Mark("start", "alt",
                        IF jt THEN "dvmAsmAltInstructionStartCode" ELSE "dvmAsmAltInstructionStart")),
                      res |-> "ok"], OpSeq)
      jmp == IF jt THEN JmpTable("primary", "dvmAsmInstructionStart")
                        \o JmpTable("alt", "dvmAsmAltInstructionStart")
             ELSE << >>
  IN IF r.res # "ok" THEN r
     ELSE [r EXCEPT !.asm = Append(@, Mark("end", "alt",
                 IF jt THEN "dvmAsmAltInstructionEndCode" ELSE "dvmAsmAltInstructionEnd"))
                 \o jmp]

-----------------------------------------------------------------------------
(* The driver loop.  Every command line is read while the run is going and *)
(* the config is not exhausted; after a command that returns, the loop     *)
(* raises "handler-style must be first command" while style is None.       *)
ReadLine(cmd) ==
  /\ status = "running"
  /\ UNCHANGED outputs
  /\ cmd \in Commands
  /\ lines < MaxConfigLines
  /\ lines' = lines + 1

\* (only handler-style changes style, and it never sets it to None)
Proceed(cmd) ==
  /\ status' = IF style = None THEN "failed" ELSE "running"
  /\ stopLine' = IF style = None THEN cmd ELSE None
\* The line ends the run: res is "failed" (DataParseError) or "crashed".
Stop(res, cmd) ==
  /\ status' = res
  /\ stopLine' = cmd
Fail(cmd) == Stop("failed", cmd)

\* getOpcodeList: the header's H(OP_x) entries, None when the file cannot be
\* opened (IOError); any count other than kNumPackedOpcodes raises
\* SyntaxError "bad opcode count".
OpcodeListOk(header) == header # None /\ header = NumOps

\* main up to the config loop: the argument check, getOpcodeList, then
\* config-<arch>, then InterpC (truncated) before InterpAsm; the headers
\* written to both files are left out.  No failure here removes a file.
Setup ==
  LET Abort(step) == status' = "aborted" /\ stopLine' = step IN
  /\ status = "setup"
  /\ \/ /\ status' = "usage"                                  \* len(sys.argv) != 3
        /\ stopLine' = "argv"
        /\ UNCHANGED outputs
     \/ /\ \E h \in HeaderOpCounts \cup {None} : ~OpcodeListOk(h)
        /\ Abort("opcode-list")
        /\ UNCHANGED outputs
     \/ /\ Abort("config")                                     \* config-<arch> missing
        /\ UNCHANGED outputs
     \/ /\ Abort("output")                                     \* InterpC cannot be created
        /\ UNCHANGED outputs
     \/ /\ Abort("output")                                     \* InterpAsm cannot be created
        /\ outputs' = {"c"}
     \/ /\ status' = "running"
        /\ UNCHANGED stopLine
        /\ outputs' = {"c", "asm"}
  /\ UNCHANGED <<lines, cfgVars, asm, cOut>>

Init ==
  /\ status = "setup"
  /\ stopLine = None
  /\ outputs = {}
  /\ lines = 0
  /\ style = None
  /\ hsBytes = Unset
  /\ hsBits = Unset
  /\ inOpStart = 0
  /\ defaultOpDir = None
  /\ defaultAltStub = None
  /\ opLocs = [i \in Ops |-> None]
  /\ altLocs = [i \in Ops |-> None]
  /\ asmStub = None
  /\ genAlt = FALSE
  /\ splitops = FALSE
  /\ asm = << >>
  /\ cOut = << >>

\* setHandlerStyle: style is assigned before it is validated.
SetHandlerStyle(s) ==
  /\ ReadLine("handler-style")
  /\ style' = s
  /\ \/ /\ s \in Styles
        /\ status' = "running"
        /\ stopLine' = None
     \/ /\ s \notin Styles
        /\ Fail("handler-style")
  /\ UNCHANGED <<hsBytes, hsBits, inOpStart, defaultOpDir, defaultAltStub,
                 opLocs, altLocs, asmStub, genAlt, splitops, asm, cOut>>

\* log2 loop of setHandlerSize: bits = -1; while bytes > 0: bytes //= 2; bits += 1
RECURSIVE HalvingBits(_, _)
HalvingBits(bytes, bits) ==
  IF bytes > 0 THEN HalvingBits(bytes \div 2, bits + 1) ELSE bits

\* Mutant of SetHandlerSize: only "n > 0" is checked, not n == 1 << bits.
SetHandlerSizeNoPowCheck(v) ==
  LET bits == HalvingBits(v, -1) IN
  /\ ReadLine("handler-size")
  /\ hsBits = Unset
  /\ hsBytes' = v
  /\ \/ v > 0 /\ hsBits' = bits /\ Proceed("handler-size")
     \/ v <= 0 /\ Stop("crashed", "handler-size") /\ UNCHANGED hsBits
  /\ UNCHANGED <<style, inOpStart, defaultOpDir, defaultAltStub, opLocs, altLocs,
                 asmStub, genAlt, splitops, asm, cOut>>

\* Mutant of SetHandlerSize: handler_size_bits is stored before the check.
SetHandlerSizeEarlyBits(v) ==
  LET bits == HalvingBits(v, -1) IN
  /\ ReadLine("handler-size")
  /\ hsBits = Unset
  /\ hsBytes' = v
  /\ hsBits' = bits
  /\ \/ v > 0 /\ v = 2 ^ bits /\ Proceed("handler-size")
     \/ (v <= 0 \/ v # 2 ^ Max({bits, 0})) /\ Stop("crashed", "handler-size")
  /\ UNCHANGED <<style, inOpStart, defaultOpDir, defaultAltStub, opLocs, altLocs,
                 asmStub, genAlt, splitops, asm, cOut>>

\* setHandlerSize.  Every rejection of a value is written as
\* raise DataParseError("..." % orig_bytes), and orig_bytes is not defined:
\* the NameError escapes the driver's except clause.  A negative value makes
\* 1 << bits raise ValueError (negative shift count) before that.
SetHandlerSize(v) ==
  LET bits == HalvingBits(v, -1)
      \* handler_size_bytes == 0 or handler_size_bytes != (1 << bits)
      rejected == IF v = 0 \/ bits < 0 THEN TRUE ELSE v # 2 ^ bits
  IN
  /\ ReadLine("handler-size")
  /\ \/ /\ hsBits # Unset
        /\ Fail("handler-size")
        /\ UNCHANGED <<hsBytes, hsBits>>
     \/ /\ hsBits = Unset
        /\ hsBytes' = v
        /\ \/ /\ ~rejected
              /\ hsBits' = bits
              /\ Proceed("handler-size")
           \/ /\ rejected
              /\ Stop("crashed", "handler-size")
              /\ UNCHANGED hsBits
  /\ UNCHANGED <<style, inOpStart, defaultOpDir, defaultAltStub, opLocs, altLocs,
                 asmStub, genAlt, splitops, asm, cOut>>

\* importFile: appendSourceFile(f, getGlobalSubDict(), c_fp or asm_fp, None).
\* The substitution dictionary carries handler_size_bytes as it is now.
ImportFile(f) ==
  LET e == E("import", None, None, f, hsBytes, "full") IN
  /\ ReadLine("import")
  /\ \/ /\ Ext[f] = ".cpp"
        /\ cOut' = Append(cOut, e)
        /\ UNCHANGED asm
     \/ /\ Ext[f] = ".S"
        /\ asm' = Append(asm, e)
        /\ UNCHANGED cOut
  /\ \/ /\ FragResult(f) = "ok"
        /\ Proceed("import")
     \/ /\ FragResult(f) # "ok"
        /\ Stop(FragResult(f), "import")
  /\ UNCHANGED cfgVars

ImportBadExt(f) ==
  /\ ReadLine("import")
  /\ Ext[f] \notin {".cpp", ".S"}
  /\ Fail("import")
  /\ UNCHANGED <<cfgVars, asm, cOut>>

\* setAsmStub.  When open() fails, the except clause calls stub_fp.close()
\* on a name that was never bound (UnboundLocalError).
SetAsmStub(f) ==
  /\ ReadLine("asm-stub")
  /\ \/ /\ Frag[f] = "missing"
        /\ Stop("crashed", "asm-stub")
        /\ UNCHANGED asmStub
     \/ /\ Frag[f] # "missing"
        /\ asmStub' = IF Frag[f] = "empty" THEN None ELSE f
        /\ Proceed("asm-stub")
  /\ UNCHANGED <<style, hsBytes, hsBits, inOpStart, defaultOpDir, defaultAltStub,
                 opLocs, altLocs, genAlt, splitops, asm, cOut>>

\* setAsmAltStub: the file is only named here, opened when emitted.
SetAsmAltStub(f) ==
  /\ ReadLine("asm-alt-stub")
  /\ defaultAltStub' = f
  /\ genAlt' = TRUE
  /\ Proceed("asm-alt-stub")
  /\ UNCHANGED <<style, hsBytes, hsBits, inOpStart, defaultOpDir, opLocs, altLocs,
                 asmStub, splitops, asm, cOut>>

OpStart(d) ==
  /\ ReadLine("op-start")
  /\ \/ /\ inOpStart # 0
        /\ Fail("op-start")
        /\ UNCHANGED <<inOpStart, defaultOpDir>>
     \/ /\ inOpStart = 0
        /\ defaultOpDir' = d
        /\ inOpStart' = 1
        /\ Proceed("op-start")
  /\ UNCHANGED <<style, hsBytes, hsBits, defaultAltStub, opLocs, altLocs, asmStub,
                 genAlt, splitops, asm, cOut>>

\* Mutant of OpEntry: the bracket check accepts op lines after op-end.
OpEntryAfterEnd(i, d) ==
  /\ ReadLine("op")
  /\ \/ /\ inOpStart = 0 \/ i = UnknownOp
        /\ Fail("op")
        /\ UNCHANGED opLocs
     \/ /\ inOpStart >= 1 /\ i # UnknownOp
        /\ opLocs' = [opLocs EXCEPT ![i] = d]
        /\ Proceed("op")
  /\ UNCHANGED <<style, hsBytes, hsBits, inOpStart, defaultOpDir, defaultAltStub,
                 altLocs, asmStub, genAlt, splitops, asm, cOut>>

\* opEntry: a later entry for the same opcode overrides an earlier one (the
\* "Note: op overrides" message is only printed).
OpEntry(i, d) ==
  /\ ReadLine("op")
  /\ \/ /\ inOpStart # 1 \/ i = UnknownOp
        /\ Fail("op")
        /\ UNCHANGED opLocs
     \/ /\ inOpStart = 1 /\ i # UnknownOp
        /\ opLocs' = [opLocs EXCEPT ![i] = d]
        /\ Proceed("op")
  /\ UNCHANGED <<style, hsBytes, hsBits, inOpStart, defaultOpDir, defaultAltStub,
                 altLocs, asmStub, genAlt, splitops, asm, cOut>>

\* altEntry: as opEntry, and it turns on generate_alt_table.
AltEntry(i, d) ==
  /\ ReadLine("alt")
  /\ \/ /\ inOpStart # 1 \/ i = UnknownOp
        /\ Fail("alt")
        /\ UNCHANGED <<altLocs, genAlt>>
     \/ /\ inOpStart = 1 /\ i # UnknownOp
        /\ altLocs' = [altLocs EXCEPT ![i] = d]
        /\ genAlt' = TRUE
        /\ Proceed("alt")
  /\ UNCHANGED <<style, hsBytes, hsBits, inOpStart, defaultOpDir, defaultAltStub,
                 opLocs, asmStub, splitops, asm, cOut>>

\* opEnd: close the bracket, emit the primary table and, unless split-ops was
\* given, the alternate table and jump tables.
OpEnd ==
  LET p == PrimaryPass(asm, cOut)
      a == AltPass(p.asm)
      emitAlt == ~splitops /\ genAlt /\ p.res = "ok"
  IN
  /\ ReadLine("op-end")
  /\ \/ /\ inOpStart # 1
        /\ Fail("op-end")
        /\ UNCHANGED <<inOpStart, asm, cOut>>
     \/ /\ inOpStart = 1
        /\ inOpStart' = 2
        /\ cOut' = p.c
        /\ asm' = IF emitAlt THEN a.asm ELSE p.asm
        /\ LET res == IF emitAlt THEN a.res ELSE p.res IN
             \/ /\ res = "ok"
                /\ Proceed("op-end")
             \/ /\ res # "ok"
                /\ Stop(res, "op-end")
  /\ UNCHANGED <<style, hsBytes, hsBits, defaultOpDir, defaultAltStub, opLocs,
                 altLocs, asmStub, genAlt, splitops>>

\* genaltop (alt-ops)
AltOps ==
  LET a == AltPass(asm) IN
  /\ ReadLine("alt-ops")
  /\ \/ /\ inOpStart # 2
        /\ Fail("alt-ops")
        /\ UNCHANGED asm
     \/ /\ inOpStart = 2 /\ ~genAlt
        /\ Proceed("alt-ops")
        /\ UNCHANGED asm
     \/ /\ inOpStart = 2 /\ genAlt
        /\ asm' = a.asm
        /\ \/ a.res = "ok" /\ Proceed("alt-ops")
           \/ a.res # "ok" /\ Stop(a.res, "alt-ops")
  /\ UNCHANGED <<cfgVars, cOut>>

SplitOps ==
  /\ ReadLine("split-ops")
  /\ splitops' = TRUE
  /\ Proceed("split-ops")
  /\ UNCHANGED <<style, hsBytes, hsBits, inOpStart, defaultOpDir, defaultAltStub,
                 opLocs, altLocs, asmStub, genAlt, asm, cOut>>

\* A line whose first token is no command, or a command with the wrong
\* number of arguments (split-ops does not check its arguments).
Malformed(cmd) ==
  /\ ReadLine(cmd)
  /\ cmd # "split-ops"
  /\ Fail(cmd)
  /\ UNCHANGED <<cfgVars, asm, cOut>>

\* End of the config file: the files are closed and the script exits 0.
EndOfConfig ==
  /\ status = "running"
  /\ status' = "done"
  /\ UNCHANGED <<stopLine, outputs, lines, cfgVars, asm, cOut>>

\* sys.exit(failed) at the end of main; usage errors exit 2 and a start-up
\* failure exits 1 (sys.exit(1) or the traceback of an uncaught exception).
ExitCode ==
  CASE status = "done"  -> 0
    [] status = "usage" -> 2
    [] OTHER            -> 1

Next ==
  \/ Setup
  \/ \E s \in StyleArgs : SetHandlerStyle(s)
  \/ \E v \in SizeArgs : SetHandlerSize(v)
  \/ \E f \in ImportFiles : ImportFile(f) \/ ImportBadExt(f)
  \/ \E f \in StubFiles : SetAsmStub(f)
  \/ \E f \in AltStubFiles : SetAsmAltStub(f)
  \/ \E d \in Dirs : OpStart(d)
  \/ \E i \in Ops \cup {UnknownOp}, d \in Dirs : OpEntry(i, d) \/ AltEntry(i, d)
  \/ OpEnd
  \/ AltOps
  \/ SplitOps
  \/ \E cmd \in MalformedLines : Malformed(cmd)
  \/ EndOfConfig

Spec == Init /\ [][Next]_vars

\* The script is one thread that handles each config line to its end, with
\* nothing to wait for, until the finite file is exhausted or an exception
\* stops it: a step that can be taken is eventually taken.
FairSpec == Spec /\ WF_vars(Next)

-----------------------------------------------------------------------------
(* Properties                                                              *)

TypeOK ==
  /\ status \in {"setup", "usage", "aborted", "running", "done", "failed", "crashed"}
  /\ stopLine \in Commands \cup {"argv", "opcode-list", "config", "output", None}
  /\ outputs \subseteq {"c", "asm"}
  /\ lines \in 0 .. MaxConfigLines
  /\ style \in StyleArgs \cup {None}
  /\ hsBytes \in SizeArgs \cup {Unset}
  /\ hsBits \in Nat \cup {Unset}
  /\ inOpStart \in 0 .. 2
  /\ defaultOpDir \in Dirs \cup {None}
  /\ defaultAltStub \in AltStubFiles \cup {None}
  /\ opLocs \in [Ops -> Dirs \cup {None}]
  /\ altLocs \in [Ops -> Dirs \cup {None}]
  /\ asmStub \in StubFiles \cup {None}
  /\ genAlt \in BOOLEAN /\ splitops \in BOOLEAN
  /\ asm \in Seq(OutEntry) /\ cOut \in Seq(OutEntry)

IsPowerOfTwo(n) == \E k \in 0 .. n : 2 ^ k = n

Positions(kind, t) == {k \in DOMAIN asm : asm[k].kind = kind /\ asm[k].t = t}
PrimaryDone == Positions("end", "primary") # {}
AltDone == Positions("end", "alt") # {}
OpsWhere(P(_)) == SelectSeq(OpSeq, P)
OpsOf(s) == [k \in DOMAIN s |-> s[k].op]

Label(t, i) == <<"label", t, i, None>>

\* The symbol an output entry defines: the label of a handler slot, stub or
\* dummy (prefix .L or .L_ALT plus the opcode name), or a global symbol.
Defines(e) ==
  CASE e.kind \in {"slot", "stub", "dummy"}                          -> Label(e.t, e.op)
    [] e.kind \in {"start", "end", "sisterStart", "sisterEnd", "jmpStart"} -> <<"sym", None, None, e.src>>
    [] OTHER                                                         -> None
DefiningPositions == {k \in DOMAIN asm : Defines(asm[k]) # None}

\* Two streams written in opcode order, merged by opcode; the merge keeps
\* each stream's own order, so it is sorted only if both streams are.
RECURSIVE MergeByOp(_, _)
MergeByOp(x, y) ==
  CASE x = << >> -> y
    [] y = << >> -> x
    [] x[1][1] <= y[1][1] -> <<x[1]>> \o MergeByOp(Tail(x), y)
    [] OTHER -> <<y[1]>> \o MergeByOp(x, Tail(y))

\* The primary table as the output holds it: per handler, its opcode and
\* location, from the assembly slots and the C fragments.
PrimaryReadBack ==
  LET slots == SelectSeq(asm, LAMBDA e : e.kind = "slot" /\ e.t = "primary")
      cfrag == SelectSeq(cOut, LAMBDA e : e.kind = "cfrag")
  IN MergeByOp([k \in DOMAIN slots |-> <<slots[k].op, slots[k].src>>],
               [k \in DOMAIN cfrag |-> <<cfrag[k].op, cfrag[k].src>>])

\* The run ended without success: exit 1 or 2.
Stopped == {"usage", "aborted", "failed", "crashed"}

Primary == INSTANCE TemplateTable
             WITH Names  <- Ops,
                  phase  <- CASE status \in Stopped -> "failed"
                              [] status = "done"                  -> "done"
                              [] inOpStart = 0                    -> "idle"
                              [] inOpStart = 1                    -> "open"
                              [] OTHER                            -> "closed",
                  ops    <- OpSeq,
                  defDir <- defaultOpDir,
                  locs   <- opLocs,
                  table  <- IF status \in Stopped THEN << >> ELSE PrimaryReadBack

(* gen-mterp.py implements the op-table bracket for its primary table:     *)
(* op-start opens it once, op lines move an opcode only while it is open,  *)
(* op-end writes one handler per opcode in opcode order (an assembly slot, *)
(* or a C fragment for location "c"), each from its last op override or    *)
(* the op-start directory, and nothing written later (alt tables, alt-ops, *)
(* imports) changes that table.                                           *)
PrimaryRefinement == Primary!Spec

(* Every alternate table loadAndEmitAltOpcodes writes lists the opcodes in *)
(* order, takes each opcode with an "alt" override from that override and *)
(* every other opcode of the same table from one and the same default stub. *)
AltTablesFaithful ==
  LET alts == SelectSeq(asm, LAMBDA e : e.kind = "slot" /\ e.t = "alt")
      table(k) == (k - 1) \div NumOps
  IN /\ \A k \in DOMAIN alts : alts[k].op = (k - 1) % NumOps
     /\ \A k \in DOMAIN alts : altLocs[alts[k].op] # None => alts[k].src = altLocs[alts[k].op]
     /\ \A k, j \in DOMAIN alts :
          (table(k) = table(j) /\ altLocs[alts[k].op] = None /\ altLocs[alts[j].op] = None)
            => alts[k].src = alts[j].src

(* Continuation code is relocated, never lost: every handler whose text    *)
(* after %break was diverted to sister_list has that continuation in the   *)
(* sister block, which lies after the end of the dispatch table, and the   *)
(* sister block holds nothing else.                                        *)
NoLostContinuation ==
  PrimaryDone =>
    LET endPos == CHOOSE k \in Positions("end", "primary") : TRUE
        conts  == {k \in DOMAIN asm : asm[k].kind = "cont"}
        heads  == {k \in DOMAIN asm : asm[k].kind = "slot" /\ asm[k].t = "primary"
                                      /\ asm[k].body = "head"}
    IN /\ \A k \in heads : \E j \in conts : j > endPos /\ asm[j].op = asm[k].op
       /\ \A j \in conts : j > endPos /\ \E k \in heads : asm[k].op = asm[j].op

(* setHandlerSize accepts a nonzero size exactly when it is a power of two, *)
(* and the handler_size_bits it stores is its log2: the repeated halving    *)
(* and the 1 << bits check agree.  Zero is left out: the comments of        *)
(* setHandlerSize say 0 is accepted while line 89 rejects it, and that      *)
(* rejection is the NameError the mterp_uncaught run reports.               *)
HandlerSizeAcceptance ==
  [][hsBytes' # hsBytes /\ hsBytes' # 0 =>
       /\ hsBits' # Unset <=> IsPowerOfTwo(hsBytes')
       /\ hsBits' # Unset => 2^hsBits' = hsBytes']_vars

(* The alternate table is emitted at most once: op-end emits it unless     *)
(* split-ops was given, and alt-ops "triggers the emission if it was not   *)
(* already produced".                                                      *)
AltTableEmittedOnce == Cardinality(Positions("start", "alt")) <= 1

(* Every rejected config line is a DataParseError: the driver reports      *)
(* "Failed: ...", closes the output files and exits 1; no other exception  *)
(* escapes the config loop.                                                *)
NoUncaughtException == status # "crashed"

(* Every run of the script ends, and a run that ends with exit 0 has      *)
(* written the dispatch table and, when an alt line or asm-alt-stub turned *)
(* generate_alt_table on, the alternate table: the end of the config file  *)
(* is not a way to succeed without the tables the interpreter indexes.     *)
TablesWrittenOnExit ==
  <>[](status \notin {"setup", "running"} /\ (ExitCode = 0 => PrimaryDone /\ (genAlt => AltDone)))

(* No label or global symbol is defined twice in the assembly output, and  *)
(* the alias dvmAsmInstructionStart = .L_OP_NOP has its target defined.     *)
LabelsDefinedOnce ==
  /\ \A k, j \in DefiningPositions : k # j => Defines(asm[k]) # Defines(asm[j])
  /\ PrimaryDone => \E k \in DOMAIN asm : Defines(asm[k]) = Label("primary", 0)

=============================================================================
