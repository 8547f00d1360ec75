# TLA+ models of the Dalvik source generators

This directory holds TLA+ models of the Python tools under `src/`:

- `src/dalvik/vm/mterp/gen-mterp.py` builds the interpreter's dispatch tables.
- `src/dalvik/vm/compiler/template/gen-template.py` builds the JIT templates.
- `src/dalvik/tools/deadcode.py` lists the methods of a jar that nothing calls.

The models are checked with TLC. `spec.md` describes what the generators
promise. Every definition here is translated from the Python source, and
`PROJECT.json` maps each one to the lines it models.

## The system

`gen-mterp.py` runs once per target architecture. It reads
`config-<arch>` one line at a time. Each command either sets a module-level
global or drives the opcode-table state machine. The parts are:

| Part | Code | State |
|---|---|---|
| Config driver | main loop, lines 576-633 | `failed`; the "handler-style must be first" check after each command |
| Config handlers | `setHandlerStyle` ... `genaltop`, lines 59-237 | `style`, `handler_size_*`, `in_op_start`, `default_op_dir`, `default_alt_stub`, `opcode_locations`, `alt_opcode_locations`, `asm_stub_text`, `generate_alt_table`, `splitops` |
| Emitter | `loadAndEmitOpcodes`, `loadAndEmitAltOpcodes`, `emitJmpTable`, `loadAndEmitC/Asm/AltStub`, `emitAsmHeader/Stub`, `emitAlign`, lines 197-421 | the two output files; `sister_list` (continuation code) |
| Template expander | `appendSourceFile`, lines 438-502 (a copy is in gen-template.py, lines 245-309) | the substitution dictionary; `in_sister` |
| Opcode list | `getOpcodeList` | regex scan of a header; read-only afterwards |
| Start-up | main, lines 521-571 | argument check, opcode list, `config_fp`, `c_fp` then `asm_fp` |

The driver calls the handlers. `op-end` (and `alt-ops`) call the emitter. The
emitter calls the expander once per opcode and table. An `import` calls the
expander directly.

Errors are meant to be `DataParseError`s. The driver catches those, closes
both files and exits 1. Any other exception escapes as a traceback.

`gen-template.py` is the same driver with fewer commands: no handler-style,
no alt, no alt-ops, no split-ops, and one output stream. Its `%break` does not
depend on a style.

`src/dalvik/tools/deadcode.py` is an unrelated dump scanner. It shares
nothing with the generators.

The program is single-threaded. Nothing is persisted between runs, and there
are no messages or timers. The hard behaviour is the sequence of config
lines, which may legally come in many orders, and the interaction of
recursive includes, dictionary scoping and the sister-list diversion.

## Modules

### `GenMterp.tla` — driver, handlers and emitter of gen-mterp.py

**Variables.** Each variable is one of the script's globals (same names,
camel-cased). `status`, `stopLine` and `lines` stand for the driver:

- `status` is `running`, `done`, `failed` (DataParseError) or `crashed` (an
  uncaught exception).
- `asm` and `cOut` are the two output files, as sequences of blocks. A block
  is a labelled handler slot, stub, dummy, section marker, sister
  continuation or jump-table word. Each block records the `.balign` argument
  written before it and whether its text after `%break` was diverted.

**Actions.** One action is one config line, and each action is the whole
handler:

- `SetHandlerStyle`, `SetHandlerSize`, `ImportFile`/`ImportBadExt`,
  `SetAsmStub`, `SetAsmAltStub`, `OpStart`, `OpEntry`, `AltEntry`, `OpEnd`,
  `AltOps`, `SplitOps`.
- `Malformed` covers an unrecognized word, or a command with the wrong
  number of tokens.
- `EndOfConfig` is the end of the file.
- `Setup` is the start of `main`, before the config loop. Each way it can
  end is a disjunct:
  - a wrong argument count exits 2;
  - `getOpcodeList` fails, either because the header is missing or because
    its count of `H(OP_x)` entries (from `HeaderOpCounts`) is not
    kNumPackedOpcodes (`OpcodeListOk`);
  - the config file cannot be opened;
  - InterpC cannot be created;
  - InterpAsm cannot be created after InterpC was already truncated;
  - success: both files are opened and the loop starts.

  `outputs` records which output files were opened with `"w"`. `ExitCode`
  is the process's exit status.

Each action includes the driver's check that `style` is set (`Proceed`) and
the except clause (`Fail`/`Stop`). `OpEnd` and `AltOps` compute the whole
emission with `PrimaryPass` and `AltPass`. Both are `FoldLeft`s over the
opcodes of the per-opcode step of the loop: `PrimaryStep`/`EmitOpcode` and
`AltStep`.

**Abstraction.** A fragment file is reduced to its content class (`Frag`):

- plain;
- with `%break`;
- missing: `open` raises IOError, which is uncaught;
- with an unbound `$key`: KeyError, which becomes DataParseError;
- empty (used for the asm stub).

What the expander does inside a fragment is the subject of `TemplateExpand`.

### `TemplateExpand.tla` — appendSourceFile

A library maps each file name to a sequence of abstract lines:

- text naming at most one placeholder;
- `%include f` with an optional dictionary;
- `%default` with a dictionary;
- `%verify`;
- `%break`;
- a malformed directive.

`Expand`/`ExpandLine` translate `appendSourceFile` line by line. They include:

- the copy-and-update dictionary of `%include`;
- `setdefault` for `%default`;
- the direct self-include check;
- recursion until Python's limit (`MaxDepth`), which crashes;
- the per-call `in_sister`;
- the condition `sister_list != None` on `%break`, and the style test of
  gen-mterp (gen-template's expander is the case `cg = TRUE`).

The same module states the expander `spec.md` §4.2 describes, as `RefExpand`.
It gives each line a declarative scope, diverts includes after `%break`,
treats `%break` without a sister list as a no-op, and rejects every cycle
through a visited set.

There is one action, `AppendSourceFile`. It expands the root fragment, for
every library `Init` admits, with and without a sister list, under two
styles. Both results are kept in the state, so properties compare the code's
expander with the spec's.

### `GenTemplate.tla` — driver and emitter of gen-template.py

**Variables.** These are the script's globals `handler_size_*`, `in_op_start`,
`default_op_dir`, `opcode_locations` (`opLocs`) and `asm_stub_text`
(`asmStub`), plus the driver's `status`, `stopLine` and `lines`. The other
variables are:

- `opcodes`: the result of `getOpcodeList`. `Init` takes any list in
  `OpcodeLists`: up to `MaxTemplates` names, repeats included, because
  nothing checks the header's entries.
- `asm`: the output file, as a sequence of items. It holds the generator's
  own marks (start, label, size) and everything `appendSourceFile` writes.
- `sister`: the `sister_list` of the last `op-end`.

**Composition.** The expander is not abstracted here. `TE == INSTANCE
TemplateExpand` supplies `Expand`, which runs over a small library of
fragment files `Lib`. `Append1` adds the file marker and the `IOError` of a
missing file. `EmitTemplate` is `loadAndEmitAsm`: the header label, then the
fragment `Path(Loc(n), n)` expanded with `TemplateDict(k)`.
`LoadAndEmitOpcodes` folds it over the list.

**Actions.** `SetHandlerSize`, `ImportFile`, `SetAsmStub`, `OpStart`,
`OpEntry`, `OpEnd`, `Malformed` and `EndOfConfig`, plus `Setup`, the start
of `main` as in `GenMterp`. `Setup` has a single output file, and the
template list is the header's content, chosen in `Init`. Each action other
than `Setup` is one config line,
and each includes the except clause of the driver (`Stop`).

### `TemplateTable.tla` — the op-table bracket, abstractly

This module states what the spec promises about `op-start`/`op`/`op-end`,
independent of fragments:

- the bracket opens once;
- overrides count only while it is open;
- closing it fixes the table: one entry per listed opcode, in order, from
  its override or the default directory;
- a failed run voids the output.

`GenTemplate` defines `Table == INSTANCE TemplateTable WITH ...`. The
refinement mapping works as follows:

- the phase comes from `in_op_start` and `status`;
- the table is read back from the labels and file markers in `asm`.

`TableRefinement == Table!Spec` is checked as a PROPERTY.

`GenMterp` refines the same module for its primary table
(`Primary == INSTANCE TemplateTable WITH ...`, `PrimaryRefinement`):

- `Names` is the opcode set, and `ops` is the list `0..NumOps-1`;
- the phase comes from `in_op_start` and `status`;
- the table is read back by `PrimaryReadBack`. It takes the opcode and
  location of each primary slot in the assembly file and of each C fragment
  in the C file. Then it merges the two streams by opcode (`MergeByOp`).

The merge keeps each stream's own order, so a slot written out of order
still shows in the read-back. An alternate table, an `alt-ops` or an
`import` written after `op-end` must leave the read-back unchanged.

A failing step may record a directory before it raises: `op-start` stores
`default_op_dir` and then fails the driver's handler-style-first check.
`Abort` therefore leaves `defDir` and `locs` unconstrained. Nothing reads
them after a failure.

### `Deadcode.tla` — deadcode.py

A dump is a sequence of lines, and a line is a sequence of tokens. There are
header lines (`<<Hdr, name>>`), index lines (`<<Idx>> \o sig`) and code lines,
which may contain the word `invoke`. Signatures are short sequences of
characters, so one can be a substring of another.

The three functions are operators on the buffer text. Each is translated
from its loop:

- `SplitSections` includes the `buffer[anchor]` of the last section;
- `FindMethods`;
- `CallsFrom`, the `while` loop of `CallsMethod`, with `str.find` as `Find`.
  The loop returns `"hang"` when its state (`start`) repeats.

`Main` is `main()`: the usage exit, the split, a KeyError for a missing
section, and the report loop. Reference definitions (`RefSections`,
`Invokes`, `CalledIn`) state what the docstrings describe.

## Runs

| Run | Cfg | Expect | What it shows |
|---|---|---|---|
| mterp_tables | MC_GenMterp.cfg | pass | See the list below. |
| mterp_alt_twice | V_AltTableEmittedOnce.cfg | violation | `alt-ops` without `split-ops` writes the alternate table a second time (every `.L_ALT_` label twice). |
| mterp_uncaught | V_NoUncaughtException.cfg | violation | `handler-size 0/12/-4` raises NameError or ValueError: the format string uses the undefined `orig_bytes`. The comments of `setHandlerSize` call 0 valid. gen-template.py:69 is the same code. |
| mterp_tables_written | V_TablesWrittenOnExit.cfg | violation | Under weak fairness every run ends. But an empty config, or one that stops after `op-start`, exits 0 with no dispatch table. So does one with `asm-alt-stub` after `op-end`, without its alternate table (`TablesWrittenOnExit`, liveness). |
| mterp_labels | V_LabelsDefinedOnce.cfg | violation | an assembly OP_NOP plus one C opcode without a stub defines `.L_OP_NOP` twice, because of the dummy. |
| template_scoping | MC_TemplateExpand.cfg | pass | See the list below. |
| template_routing | V_ContinuationRouting.cfg | violation | a fragment included after `%break` stays in the main stream. |
| jit_templates | MC_GenTemplate.cfg | pass | gen-template.py refines `TemplateTable` (`TableRefinement`). |
| jit_continuation | VT_ContinuationKept.cfg | violation | a template with `%break` loses its continuation: `loadAndEmitOpcodes` never writes its local `sister_list`. |
| deadcode_report | MC_Deadcode.cfg | pass | See the list below. |
| deadcode_last_section | VD_SectionsFaithful.cfg | violation | the last section of the dump is stored as one character. |
| deadcode_substring | VD_DeadReportExact.cfg | violation | a method whose signature is a suffix of an invoked one (`x` in `invoke yx`) is not reported dead. |

The mterp_tables run checks these properties, over every config of up to 7
command lines:

- the primary table refines `TemplateTable`: one handler per opcode, in
  order, from its override or the `op-start` directory, and unchanged by
  anything written later (`PrimaryRefinement`);
- every alternate table holds one entry per opcode, in order, from its
  `alt` override or the default alt stub (`AltTablesFaithful`);
- every diverted continuation is in the sister block after the table
  (`NoLostContinuation`);
- handler-size accepts a nonzero size exactly when it is a power of two,
  and stores its log2 as `handler_size_bits` (`HandlerSizeAcceptance`, an
  action property).

  The property says nothing about 0. The comments of `setHandlerSize`
  (lines 69-70 and 82) call 0 valid, but line 89 rejects it. That rejection
  is the NameError that mterp_uncaught reports, and `PROJECT.json` lists it
  as a finding.

The template_scoping run checks these properties:

- every text line gets the value of the spec's scope: include copies and
  `setdefault` (`SubstitutionScoping`);
- called without a sister list, the code's expander fails exactly when the
  spec's does (also `SubstitutionScoping`).

An include cycle through two fragments (`a→b→a`) recurses until Python's
RuntimeError (`MaxDepth`), where the spec's expander rejects it. No property
is checked on that: the spec only asks a "defensive implementation" to catch
such cycles.

The deadcode_report run checks these properties:

- no method that a line of `codes` invokes is printed as dead, provided
  `codes` is not the last section. This holds even when the signature first
  occurs on a line without `invoke`, since the loop goes on past it
  (`NoFalseDead`).
- the report finishes whenever no signature is empty
  (`NonEmptyScanTerminates`). With an empty signature, `find` returns `start`
  itself and the loop never ends.

Each violation run checks one property that `spec.md` or a docstring
states, and TLC finds a counterexample. `PROJECT.json` "findings" gives the
source line of each. Every property of a passing run is violated by a mutant,
a plausible bug in the mapped code, which is listed in `PROJECT.json`.

Some behaviours are modelled but checked by no run. The hazards in
`PROJECT.json` record each with its reason:

- a second `handler-style`;
- `handler_size_bytes = -1000` in imports and in `.balign`;
- repeated JIT template names;
- `%break` without a sister list;
- gen-template.py exiting 0 at the end of a config that never reached
  `op-end` (gen-mterp's twin is run as mterp_tables_written);
- the KeyError of deadcode.py when dx fails;
- InterpC left truncated when InterpAsm cannot be created.

## Bounds and why they are enough

**MC_GenMterp**

- `NumOps = 2`: OP_NOP and one more opcode. This allows a different location
  for each, which is what the dummy-label and override cases need.
- Four directories: `c`, plain, `%break`, and missing.
- Stubs that are plain, empty and missing. Alt stubs that are plain and
  missing.
- Imports with `.cpp` (unbound key), `.S` and a wrong extension.
- Sizes `-4, 0, 12, 64`: negative, zero, a non-power and a power.
- The three styles plus one invalid style.
- Malformed lines.
- Up to 7 command lines. Every table bug above needs at most 5 lines, and 7
  allows style + size + stub + op-start + op + op-end + alt-ops.

This run reaches about 1.8 million distinct states in about 80 seconds.

**MC_TemplateExpand**

- Two fragments, of up to 3 and 2 lines.
- Every directive.
- One placeholder `k` with two values, plus the global `opcode`.
- `MaxDepth = 3`, enough for a two-fragment cycle to exceed it.

This run reaches 373,100 libraries × calls.

**MC_GenTemplate**

- Two templates and two directories.
- The library gives:
  - a template with `%break` and `$handler_size_bytes`;
  - a template that includes a common file with a dictionary that overrides
    its `%default`;
  - a template with an unbound key;
  - a missing template.
- Opcode lists of length 0 to 3, repeats included. With three entries, a
  repeated name can sit beside a distinct one.
- Sizes 0 and 64.
- Good, missing and wrong-extension imports and stubs.
- Up to 9 config lines, which is enough for size + import + stub +
  op-start + three op lines + op-end + one more.

This run reaches about 435,000 states in about 20 seconds.

**MC_Deadcode**

- Every dump of up to five lines, over:
  - three section names;
  - the signatures empty, `x` and `yx`;
  - four code lines: `invoke x`, `invoke yx`, `x`, and `x invoke x`.
- Five lines is the least that puts both sections, an index entry and a
  call before a closing header. `x invoke x` is the line where the first
  reference is not the call.

This run reaches 222,224 states.

## Fairness

Each program is a terminating, single-pass script. Deadlock checking is off
(`CHECK_DEADLOCK FALSE`) because the programs really do stop: the end of the
config or the first error ends a generator, and `main()` ends deadcode.py.

`GenMterp` defines `FairSpec == Spec /\ WF_vars(Next)`, which only the
mterp_tables_written run uses. The code justifies weak fairness:

- the driver is one thread;
- it handles each line to its end and waits on nothing;
- the config file is finite, so while it runs some step (the next line or
  the end of the file) is always enabled.

Without fairness, `TablesWrittenOnExit` would fail trivially by stuttering
in `Init`. Under fairness, every counterexample TLC reports is a run that
really ends.

The other runs check safety and action properties, and need no fairness.
deadcode.py's scan loop runs inside one step, and the model detects a
repeated loop state (`NonEmptyScanTerminates`).

## Not modelled

- **Output text.** Comment lines, whitespace and exact label spelling are
  left out. Labels are kept as (table, opcode) pairs, or as template names.
- **File and header text.** `getOpcodeList`'s regex match of each line and
  the file headers written at start-up are text. What the scan can find is
  modelled: the entry count for gen-mterp, and any list in `OpcodeLists` for
  gen-template. Whether each open succeeds is a `Setup` alternative.
- **Running dx.** `os.popen` is I/O. The dump is an input.
- **Dead code in gen-template.py.** `emitAsmStub` and `emitSectionComment`
  are never called.
- **GenMterp's fragments** are content classes (`Frag`), not the composed
  expander:
  - The emitter depends on the expander only through its result (ok,
    DataParseError or a crash) and whether the fragment diverted text after
    `%break`. `FragResult` and the `divert` flag of `EmitOpcode` carry both.
  - What the shared expander does inside a fragment is checked by
    template_scoping and template_routing.
  - Composition with the real expander is shown by `GenTemplate`, which
    uses the same code.
  - Composing it into `GenMterp` as well would make each `op-end` expand
    every fragment for every opcode and table. That multiplies the cost of
    the mterp runs, which already take about 80 seconds, and the properties
    would see nothing new.

## Further work

- An abstract spec of gen-mterp's alternate tables, with a refinement like
  the one of the primary table. `AltTablesFaithful` already states the
  content of every alternate table. The code can emit the table twice (the
  mterp_alt_twice finding), so such a spec would have to admit repeated
  tables.
- A violation run for the gen-template hazards without one: duplicate
  template labels, and exit 0 without `op-end`. The bug is the same as the
  one gen-mterp's runs show.
