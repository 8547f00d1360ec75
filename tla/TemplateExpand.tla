--------------------------- MODULE TemplateExpand ---------------------------
(***************************************************************************)
(* appendSourceFile, the template expander shared by gen-mterp.py and      *)
(* gen-template.py: it writes a "/* File: */" marker, then reads the       *)
(* fragment line by line: %include expands another fragment recursively    *)
(* with a copy of the dictionary updated by the include's parameters,      *)
(* %default adds keys the dictionary lacks, %verify is skipped, %break     *)
(* sends the rest of the fragment to sister_list, and every other line is  *)
(* written after $-substitution; a blank separator line ends the fragment. *)
(*                                                                         *)
(* A fragment library is a function from file names to sequences of       *)
(* lines, each line abstracted to its directive and arguments; a text line *)
(* is identified by its position and names at most one placeholder.  One  *)
(* step is one call of appendSourceFile on the root fragment.  The module *)
(* also states the expander the spec describes (RefExpand): a %break      *)
(* diverts the fragments included after it too, a %break without a sister *)
(* list is a no-op, and every include cycle is a template error.           *)
(***************************************************************************)
EXTENDS Integers, Sequences, SequencesExt, TLC

CONSTANTS
  Files,      \* fragment file names
  Root,       \* the fragment appendSourceFile is called on
  Keys,       \* placeholder names fragments use
  Vals,       \* values include parameters and %default bind
  GlobalDict, \* getGlobalSubDict() updated with opcode / opnum
  Alphabet,   \* the lines a fragment may consist of
  MaxLen,     \* MaxLen[f]: bound on the number of lines of fragment f
  MaxDepth,   \* nesting depth at which Python raises RuntimeError
  None

ASSUME /\ Root \in Files
       /\ "opcode" \in DOMAIN GlobalDict
       /\ MaxDepth > Cardinality(Files)

(* Line forms.  param: the inline dictionary of %include (None: no        *)
(* dictionary) or of %default; a malformed %include / %default has no     *)
(* file / dictionary argument ("malformed").                               *)
Text(k) == [d |-> "text", key |-> k]
Include(f, p) == [d |-> "include", file |-> f, param |-> p]
Default(p) == [d |-> "default", param |-> p]
Verify == [d |-> "verify"]
Break == [d |-> "break"]
Malformed == [d |-> "malformed"]

\* Output items: the file marker, the separator, a substituted text line
\* (fragment, line number, value substituted, None if the line has no
\* placeholder), the continuation header of sister_list, and a directive
\* line written out verbatim.
FileMark(f) == [i |-> "file", f |-> f]
Sep == [i |-> "sep"]
TextOut(f, j, v) == [i |-> "text", f |-> f, j |-> j, v |-> v]
ContHeader(op) == [i |-> "cont", v |-> op]
Raw(f, j) == [i |-> "raw", f |-> f, j |-> j]

VARIABLES
  lib,     \* the fragment library on disk
  call,    \* the call made: sister list passed?, style; None before it
  result,  \* what appendSourceFile produced
  ref      \* what the expander of the spec produces for the same call

vars == <<lib, call, result, ref>>

Libraries == {l \in [Files -> SeqOf(Alphabet, Max({MaxLen[f] : f \in Files}))] :
                \A f \in Files : Len(l[f]) <= MaxLen[f]}

-----------------------------------------------------------------------------
(* appendSourceFile(source, dict, outfp, sister_list).  sisOn: sister_list *)
(* is not None; cg: style == "computed-goto" (gen-template.py has no style *)
(* and behaves as cg = TRUE).                                              *)

\* Mutant of ApplyDefault: %default overwrites (dict.update).
ApplyDefaultOverwrite(dict, p) == p @@ dict

\* for entry in defaultValues: dict.setdefault(entry, defaultValues[entry])
ApplyDefault(dict, p) == dict @@ p

\* new_dict = dict.copy(); new_dict.update(eval(tokens[2]))
IncludeDict(dict, p) == IF p = None THEN dict ELSE p @@ dict

\* alt_source == source
SelfInclude(line, source) == line.file = source

KeyError == "KeyError"

\* Mutant of Substitute: Template.safe_substitute leaves "$key" in the text.
SafeSubstitute(dict, key) ==
  CASE key = None -> None [] key \in DOMAIN dict -> dict[key] [] OTHER -> key

\* Template(line).substitute(dict) for a line naming placeholder key
Substitute(dict, key) ==
  CASE key = None -> None [] key \in DOMAIN dict -> dict[key] [] OTHER -> KeyError

RECURSIVE Expand(_, _, _, _, _, _)
\* One line of source (line number j) against the loop state acc.
ExpandLine(l, source, acc, j, sisOn, cg, depth) ==
  LET line == l[source][j]
      emit(item) == IF acc.inS THEN [acc EXCEPT !.sis = Append(@, item)]
                               ELSE [acc EXCEPT !.out = Append(@, item)]
  IN
  IF acc.res # "ok" THEN acc
  ELSE CASE line.d = "include" ->
              IF SelfInclude(line, source) THEN [acc EXCEPT !.res = "failed"]
              ELSE IF depth >= MaxDepth THEN [acc EXCEPT !.res = "crashed"]
              ELSE LET r == Expand(l, line.file, IncludeDict(acc.dict, line.param),
                                   sisOn, cg, depth + 1)
                   IN [acc EXCEPT !.out = @ \o r.out, !.sis = @ \o r.sis, !.res = r.res]
         [] line.d = "malformed" -> [acc EXCEPT !.res = "failed"]
         [] line.d = "default" -> [acc EXCEPT !.dict = ApplyDefault(@, line.param)]
         [] line.d = "verify" -> acc
         [] line.d = "break" /\ sisOn ->
              IF cg /\ ~acc.inS
              THEN [acc EXCEPT !.inS = TRUE, !.sis = Append(@, ContHeader(acc.dict["opcode"]))]
              ELSE acc
         [] line.d = "break" -> emit(Raw(source, j))     \* no sister_list: written verbatim
         [] Substitute(acc.dict, line.key) = KeyError ->
              [acc EXCEPT !.res = "failed"]          \* KeyError -> DataParseError
         [] OTHER -> emit(TextOut(source, j, Substitute(acc.dict, line.key)))

Expand(l, source, dict, sisOn, cg, depth) ==
  LET RECURSIVE Loop(_, _)
      Loop(acc, j) == IF j > Len(l[source]) THEN acc
                      ELSE Loop(ExpandLine(l, source, acc, j, sisOn, cg, depth), j + 1)
      r == Loop([out |-> << FileMark(source) >>, sis |-> << >>, dict |-> dict,
                 inS |-> FALSE, res |-> "ok"], 1)
  IN [out |-> IF r.res = "ok" THEN Append(r.out, Sep) ELSE r.out,
      sis |-> r.sis, res |-> r.res]

-----------------------------------------------------------------------------
(* The expander of the spec (section 4.2).  The scope of line j of f is    *)
(* the inherited dictionary, plus, for each key it lacks, the value of the *)
(* first %default before line j binding that key.  A %break, when a sister *)
(* list is supplied and the style relocates, diverts the rest of the       *)
(* fragment and every fragment it includes; without a sister list it is a *)
(* no-op.  Including any fragment already being expanded is an error.      *)
DefaultLines(l, f, j) == {i \in 1 .. (j - 1) : l[f][i].d = "default"}

Scope(l, f, j, dict) ==
  LET defs == DefaultLines(l, f, j)
      firstFor(k) == CHOOSE i \in defs : /\ k \in DOMAIN l[f][i].param
                                         /\ \A i2 \in defs : k \in DOMAIN l[f][i2].param => i <= i2
  IN [k \in DOMAIN dict \cup UNION {DOMAIN l[f][i].param : i \in defs} |->
        IF k \in DOMAIN dict THEN dict[k] ELSE l[f][firstFor(k)].param[k]]

Diverted(l, f, j, sisOn, cg, fromParent) ==
  fromParent \/ (sisOn /\ cg /\ \E i \in 1 .. (j - 1) : l[f][i].d = "break")

RECURSIVE RefExpand(_, _, _, _, _, _, _)
RefExpand(l, f, dict, sisOn, cg, visited, fromParent) ==
  LET RECURSIVE Loop(_, _)
      Loop(acc, j) ==
        IF j > Len(l[f]) \/ acc.res # "ok" THEN acc
        ELSE LET line == l[f][j]
                 sc   == Scope(l, f, j, dict)
                 div  == Diverted(l, f, j, sisOn, cg, fromParent)
                 put(item) == IF div THEN [acc EXCEPT !.sis = Append(@, item)]
                                     ELSE [acc EXCEPT !.out = Append(@, item)]
                 next ==
                   CASE line.d = "include" ->
                          IF line.file \in visited THEN [acc EXCEPT !.res = "failed"]
                          ELSE LET r == RefExpand(l, line.file, IncludeDict(sc, line.param),
                                                  sisOn, cg, visited \cup {line.file}, div)
                               IN [acc EXCEPT !.out = @ \o r.out, !.sis = @ \o r.sis,
                                              !.res = r.res]
                     [] line.d \in {"default", "verify", "break"} -> acc
                     [] line.d = "malformed" -> [acc EXCEPT !.res = "failed"]
                     [] line.key = None -> put(TextOut(f, j, None))
                     [] line.key \in DOMAIN sc -> put(TextOut(f, j, sc[line.key]))
                     [] OTHER -> [acc EXCEPT !.res = "failed"]
             IN Loop(next, j + 1)
  IN Loop([out |-> << >>, sis |-> << >>, res |-> "ok"], 1)

-----------------------------------------------------------------------------
Init ==
  /\ lib \in Libraries
  /\ call = None
  /\ result = None
  /\ ref = None

\* appendSourceFile(Root, GlobalDict, outfp, sister_list) for a style
AppendSourceFile(sisOn, style) ==
  LET cg == style = "computed-goto" IN
  /\ call = None
  /\ call' = [sister |-> sisOn, style |-> style]
  /\ result' = Expand(lib, Root, GlobalDict, sisOn, cg, 1)
  /\ ref' = RefExpand(lib, Root, GlobalDict, sisOn, cg, {Root}, FALSE)
  /\ UNCHANGED lib

Next == \E sisOn \in BOOLEAN, style \in {"computed-goto", "jump-table"} :
          AppendSourceFile(sisOn, style)

Spec == Init /\ [][Next]_vars

-----------------------------------------------------------------------------
(* Properties                                                              *)
IsText(item) == item.i = "text"
Texts(s) == SelectSeq(s, IsText)

Values == Vals \cup {GlobalDict[k] : k \in DOMAIN GlobalDict} \cup {None}
Lines == 1 .. Max({MaxLen[f] : f \in Files})
Items == {FileMark(f) : f \in Files} \cup {Sep} \cup {ContHeader(v) : v \in Values}
           \cup {TextOut(f, j, v) : f \in Files, j \in Lines, v \in Values}
           \cup {Raw(f, j) : f \in Files, j \in Lines}

TypeOK ==
  /\ lib \in [Files -> Seq(Alphabet)]
  /\ call \in [sister : BOOLEAN, style : {"computed-goto", "jump-table"}] \cup {None}
  /\ result \in [out : Seq(Items), sis : Seq(Items), res : {"ok", "failed", "crashed"}] \cup {None}
  /\ ref \in [out : Seq(Items), sis : Seq(Items), res : {"ok", "failed"}] \cup {None}

(* Dictionary scoping: the copy made for each %include and %default's      *)
(* setdefault give every text line the value the spec's declarative scope  *)
(* gives it: an include parameter shadows the inherited value for that     *)
(* fragment only, a %default never overrides a bound key, and a sibling    *)
(* include never sees another's parameters.  Checked for calls without a   *)
(* sister list, where the two expanders route nothing differently.         *)
SubstitutionScoping ==
  call # None /\ ~call.sister =>
    /\ (result.res = "ok") <=> (ref.res = "ok")
    /\ result.res = "ok" => Texts(result.out) = Texts(ref.out)

(* Relocation: with a sister list under computed-goto, the text after a    *)
(* %break, including the text of the fragments included after it, goes to *)
(* the sister block, and nothing else does.                                *)
ContinuationRouting ==
  call # None /\ result.res = "ok" =>
    /\ Texts(result.out) = Texts(ref.out)
    /\ Texts(result.sis) = Texts(ref.sis)

=============================================================================
