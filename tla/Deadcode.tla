------------------------------ MODULE Deadcode ------------------------------
(***************************************************************************)
(* src/dalvik/tools/deadcode.py: run dx on a jar, split its dump into     *)
(* sections at header lines, take the method signatures of the 'method    *)
(* code index' section, and print every one the 'codes' section never     *)
(* invokes.                                                                *)
(*                                                                         *)
(* Text is a sequence of tokens.  NL is the newline; "invoke" stands for   *)
(* any invoke-kind opcode word; signature characters come from SigChars.   *)
(* A dump is a sequence of lines, each a token sequence without NL:       *)
(*   <<Hdr, name>>       a header line   "  |name:"                        *)
(*   <<Idx>> \o sig      an index line   "  |[abcd] sig"                   *)
(*   anything else       a code line                                       *)
(* Positions are 1-based; 0 stands for Python's -1 (not found).           *)
(***************************************************************************)
EXTENDS Integers, Sequences, SequencesExt

CONSTANTS
  NL, Hdr, Idx,     \* newline, header marker, index-entry marker
  SectionNames,     \* names a header can carry
  Sigs,             \* method signatures (sequences of SigChars)
  Dumps,            \* the dx dumps (line sequences) a run may read
  None

IndexName == "method code index"
CodesName == "codes"

VARIABLES
  argOk,     \* len(sys.argv) == 2 and argv[1] ends with ".jar"
  dump,      \* the lines dx writes to the pipe
  sections,  \* SplitSections(data): section name -> text
  methods,   \* FindMethods(...): the signatures, in order
  out        \* what main printed and how it ended; None before it runs

vars == <<argOk, dump, sections, methods, out>>

-----------------------------------------------------------------------------
(* The text of a line sequence as it sits in the buffer after a header:   *)
(* the header's own newline, then every line followed by its newline.      *)
Text(ls) == FoldLeft(LAMBDA acc, l : acc \o l \o <<NL>>, <<NL>>, ls)

IsHeader(l) == Len(l) = 2 /\ l[1] = Hdr

\* SplitSections: headerPattern.search from start; result.end() is the end
\* of the header line, before its newline, so anchor is that newline.  A
\* later header of the same name overwrites the earlier entry.
SplitSections(buf) ==
  LET hs == SelectSeq([k \in 1 .. Len(buf) |-> k], LAMBDA k : IsHeader(buf[k]))
      Body(j) == IF j < Len(hs)
                 THEN Text(SubSeq(buf, hs[j] + 1, hs[j + 1] - 1))  \* buffer[anchor:result.start()]
                 ELSE <<NL>>                                        \* buffer[anchor]: one character
  IN FoldLeft(LAMBDA acc, j : (buf[hs[j]][2] :> Body(j)) @@ acc,
              [n \in {} |-> <<>>], [j \in 1 .. Len(hs) |-> j])

\* The lines of a text, split at its newlines (the text starts with one).
LinesOf(t) ==
  LET nl == SelectSeq([i \in 1 .. Len(t) |-> i], LAMBDA i : t[i] = NL) \o <<Len(t) + 1>>
  IN [j \in 1 .. Len(nl) - 1 |-> SubSeq(t, nl[j] + 1, nl[j + 1] - 1)]

\* Mutant of FindMethods: the whole match (group(0)) instead of group(1).
FindMethodsWholeLine(section) ==
  SelectSeq(LinesOf(section), LAMBDA l : l # << >> /\ l[1] = Idx)

\* FindMethods: methodPattern is line-anchored, (.*) stops at the newline.
FindMethods(section) ==
  LET ls == SelectSeq(LinesOf(section), LAMBDA l : l # << >> /\ l[1] = Idx)
  IN [j \in DOMAIN ls |-> Tail(ls[j])]

\* str.find(sub, s): the first i >= s at which sub occurs in t.
Find(t, sub, s) ==
  LET at == {i \in s .. (Len(t) + 1 - Len(sub)) : SubSeq(t, i, i + Len(sub) - 1) = sub}
  IN IF at = {} THEN 0 ELSE Min(at)

\* Mutant of CallsFrom: the first reference decides; the loop never goes on.
RECURSIVE CallsFirstOnly(_, _, _)
CallsFirstOnly(codes, method, start) ==
  LET match == Find(codes, method, start)
      startOfLine == SelectLastInSubSeq(codes, 1, match - 1, LAMBDA c : c = NL) + 1
  IN IF match = 0 THEN "uncalled"
     ELSE IF SelectInSubSeq(codes, startOfLine, match - 1, LAMBDA c : c = "invoke") # 0
          THEN "called"
          ELSE "uncalled"

\* Mutant of CallsFrom: the scan resumes at the rejected match itself.
RECURSIVE CallsFromNoAdvance(_, _, _)
CallsFromNoAdvance(codes, method, start) ==
  LET match == Find(codes, method, start)
      startOfLine == SelectLastInSubSeq(codes, 1, match - 1, LAMBDA c : c = NL) + 1
  IN IF match = 0 THEN "uncalled"
     ELSE IF SelectInSubSeq(codes, startOfLine, match - 1, LAMBDA c : c = "invoke") # 0
          THEN "called"
          ELSE IF match = start THEN "hang"
          ELSE CallsFromNoAdvance(codes, method, match)

\* The while loop of CallsMethod from `start`.  With an empty method the
\* match is `start` itself and start = match + len(method) never moves: the
\* loop repeats the same state forever ("hang").
RECURSIVE CallsFrom(_, _, _)
CallsFrom(codes, method, start) ==
  LET match == Find(codes, method, start)
      startOfLine == SelectLastInSubSeq(codes, 1, match - 1, LAMBDA c : c = NL) + 1
  IN IF match = 0 THEN "uncalled"
     ELSE IF SelectInSubSeq(codes, startOfLine, match - 1, LAMBDA c : c = "invoke") # 0
          THEN "called"
          ELSE IF match + Len(method) = start THEN "hang"
          ELSE CallsFrom(codes, method, match + Len(method))

CallsMethod(codes, method) == CallsFrom(codes, method, 1)

\* The report loop of main: print each uncalled method, stop in a hang.
Report(codes, ms) ==
  FoldLeft(LAMBDA acc, m :
             IF acc.st # "done" THEN acc
             ELSE CASE CallsMethod(codes, m) = "uncalled" -> [acc EXCEPT !.dead = Append(@, m)]
                    [] CallsMethod(codes, m) = "hang"     -> [acc EXCEPT !.st = "hang"]
                    [] OTHER                              -> acc,
           [st |-> "done", dead |-> << >>], ms)

Init ==
  /\ argOk \in BOOLEAN
  /\ dump \in IF argOk THEN Dumps ELSE {<< >>}
  /\ sections = [n \in {} |-> << >>]
  /\ methods = << >>
  /\ out = None

\* main(): a bad command line prints the usage and exits; otherwise the
\* dump is split, and indexing a missing section raises KeyError.
Main ==
  LET secs == SplitSections(dump)
      ms == FindMethods(secs[IndexName])
  IN
  /\ out = None
  /\ \/ /\ ~argOk
        /\ out' = [st |-> "usage", dead |-> << >>]
        /\ UNCHANGED <<sections, methods>>
     \/ /\ argOk
        /\ sections' = secs
        /\ IF {IndexName, CodesName} \subseteq DOMAIN secs
           THEN methods' = ms /\ out' = Report(secs[CodesName], ms)
           ELSE methods' = << >> /\ out' = [st |-> "crashed", dead |-> << >>]
  /\ UNCHANGED <<argOk, dump>>

Next == Main

Spec == Init /\ [][Next]_vars

-----------------------------------------------------------------------------
(* Reference definitions: what the docstrings describe.                   *)

HeaderPositions(buf) == SelectSeq([k \in 1 .. Len(buf) |-> k], LAMBDA k : IsHeader(buf[k]))

\* "The entire contents of that section": the lines after each header up
\* to the next header or the end of the dump; a later header of the same
\* name replaces the earlier one, as in a dict.
RefSections(buf) ==
  LET hs == HeaderPositions(buf)
      Until(j) == IF j < Len(hs) THEN hs[j + 1] - 1 ELSE Len(buf)
  IN FoldLeft(LAMBDA acc, j : (buf[hs[j]][2] :> SubSeq(buf, hs[j] + 1, Until(j))) @@ acc,
              [n \in {} |-> << >>], [j \in 1 .. Len(hs) |-> j])

\* Line l invokes method m: m is the operand after an invoke word.
Invokes(l, m) == \E i \in DOMAIN l : l[i] = "invoke" /\ SubSeq(l, i + 1, Len(l)) = m

\* The dump does not end inside its 'codes' section.
CodesClosed(buf) ==
  LET hs == HeaderPositions(buf) IN hs # << >> => buf[hs[Len(hs)]][2] # CodesName

CalledIn(buf, m) == \E l \in ToSet(RefSections(buf)[CodesName]) : Invokes(l, m)

-----------------------------------------------------------------------------
(* Properties                                                              *)

SigChars == UNION {ToSet(s) : s \in Sigs}
Tokens == {NL, Hdr, Idx, "invoke"} \cup SectionNames \cup SigChars

TypeOK ==
  /\ argOk \in BOOLEAN
  /\ dump \in Seq(Seq(Tokens))
  /\ DOMAIN sections \subseteq SectionNames
  /\ \A n \in DOMAIN sections : sections[n] \in Seq(Tokens)
  /\ methods \in Seq(Sigs)
  /\ out \in {None} \cup [st : {"usage", "done", "hang", "crashed"}, dead : Seq(Sigs)]

(* No live method is printed as dead: when the dump's 'codes' section is  *)
(* followed by another, every method CallsMethod reports uncalled has no  *)
(* line in 'codes' that invokes it, however often its signature occurs    *)
(* elsewhere first (the loop of CallsMethod goes on past those).          *)
NoFalseDead ==
  out # None /\ out.st \in {"done", "hang"} /\ CodesClosed(dump) =>
    \A k \in DOMAIN out.dead : ~CalledIn(dump, out.dead[k])

(* SplitSections keeps the entire contents of every section, as its       *)
(* docstring says, the last one included.                                 *)
SectionsFaithful ==
  \A n \in DOMAIN sections : sections[n] = Text(RefSections(dump)[n])

(* Exactly the methods no line of 'codes' invokes are printed as dead:     *)
(* CallsMethod returns "whether or not there is a method invocation line  *)
(* that lists the method as the target".                                 *)
DeadReportExact ==
  out # None /\ out.st = "done" /\ CodesClosed(dump) =>
    \A k \in DOMAIN methods : methods[k] \in ToSet(out.dead) <=> ~CalledIn(dump, methods[k])

(* main finishes its report whenever every signature FindMethods         *)
(* extracts is non-empty: the scan of CallsMethod moves start past each    *)
(* reference it rejects, so it cannot revisit one.  (An empty signature    *)
(* matches at start itself and does loop forever.)                        *)
NonEmptyScanTerminates ==
  out # None /\ << >> \notin ToSet(methods) => out.st # "hang"

=============================================================================
