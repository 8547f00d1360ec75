---------------------------- MODULE TemplateTable ----------------------------
(***************************************************************************)
(* What the op-start / op / op-end bracket of a generator promises         *)
(* (spec.md 3, 4.1, 4.3), independent of how fragments are expanded: the  *)
(* bracket opens once, per-opcode overrides are recorded only while it is  *)
(* open (a later one for the same opcode wins), and closing it emits the  *)
(* table once: one entry per listed opcode, in list order, each from its  *)
(* override or the default directory.  A run ends either normally, with  *)
(* whatever table was emitted, or by failing, which invalidates the       *)
(* output.                                                                 *)
(***************************************************************************)
EXTENDS Sequences, SequencesExt

CONSTANTS
  Names,   \* opcode (template) names
  Dirs,    \* source directories
  None

VARIABLES
  phase,   \* "idle", "open", "closed", then "done" or "failed"
  ops,     \* the opcode list, fixed for the run
  defDir,  \* default directory given when the bracket opened
  locs,    \* locs[n]: override directory of opcode n, None if none
  table    \* the emitted table: <<name, directory>> per entry

vars == <<phase, ops, defDir, locs, table>>

Loc(n) == IF locs[n] # None THEN locs[n] ELSE defDir

Init ==
  /\ phase = "idle"
  /\ ops \in Seq(Names)
  /\ defDir = None
  /\ locs = [n \in Names |-> None]
  /\ table = << >>

Start(d) ==
  /\ phase = "idle"
  /\ phase' = "open"
  /\ defDir' = d
  /\ UNCHANGED <<ops, locs, table>>

Override(n, d) ==
  /\ phase = "open"
  /\ n \in ToSet(ops)
  /\ locs' = [locs EXCEPT ![n] = d]
  /\ UNCHANGED <<phase, ops, defDir, table>>

Close ==
  /\ phase = "open"
  /\ phase' = "closed"
  /\ table' = [k \in DOMAIN ops |-> <<ops[k], Loc(ops[k])>>]
  /\ UNCHANGED <<ops, defDir, locs>>

Finish ==
  /\ phase \in {"idle", "open", "closed"}
  /\ phase' = "done"
  /\ UNCHANGED <<ops, defDir, locs, table>>

\* The failing step may have recorded a directory first; after a failure
\* nothing is read again, so defDir and locs are left unconstrained.
Abort ==
  /\ phase \in {"idle", "open", "closed"}
  /\ phase' = "failed"
  /\ table' = << >>
  /\ UNCHANGED ops

Next ==
  \/ \E d \in Dirs : Start(d)
  \/ \E n \in Names, d \in Dirs : Override(n, d)
  \/ Close
  \/ Finish
  \/ Abort

Spec == Init /\ [][Next]_vars

=============================================================================
