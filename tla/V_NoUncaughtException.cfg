\* The opcode tables written by op-end and alt-ops for every config of up to
\* MaxConfigLines command lines.
CONSTANTS
  NumOps = 2
  Dirs <- MCDirs
  StubFiles <- MCStubFiles
  AltStubFiles <- MCAltStubFiles
  ImportFiles <- MCImportFiles
  Ext <- MCExt
  Frag <- MCFrag
  SizeArgs <- MCSizeArgs
  StyleArgs <- MCStyleArgs
  Commands <- AllCommands
  MaxConfigLines = 7
  MalformedLines <- BadLines
  None = None
  UnknownOp = UnknownOp
  HeaderOpCounts = {1, 2}
SPECIFICATION Spec
\* The generator exits after the last config line or the first error.
CHECK_DEADLOCK FALSE





INVARIANT NoUncaughtException
