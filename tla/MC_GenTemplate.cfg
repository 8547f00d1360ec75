\* The template table written by op-end, for every opcode list of up to three
\* templates and every config of up to MaxConfigLines command lines.
CONSTANTS
  Names <- MCNames
  MaxTemplates = 3
  Dirs <- MCDirs
  Lib <- MCLib
  ImportFiles <- MCImportFiles
  Ext <- MCExt
  StubFiles <- MCStubFiles
  StubExists <- MCStubExists
  SizeArgs <- MCSizeArgs
  Commands <- AllCommands
  MalformedLines <- BadLines
  MaxConfigLines = 9
  MaxDepth = 6
  None = None
  UnknownOp = UnknownOp
SPECIFICATION Spec
\* The generator exits after the last config line or the first error.
CHECK_DEADLOCK FALSE
INVARIANT TypeOK
PROPERTY TableRefinement
