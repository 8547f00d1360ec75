\* appendSourceFile against the spec's expander on every library of the bounds.
CONSTANTS
  Files <- MCFiles
  Root = "a.S"
  Keys = {"k"}
  Vals = {"1", "2"}
  GlobalDict <- MCGlobalDict
  Alphabet <- MCAlphabet
  MaxLen <- MCMaxLen
  MaxDepth = 3
  None = None
SPECIFICATION Spec
\* One call of appendSourceFile, after which the generator moves on.
CHECK_DEADLOCK FALSE
INVARIANT ContinuationRouting
