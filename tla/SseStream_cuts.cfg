\* Every way the network can cut up to three lines, with up to one time unit
\* between steps.
CONSTANTS
  MaxLines = 3
  MaxDelay = 1
  Tokens <- TokensOf
  Streams <- StreamsOf
SPECIFICATION Spec
INVARIANTS
  TypeOK
  TallyIgnoresCuts
  GapsTelescope
  RecordConsistent
