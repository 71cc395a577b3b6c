\* Some messages fit under the header limit together.
CONSTANTS
  Block = 4
  MaxHeader = 9
  MaxRequired = 0
  Word = 64
SPECIFICATION EchoSpec
INVARIANT EchoesWhatItGot
\* The connection may be closed.
CHECK_DEADLOCK FALSE
