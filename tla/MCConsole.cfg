SPECIFICATION Spec
CONSTANTS
  Readers = {r1, r2}
  INPUT_BUF = 3
  UINT = 6
  Letters = {a}
  Lens = {0, 1, 4}
  NL = NL
  CR = CR
  EOF = EOF
  None = None
SYMMETRY Symmetry
INVARIANTS NeverStuck NoLostWakeup
PROPERTY RefinesLineInput
