CONSTANTS
  i = i  a = a  b = b
  Charge = i
  Others = {a, b}
  Products <- SomeProducts
  OtherRefs <- Malformed
  MaxGlitches = 1
SPECIFICATION Spec
SYMMETRY Symmetric
CHECK_DEADLOCK FALSE
INVARIANTS VerdictIsRecord DeclineIsFinal RefundAnswersTrue PayoutAnswersTrue RoutedHome
