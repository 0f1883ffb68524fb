SPECIFICATION Spec
CONSTANTS
  Instances = {a1, a2}
  Nobody = Nobody
  MaxStarts = 2
  MaxFaults = 1
  Callers = {c1}
  Probing = TRUE
INVARIANTS LoneInstanceRegistered QuietListIsCurrent
PROPERTIES ChoicesSettle
