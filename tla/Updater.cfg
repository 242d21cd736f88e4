SPECIFICATION Spec
CONSTANTS
  unit = unit
  shell = shell
  Helpers <- Both
  Ops = {1, 2}
  Latest = 2
  MaxFaults = 1
INVARIANTS OneInstaller Reversible
SYMMETRY HelperSymmetry
