CONSTANTS
  FieldBits = 2
  WordBits = 8
SPECIFICATION Spec
INVARIANT PackInjective
