SPECIFICATION Spec
CONSTANTS
  MaxId = 2
INVARIANTS
  TypeOK
  NoneSkipped
  OnceEach
PROPERTIES
  Goes
