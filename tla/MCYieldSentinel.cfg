SPECIFICATION Spec
INVARIANTS
    GeneratorInferred
