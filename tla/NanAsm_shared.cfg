\* The WithShared tests of nan.cpp against their names.
SPECIFICATION Spec
INVARIANT SharedAsNamed
