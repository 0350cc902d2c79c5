CONSTANTS
  Words <- MCWords
SPECIFICATION Spec
INVARIANTS DecodesTheFormats FetchAgreesWithDecode StaticPredictsBackward
