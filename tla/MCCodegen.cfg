SPECIFICATION Spec
CONSTANTS
  Specs <- MCSpecs
  Depth <- MCDepth
  Schemas <- MCSchemas
  Format <- MCFormat
  Keyword <- MCKeyword
  SpecialKeyword <- MCSpecialKeyword
CHECK_DEADLOCK FALSE
INVARIANTS NothingLost MentionsDenote
