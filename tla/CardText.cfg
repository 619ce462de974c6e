SPECIFICATION Spec
CONSTANTS
  LineKinds = {"words", "link", "blank", "heading", "fence", "fenceLang", "rule", "row", "separator"}
  MaxLines = 5
INVARIANT KeepsLines
INVARIANT CodeStaysPlain
INVARIANT ModesAgree
PROPERTY FormsSettle
CHECK_DEADLOCK FALSE
