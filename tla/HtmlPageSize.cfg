SPECIFICATION Spec
CONSTANT Header = 4
CONSTANT Cap = 16
CONSTANT Page = 8
CONSTANT Align = 4
CONSTANT Tags = {"html", "div"}
CONSTANT MaxAttrs = 1
INVARIANT PageSizeExact
CHECK_DEADLOCK FALSE
