CONSTANT MaxLines = 6
SPECIFICATION SafeSpec
INVARIANT ParseOkMeansRequest
CHECK_DEADLOCK FALSE
