SPECIFICATION Spec
CONSTANTS
    Bytes = {"j", "p", "e", "g", "n"}
    End <- JpegEnd
    MaxBytes = 5
    MaxChunk = 1
INVARIANT CutAtTheMark
CHECK_DEADLOCK FALSE
