CONSTANTS
    PIPE_BUF_SIZE = 3
    MAX_PIPES = 1
    Bytes = {0, 1}
    Zero = 0
    MaxLen = 4
SPECIFICATION PipeSpec
INVARIANTS PipeTypeOK RingConsistent
PROPERTY FifoSpec
