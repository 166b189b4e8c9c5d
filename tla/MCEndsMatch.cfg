CONSTANTS
    PIPE_BUF_SIZE = 1
    MAX_PIPES = 1
    Bytes = {0}
    Zero = 0
    MaxLen = 1
    MAX_OPEN_FILES = 4
    NumStd = 1
    Pids = {p1, p2}
    Kernel = Kernel
    Programs = {p1, p2}
SYMMETRY Perms
VIEW View
SPECIFICATION DescSpec
INVARIANT EndsMatchDescriptors
