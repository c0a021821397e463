CONSTANTS
    Pids = {n1, n2, n3}
    Absent = Absent
    Empty = Empty
    AllUsers <- AnyUsers
SPECIFICATION Spec
INVARIANTS SingleInstance FilesNameTheLiving
SYMMETRY PidSymmetry
CHECK_DEADLOCK FALSE
