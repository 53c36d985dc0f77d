SPECIFICATION Spec
CONSTANTS
    p1 = p1
    p2 = p2
    Process = {p1, p2}
    Configurer = {p1}
    Upgrader = {p1, p2}
    LastPath = 4
    UserManifest = 1
    ManagedManifest = 2
    EditorPath <- MCEditorPath
    MaxEdits = 1
    MaxStaging = 2
    MaxCommands = 2
    Absent = Absent
    None = None
INVARIANTS RecordsTrue
PROPERTIES WayBack FailureLeavesNothing UserFilesKept ActionUsedOnce
CHECK_DEADLOCK FALSE
