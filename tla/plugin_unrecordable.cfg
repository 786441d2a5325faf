SPECIFICATION Spec

CONSTANTS
    NONE = NONE
    NotText = NotText
    Refs = {"v1"}
    Unportable <- MCUnportable
    Drives <- MCDrives
    PluginNames <- MCNames
    INDEX_NAME = "index"
    MANIFEST_NAME = "manifest"
    RECORD_NAME = "installed.json"
    MAX_PATH_BYTES = 4
    MAX_PATH_DEPTH = 2
    MAX_ENTRY_BYTES = 2
    MAX_ENTRIES = 3
    MAX_TOTAL_BYTES = 3
    Width <- MCWidth
    ByteOrder <- MCByteOrder
    Engine <- MCEngine
    Cases <- MCUnrecordableCases

CHECK_DEADLOCK FALSE

PROPERTIES
    RecordKept
