SPECIFICATION Spec
CONSTANTS
    DeviceWait = 2
    RngWait = 2
    Name <- MCName
    StoragePoints <- MCStoragePoints
    SharePoints <- MCSharePoints
    KeyPaths <- MCKeyPaths
CHECK_DEADLOCK FALSE
INVARIANTS
    RequiredShareIsMounted
