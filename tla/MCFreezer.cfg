SPECIFICATION Spec
CONSTANTS
    headers = headers
    bodies = bodies
    light = light
    heavy = heavy
    Table <- MCTable
    Payload <- MCPayload
    Size <- MCSize
    MaxFileSize = 3
    BufferLimit = 1
    MaxItems = 3
INVARIANTS
    ItemsReadable
    TablesAgree
