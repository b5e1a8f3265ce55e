SPECIFICATION EditorSpec
CONSTANTS
    EditTypes = {"main", "loop", "fc"}
    Kilowatts = {1}
    MaxRows = 3
    MaxEdits = 4
    MaxPower = 1000000
PROPERTY
    ShownIsStored
CHECK_DEADLOCK FALSE
