SPECIFICATION CmdSpec
CONSTANTS
    Settings = {"id_a", "plug_e", "perm_big", "id_w", "path_w"}
    TooBig = {"perm_big"}
    Fds = {1, 2}
    MaxFaults = 1
    MaxFlight = 20
    Inputs <- MCInputs
    SettingOf <- MCSettingOf
INVARIANTS ActionIsWhole
PROPERTIES LineIsDone
CHECK_DEADLOCK FALSE
