SPECIFICATION PluginSpec
CONSTANTS
    Plugins = {"logs", "traces"}
    Configs = {"cfg1"}
    Off = "off"
    NoPlugin = "none"
    EnvSnapshots <- MCEnvSnapshots
    MaxSets = 0
    MaxPluginFaults = 1
PROPERTY
    OutageKeepsPlugins
CHECK_DEADLOCK FALSE
