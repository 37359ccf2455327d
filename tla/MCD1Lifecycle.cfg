SPECIFICATION PluginSpec
CONSTANTS
    Calls = {c1, c2}
    Names = {"FEATURES", "WRONG"}
    Configured = "FEATURES"
INVARIANTS
    BatchesOfActivePlugin
PROPERTIES
    FallsSilent
