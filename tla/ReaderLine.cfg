CONSTANTS
    Models = {"ext2", "zwerg", "other"}
    Kinds = {"sync", "direct", "inverse", "foreign"}
    Fs = {372}
    Ds = {4, 16}
    None = None
SPECIFICATION Spec
INVARIANTS LineAgrees CardReached ProbeFinds
