CONSTANTS
    Text <- Letters
    RawPaths <- Used
    MountAt <- Points
    Systems = {f1, f2, f3}
SYMMETRY Alike
SPECIFICATION Spec
PROPERTIES IsMountTable
