CONSTANTS
    Keys <- MCKeys
    LeafMaxes = {2, 4}
    InternalMax = 4
    MaxPages = 13
SPECIFICATION Spec
INVARIANTS ScansExact TreeShape PagesAccounted RootRecorded
