SPECIFICATION Spec
CONSTANTS
    Courses = {0, 2}
    MaxPoints = 2
    MaxSegments = 2
    PerPage = 1
    PageNum = 8
    HeaderPage <- RoomyHeader
    PointPage <- RoomyPoint
    SegmentPage = 4
    MaxCycles = 2
    MaxStores = 2
INVARIANTS
    TypeOK
    LoadFits
PROPERTIES
    LoadGivesStored
    StoresAreSeparate
