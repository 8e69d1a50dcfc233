SPECIFICATION Spec
CONSTANTS
    Courses = {0, 1}
    MaxPoints = 2
    MaxSegments = 1
    PerPage = 1
    PageNum = 6
    HeaderPage <- SourceHeader
    PointPage <- SourcePoint
    SegmentPage = 5
    MaxCycles = 1
    MaxStores = 2
PROPERTIES
    StoresAreSeparate
