SPECIFICATION Spec
CONSTANTS
    Files = {a, s}
    Streams = {s}
    NoFile = NoFile
    NoTime = NoTime
    Length = 2
    Users <- SampleUsers
INVARIANTS OnlyLastOpen OneFileUnlessPending RenderedAsMarked
PROPERTIES KeepsPieces RenderEnds
CHECK_DEADLOCK FALSE
