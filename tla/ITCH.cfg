\* All messages of the protocol in buffers of several sizes.
SPECIFICATION Spec
CONSTANTS
    Wire <- AllOnWire
    Offsets <- AllOffsets
    BufferSizes = {1, 2, 3, 60}
    Refused = {1, 88}
INVARIANTS
    TypeOK
    NothingIsHeldBack
    FieldsAreAtTheirPlace
PROPERTIES
    HandlesTheStream
    CallsReturn
