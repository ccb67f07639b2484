SPECIFICATION Spec
CONSTANTS
    MaxUint = 3
    Kilo = 2
    BlockCounts = {0, 1, 2, 3}
    MaximumInterfaces = 2
    Answers <- MCAnswers
    RangeLists <- MCRangeLists
    MemoryEntries <- MCMemoryEntries
    ThermalZones <- MCThermalZones
    DeviceAnswers <- MCDeviceAnswers
    BlockSizes <- MCBlockSizes
INVARIANTS
    EncoderAccepts
    ServedWhenUseful
    HonestDocument
    ExactQuantities
