SPECIFICATION Spec
CONSTANTS
    Fanout = 4
    MaxFrame = 63
    Maps <- MCMaps
    HHDM_Offset = 128
    VirtualKernelStart = 224
    PhysicalKernelStart = 57
    KernelSize = 2
    SystemData = 239
    HeapStart = 240
    InitHeap = 1
    MaxHeap = 3
    Devices <- MCDevices
INVARIANTS
    TranslationsAsAsked
    TablesApart
    HeapPagesApart
    KernelKeepsItsGround
PROPERTIES
    LiveTranslationsStay
