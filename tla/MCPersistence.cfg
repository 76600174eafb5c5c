CONSTANTS
    MaxState = 3
SPECIFICATION Spec
INVARIANTS
    TypeOK
    BootWritableOnlyByJob
    BluetoothDownOnlyForReset
PROPERTIES
    SavedComesBack
    BluetoothComesBack
