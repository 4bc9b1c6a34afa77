SPECIFICATION Spec
CONSTANTS
    MaxEntries = 1
    MaxLosses = 1
PROPERTIES
    HistoryFits
