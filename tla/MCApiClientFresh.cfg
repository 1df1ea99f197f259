SPECIFICATION Spec
CONSTANTS
    Tasks = {t1, t2}
    MAX_RETRIES = 1
    MaxKeys = 2
    NoTask = NoTask
SYMMETRY Symmetry
PROPERTIES
    RetryUsesFreshKey
