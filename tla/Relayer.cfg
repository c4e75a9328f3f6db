\* Four blocks, three failures in a row, the process started twice.
\* A process that was killed may never be started again: then nothing is left to do.
CONSTANTS
    MAX_RETRIES = 3
    MaxHead = 4
    StartLimit = 2
SPECIFICATION FairSpec
INVARIANTS TypeOK EachEventOnce
PROPERTY EventsAreReported
CHECK_DEADLOCK FALSE
