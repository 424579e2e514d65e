---------------------------- MODULE MCRecordLog ----------------------------
\* Small instances of RecordLog for TLC.
EXTENDS RecordLog
=============================================================================
