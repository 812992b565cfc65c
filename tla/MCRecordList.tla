---------------------------- MODULE MCRecordList ----------------------------
EXTENDS RecordList

CONSTANTS o1, o2
=============================================================================
