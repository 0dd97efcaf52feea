---------------------------- MODULE MCSnapshotFeed -----------------------------
EXTENDS SnapshotFeed

CONSTANTS none, invalid

BothSides == {"bid", "ask"}
================================================================================
