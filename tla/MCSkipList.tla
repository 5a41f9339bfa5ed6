----------------------------- MODULE MCSkipList -----------------------------
EXTENDS SkipListProps

FourKeys == 1 .. 4
TwoEntries == 1 .. 2
=============================================================================
