---------------------------- MODULE MCGetWindow ----------------------------
EXTENDS GetWindow, TLC

CONSTANTS a, b, c
ThreeBlocks == {a, b, c}
=============================================================================
