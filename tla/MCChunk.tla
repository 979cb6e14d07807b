------------------------------- MODULE MCChunk -------------------------------
\* A column of four layers in two sections whose floor is below zero.
EXTENDS Chunk

FloorY == -3
AllSurfaces == {-4, -3, -2, -1, 1}
=============================================================================
