--------------------------- MODULE MC_FrameReader ---------------------------
EXTENDS FrameReader

\* Four frames, with payloads of 3, 0, 1 and 2 bytes, behind headers of 8.
Frames == <<0, 11, 19, 28, 38>>
=============================================================================
