---------------------------- MODULE MCMmapReplay ----------------------------
(* Instance of MmapReplay for TLC: two rows in memory and two or three in  *)
(* the file, enough pushes to turn both rings around twice.                *)
EXTENDS MmapReplay
=============================================================================
