---------------------------- MODULE MCCacheManager ----------------------------
(* Instances of CacheManager for TLC: chunks c0 and c1 are in cells of their   *)
(* own, unless the file has only one.                                          *)
EXTENDS CacheManager

CONSTANTS c0, c1

MCPart == [c \in Chunks |-> IF c = c0 THEN 0 ELSE 1]
=============================================================================
