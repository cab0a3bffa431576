------------------------------ MODULE MCServer ------------------------------
(***************************************************************************)
(* Small instances of Server for TLC: connections of different devices in  *)
(* one room, a device that reconnects beside another (a and d), or devices *)
(* of two rooms that share an ID (b and d).                                *)
(***************************************************************************)
EXTENDS Server

CONSTANTS a, b, d,      \* connections
          x, y, z,      \* IDs
          lan, wifi     \* rooms

OneRoom  == [c \in Conn |-> lan]
TwoRooms == [c \in Conn |-> IF c = d THEN wifi ELSE lan]

UniqueIds == [c \in Conn |-> CASE c = a -> x [] c = b -> y [] c = d -> z]
SharedId  == [c \in Conn |-> IF c = b THEN y ELSE x]

SameIdElsewhere == [c \in Conn |-> IF c = a THEN x ELSE y]

StaleAtD == {<<d, 1>>}
=============================================================================
