------------------------------ MODULE MCPaste ------------------------------
(* Lengths for TLC: a downloaded image is longer than its URL.             *)
EXTENDS Paste

MCSrcLen == [s \in Sources |-> IF s = "data" THEN 2 ELSE 1]
=============================================================================
