------------------------------ MODULE MCHandles ------------------------------
(* Small instances of Handles for TLC. *)
EXTENDS Handles

CONSTANTS dir, one

MCSessions == {1, 2}
MCTables   == {3, 4}
MCRecords  == {5, 6}
MCPaths    == {dir}
MCNames    == {one}
=============================================================================
