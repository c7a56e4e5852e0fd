---------------------------- MODULE MCPythonHandle ----------------------------
(***************************************************************************)
(* Values of the constants of PythonHandle for TLC.                        *)
(***************************************************************************)
EXTENDS PythonHandle

(* Two file objects, the first with more than one byte.                    *)
TwoFiles == <<2, 1>>
===============================================================================
