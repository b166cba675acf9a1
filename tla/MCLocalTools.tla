---------------------------- MODULE MCLocalTools ----------------------------
(* Instance of LocalTools for TLC: three MCP sources, two of which may be  *)
(* active, and every delivery mode.                                        *)
EXTENDS LocalTools

CONSTANTS a, b, c, k1, k2, k3

Sources == {a, b, c}
Cursors == {k1, k2, k3}
=============================================================================
