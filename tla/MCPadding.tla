----------------------------- MODULE MCPadding -----------------------------
(* Bytes of three values and buffers of nine: a payload of three is the      *)
(* first whose length takes both bytes of the header.                        *)
EXTENDS Padding

MCContent == <<1, 0, 2, 2, 1, 0>>
=============================================================================
