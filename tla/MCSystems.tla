------------------------------- MODULE MCSystems -------------------------------
(* TLC instances of Systems: a TCP and a serial connection. *)
EXTENDS Systems

CONSTANTS c1, c2

Kinds == [c \in Conn |-> IF c = c1 THEN "tcp" ELSE "serial"]
===============================================================================
