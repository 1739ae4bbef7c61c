-------------------------- MODULE MCHostKeyPrompt --------------------------
(* Two handshakes with one host, which may present two different keys.     *)
EXTENDS HostKeyPrompt

CONSTANTS c1, c2, h1

SameHost == [c \in {c1, c2} |-> h1]
=============================================================================
