---------------------------- MODULE MCCoreAgent ----------------------------
(* Two chats on one host that ask, suggest, or write high-risk commands on *)
(* their own; ask stands for the legacy path as well, which asks the same  *)
(* of these commands.                                                      *)
EXTENDS CoreAgent

CONSTANTS s1, rm, vi

OneSession == [r \in Runs |-> s1]

Kind == [c \in {rm, vi} |-> IF c = rm THEN "high" ELSE "interactive"]

With(policy, autoHigh, gate) ==
    [policy |-> policy, autoHigh |-> autoHigh, locked |-> FALSE, needsEvidence |-> gate]

SomeSettings ==
    {With("ask", FALSE, TRUE), With("suggest", FALSE, FALSE), With("auto", TRUE, FALSE)}
=============================================================================
