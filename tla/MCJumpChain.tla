---------------------------- MODULE MCJumpChain ----------------------------
(* JumpChain with interchangeable connects.                                *)
EXTENDS JumpChain, TLC

AnyAttempt == Permutations(Attempts)
=============================================================================
