---------------------------- MODULE MCControlCore ----------------------------
(* An instance of ControlCore for TLC.  The wheels do not interact in the    *)
(* core, and the proofs are for any set of them: one is enough here.         *)
EXTENDS ControlCore

CONSTANT left

OneWheel == {left}

\* A value within the clamps, one beyond them in the other direction, and 0.
RawValues == {-2, 0, 1}
=============================================================================
