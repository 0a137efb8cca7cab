------------------------------ MODULE MCLegacyIo ------------------------------
(* Instances of LegacyIo for TLC: the frames the host sends.                 *)
EXTENDS LegacyIo

\* A drive command, a setting and a stop; each body is two bytes, so that a lost
\* or damaged byte can fall inside a frame, on its newline or between frames.
Three == 1 .. 3
ThreeLen == <<2, 2, 2>>
ThreeKind == <<"drive", "spd", "stop">>

\* Two one-byte commands.
Two == 1 .. 2
TwoLen == <<1, 1>>
TwoKind == <<"drive", "drive">>
=============================================================================
