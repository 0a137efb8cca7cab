------------------------------ MODULE MicroRosRing ------------------------------
(***************************************************************************)
(* The receive ring of Uart1 as a part of MicroRosTask: its program        *)
(* counter is `at' here, since `pc' is the task's own in MicroRos, so that *)
(* the two can stand in one module.                                        *)
(***************************************************************************)
EXTENDS Integers

CONSTANTS Size, HighWater, MaxRead, Burst, MaxBytes, MaxErrors

VARIABLES ring, wpos, dma, armed, tail, overflows, armFails, at, left,
          sent, errors, fresh, owed, rush

U == INSTANCE Uart1 WITH pc <- at

ASSUME RingAssumption == U!MarginOK

RingSpec == U!Spec
FairRingSpec == U!FairSpec

\* While neither counter of platform_uart1.c moved the reader gets no byte of the stream
\* twice or out of order, and misses some only after a rush (platform_uart1_read()).
StreamIsHonest == U!StreamIsHonest

\* A receive error does not end reception for good (platform_uart1_rearm_if_needed()).
ReceptionResumes == U!ReceptionResumes
=============================================================================
