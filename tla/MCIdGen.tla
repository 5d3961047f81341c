------------------------------ MODULE MCIdGen ------------------------------
(* Timestamps on both sides of a digit boundary; seeds whose low bytes are
   about to carry, one that is about to overflow, one with a bit pattern that
   differs in every digit; draws of 0, 1, a byte, and nearly 32 bits.       *)
EXTENDS IdGen

SomeTimes == {31, 32, 33554431, 33554432, 2147483647}
SomeSeeds == { Zero,
               <<0, 0, 0, 0, 0, 255, 255, 255, 255, 254>>,
               <<127, 255, 255, 255, 255, 255, 255, 255, 255, 255>>,
               <<255, 255, 255, 255, 255, 255, 255, 255, 255, 254>>,
               <<180, 27, 99, 201, 54, 170, 85, 51, 204, 150>> }
SomeDraws == {0, 1, 255, 256, 65536, 2147483000}
=============================================================================
