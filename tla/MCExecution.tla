---------------------------- MODULE MCExecution ----------------------------
(***************************************************************************)
(* Three parties at the points 1, 2 and 4 of a field of five elements;     *)
(* 6 bits stand for the 64 of base_t: like 2^64 modulo 31, the base of     *)
(* test_protocol.cpp, 2^6 modulo 5 is not 0.                               *)
(***************************************************************************)
EXTENDS Execution

MCPar == 1 .. 3
MCAlpha == <<1, 2, 4>>
MCPartySets == {<<1, 2>>, <<1, 2, 3>>, <<3, 2>>}
MCSamples == {<< <<1>>, <<2>>, <<4>> >>, << <<3>>, <<0>>, <<3>> >>}
=============================================================================
