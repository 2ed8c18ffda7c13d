------------------------------- MODULE MCWire -------------------------------
(* Inputs of Wire for TLC.                                                 *)
EXTENDS Wire

\* NULL, a byte, and strings that are empty or as long as their length's first byte allows,
\* with the bytes that mark an end or an error.
MCFields == {[field |-> "tiny", value |-> Null], [field |-> "tiny", value |-> << <<254>> >>],
             [field |-> "string", value |-> << <<>> >>],
             [field |-> "string", value |-> << [i \in 1..251 |-> 255] >>]}

Long(byte) == <<byte, 0, 0, 0, 0, 0, 0, 0>>
MCValues == {[kind |-> "null", bytes |-> <<>>], [kind |-> "bool", bytes |-> <<1>>],
             [kind |-> "int", bytes |-> Long(1)], [kind |-> "int", bytes |-> Long(7)],
             [kind |-> "uint", bytes |-> Long(9)], [kind |-> "double", bytes |-> Long(0)],
             [kind |-> "string", bytes |-> <<>>], [kind |-> "string", bytes |-> <<97, 0, 1>>],
             [kind |-> "buffer", bytes |-> <<1, 8, 0>>]}
=============================================================================
