------------------------------ MODULE MCNibbles ------------------------------
(* Bytes that differ in one place from a row or from zeros, at the edges   *)
(* of the three parts of 86 bytes the auxiliary bytes are made of.         *)
EXTENDS Nibbles

Bases == {[i \in 1 .. 256 |-> i - 1], [i \in 1 .. 256 |-> 0]}

Offsets == {1, 2, 3, 5, 9, 85, 86, 87, 171, 172, 173, 255, 256}

MCObjects ==
    {[base EXCEPT ![i] = v] : base \in Bases, i \in Offsets, v \in {0, 1, 2, 63, 64, 128, 255}}

MCPlaces == [track : {0, 34}, sector : {0, 5, 15}]

MCSides == {169, 121}

MCDamages == [at : {2, 3, 4, 5, 9, 10, 11, 13, 14, 25, 26, 27}, nibble : {150, 151, 170, 255}]
=============================================================================
