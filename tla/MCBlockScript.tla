--------------------------- MODULE MCBlockScript ---------------------------
(* Short scripts for BlockScript: objects of a few sizes, one with a place *)
(* of its own, and image tables; places at the edges of blocks, tracks,    *)
(* sides and the image.                                                    *)
EXTENDS BlockScript

Plain(length) ==
    [readable |-> TRUE, length |-> length, side |-> 0, track |-> 0,
     offset |-> 0, count |-> 0, addresses |-> <<0>>]

Usr == [Plain(600) EXCEPT !.side = 173, !.track = 34, !.offset = 4600]

Table(count, length, end) ==
    [Plain(length) EXCEPT
        !.count = count,
        !.addresses = [i \in 1 .. count + 1 |->
                          IF i = 1 THEN TableAddress + 3 + 2 * count ELSE end]]

Missing == [Plain(0) EXCEPT !.readable = FALSE]

TheObjects ==
    {Missing, Usr, Plain(0), Plain(100), Plain(512), Table(1, 300, TableAddress + 200),
     Table(255, 700, TableAddress + 600), [Table(2, 9, 0) EXCEPT !.length = 5]}

Place(op, object) ==
    [op |-> op, object |-> object, from |-> 0, length |-> Star, block |-> 0,
     intra |-> 0, side |-> Star, track |-> Star, offset |-> Star, table |-> NoTable]

BlockLines ==
    {[Place("block", o) EXCEPT !.block = b, !.intra = n] :
        o \in {Plain(0), Plain(100), Plain(512)}, b \in {0, Star, 1599}, n \in {0, 412}}
    \cup {[Place("block", Plain(100)) EXCEPT !.block = b] : b \in {1600, Word \div BlockSize}}
    \cup {[Place("block", Plain(100)) EXCEPT !.intra = BlockSize]}

LengthLines ==
    {[Place("block", Plain(100)) EXCEPT !.from = f, !.length = n, !.intra = 1] :
        f \in {0, 1, 100}, n \in {511, 512, Word - 1}}

Rw18Lines ==
    {[Place("rw18", Usr) EXCEPT !.side = s, !.track = t, !.offset = n] :
        s \in Sides \cup {65536 + 169}, t \in {0, 34}, n \in {0, 300, 4000, 4607}}
    \cup {[Place("rw18", Usr) EXCEPT !.side = 0],
          [Place("rw18", Usr) EXCEPT !.track = 35],
          [Place("rw18", Usr) EXCEPT !.offset = BytesPerTrack],
          [Place("rw18", Usr) EXCEPT !.from = 1, !.length = Word - 1]}

TableLines ==
    {[Place("rw18", o) EXCEPT !.side = 121, !.track = 3, !.offset = 256, !.table = t] :
        o \in TheObjects \ {Usr}, t \in {0, 65000}}

TheLines ==
    {Place(op, Usr) : op \in {"comment", "other", "rwts16", "rwts16cp", "rw18"}}
        \cup {Place("block", Missing)}
        \cup BlockLines \cup LengthLines \cup Rw18Lines \cup TableLines
=============================================================================
