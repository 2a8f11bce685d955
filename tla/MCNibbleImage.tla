---------------------------- MODULE MCNibbleImage ----------------------------
(* Two tracks of 21 cells: five sectors of two bytes, or two RW18 sectors  *)
(* of six bytes each.  Sector 1 lies within the data of an RW18 sector,    *)
(* the others on its frame.                                                *)
EXTENDS NibbleImage

Data(first, n) == [i \in 1 .. n |-> first + i]

Insert(op, s, t, place, data) ==
    [op |-> op, side |-> s, track |-> t, place |-> place, data |-> data]

(* Single sectors, runs into the next track and off the disk, half a       *)
(* sector at the end, no data, and places that are none.                   *)
SectorInserts ==
    {Insert("rwts16", 1, t, 1, Data(10, 2)) : t \in 0 .. 1}
        \cup {Insert("rwts16", 1, 0, s, Data(20, 3)) : s \in {0, 2}}
        \cup {Insert("rwts16", 1, t, 3, Data(30, 6)) : t \in 0 .. 1}
        \cup {Insert("rwts16", 1, 0, 5, Data(10, 2)), Insert("rwts16", 1, 2, 0, Data(10, 2)),
              Insert("rwts16", 1, 0, 0, <<>>)}

ProtectedInserts == {Insert("rwts16cp", 1, t, 1, <<>>) : t \in 0 .. 2}

(* Parts of a track, all of it, and runs into the next and off the disk.   *)
TrackInserts ==
    {Insert("rw18", s, 0, 5, Data(40, 3)) : s \in 1 .. 2}
        \cup {Insert("rw18", s, 0, 0, Data(50, 12)) : s \in 1 .. 2}
        \cup {Insert("rw18", 1, t, 7, Data(60, 9)) : t \in 0 .. 1}
        \cup {Insert("rw18", 1, 1, 12, Data(40, 3)), Insert("rw18", 1, 2, 0, Data(40, 3))}

MCInserts ==
    SectorInserts \cup ProtectedInserts \cup TrackInserts
        \cup {Insert("block", 1, 0, 0, Data(10, 2))}

MCJunk == {0, 99}
=============================================================================
