---------------------------- MODULE DiskContents ----------------------------
(***************************************************************************)
(* What a nibble disk image promises: sectors that are numbered from the   *)
(* first of track 0 on, and tracks of the format RW18 whose bytes are.  An *)
(* insertion puts its data from a number on, sector by sector or track by  *)
(* track, for as long as there is data and disk.  There are no nibbles     *)
(* here, and a sector needs no carry into the next track.                  *)
(***************************************************************************)
EXTENDS Integers, Sequences

CONSTANTS Tracks, Sectors, SectorSize, TrackSize, NoSide, NoSector, Protected

VARIABLES
    sectors, \* what each sector holds
    sides,   \* the side each RW18 track belongs to
    bytes,   \* the bytes of each RW18 track
    worn,    \* RW18 tracks that a sector was put on
    todo     \* the insertion under way, and the data it has still to put

vars == <<sectors, sides, bytes, worn, todo>>

Idle == [format |-> "none", side |-> NoSide, at |-> -1, data |-> <<>>]

Prefix(data, n) == SubSeq(data, 1, n)
Rest(data, n) == SubSeq(data, n + 1, Len(data))

IsSector(at) == at \in 0 .. Tracks * Sectors - 1
IsByte(at) == at \in 0 .. Tracks * TrackSize - 1

Begin ==
    /\ todo = Idle
    /\ todo' # Idle
    /\ UNCHANGED <<sectors, sides, bytes, worn>>

(* A sector wears the RW18 track below it, which may not be recognised any *)
(* more.                                                                   *)
Wear(track) ==
    /\ \/ sides' = sides
       \/ sides' = [sides EXCEPT ![track] = NoSide]
    /\ worn' = {t \in worn \cup {track} : sides'[t] # NoSide}
    /\ \A t \in DOMAIN bytes \ {track} : bytes'[t] = bytes[t]

PutSector ==
    /\ todo.format = "rwts16"
    /\ todo.data # <<>>
    /\ Len(todo.data) >= SectorSize
    /\ IsSector(todo.at)
    /\ sectors' = [sectors EXCEPT ![todo.at] = Prefix(todo.data, SectorSize)]
    /\ Wear(todo.at \div Sectors)
    /\ todo' = [todo EXCEPT !.at = @ + 1, !.data = Rest(@, SectorSize)]

PutProtected ==
    /\ todo.format = "rwts16cp"
    /\ IsSector(todo.at)
    /\ sectors' = [sectors EXCEPT ![todo.at] = Protected]
    /\ Wear(todo.at \div Sectors)
    /\ todo' = Idle

(* As much of the data as the track has room for. *)
Fitting ==
    LET room == TrackSize - (todo.at % TrackSize)
    IN  IF room < Len(todo.data) THEN room ELSE Len(todo.data)

(* The rest of the track keeps its bytes if it was of the same side, and   *)
(* is cleared if not.                                                      *)
PutTrack ==
    LET track == todo.at \div TrackSize
        first == todo.at % TrackSize
        old == bytes[track]
        new == bytes'[track]
    IN  /\ todo.format = "rw18"
        /\ todo.data # <<>>
        /\ IsByte(todo.at)
        /\ \A t \in DOMAIN bytes \ {track} : bytes'[t] = bytes[t]
        /\ \A p \in DOMAIN old :
               IF p \in first .. first + Fitting - 1
               THEN new[p] = todo.data[p - first + 1]
               ELSE IF sides[track] # todo.side THEN new[p] = 0
               ELSE track \notin worn => new[p] = old[p]
        /\ sides' = [sides EXCEPT ![track] = todo.side]
        /\ worn' = worn \ {track}
        /\ sectors' = [p \in DOMAIN sectors |->
                          IF p \div Sectors = track THEN NoSector ELSE sectors[p]]
        /\ todo' = [todo EXCEPT !.at = (track + 1) * TrackSize,
                                !.data = Rest(@, Fitting)]

(* An insertion is over when its data has been put, and in error when what *)
(* is left makes no sector or has no place.                                *)
IsPut == todo.format # "rwts16cp" /\ todo.data = <<>>

IsStuck ==
    \/ todo.format = "rwts16" /\ (Len(todo.data) < SectorSize \/ ~IsSector(todo.at))
    \/ todo.format = "rwts16cp" /\ ~IsSector(todo.at)
    \/ todo.format = "rw18" /\ ~IsByte(todo.at)

Stop ==
    /\ todo # Idle
    /\ IsPut \/ IsStuck
    /\ todo' = Idle
    /\ UNCHANGED <<sectors, sides, bytes, worn>>

Init ==
    /\ sectors = [p \in 0 .. Tracks * Sectors - 1 |-> NoSector]
    /\ sides = [t \in 0 .. Tracks - 1 |-> NoSide]
    /\ bytes = [t \in 0 .. Tracks - 1 |-> [p \in 0 .. TrackSize - 1 |-> 0]]
    /\ worn = {}
    /\ todo = Idle

Next == Begin \/ PutSector \/ PutProtected \/ PutTrack \/ Stop

Spec == Init /\ [][Next]_vars

-----------------------------------------------------------------------------
(* A track that is read as RW18 without a doubt holds no sector: a sector  *)
(* put there later has made it unreadable or its checksum wrong, and an    *)
(* RW18 track put there has left nothing of the sectors                    *)
(* (writeRWTS16Sector, writeRW18Track).                                    *)
OneFormatPerTrack ==
    \A p \in 0 .. Tracks * Sectors - 1 :
        \/ sectors[p] = NoSector
        \/ sides[p \div Sectors] = NoSide
        \/ p \div Sectors \in worn
=============================================================================
