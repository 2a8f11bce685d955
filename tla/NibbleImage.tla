---------------------------- MODULE NibbleImage ----------------------------
(***************************************************************************)
(* How crackle puts objects on a 5.25 inch disk image, which holds what    *)
(* the disk's head would read (libcrackle/src/NibbleDiskImage.c).          *)
(*                                                                         *)
(* A track is written either sector by sector, as DOS 3.3 does (RWTS16),   *)
(* or as a whole (RW18).  Both are kept at fixed places of the track, but  *)
(* nothing in the image says which format a track has: a sector can be put *)
(* on an RW18 track and an RW18 track on sectors.  Data for a part of an   *)
(* RW18 track is put in after the track has been read back.                *)
(*                                                                         *)
(* A cell stands for a run of nibbles that are written together: an        *)
(* address field, one byte of data, a checksum.  How bytes become nibbles  *)
(* is the subject of module Nibbles.                                       *)
(***************************************************************************)
EXTENDS Integers, SequencesExt

CONSTANTS
    Tracks,     \* DISK_IMAGE_TRACKS_PER_SIDE
    Sectors,    \* NIBBLE_DISK_IMAGE_RWTS16_SECTORS_PER_TRACK
    SectorSize, \* DISK_IMAGE_BYTES_PER_SECTOR
    Gap1,       \* sync bytes before the first sector of a track
    Gap3,       \* sync bytes between sectors
    Bundles,    \* the sectors of an RW18 track, of three pages each
    PageSize,   \* DISK_IMAGE_PAGE_SIZE
    Lead,       \* sync bytes at the start of an RW18 track
    Inserts,    \* the insertions a script can ask for
    Junk,       \* bytes that foreign nibbles can be read as
    NoSide, NoSector, Protected,
    MaxInserts  \* bound: the number of insertions

Pages == 3 * Bundles

(* DISK_IMAGE_RW18_BYTES_PER_TRACK *)
TrackSize == Pages * PageSize

(* A sector: its address field, its data and the gap. *)
SectorNibbles == 1 + SectorSize + Gap3

TrackNibbles == Gap1 + Sectors * SectorNibbles - Gap3

(* An RW18 sector: address field, bundle id, data and checksum. *)
BundleNibbles == 2 + 3 * PageSize + 1

(* The formats fill a track exactly; a sync byte is between RW18 sectors.  *)
ASSUME LayoutAssumption ==
    /\ {Tracks, Sectors, SectorSize, Gap3, Bundles, PageSize} \subseteq Nat \ {0}
    /\ {Gap1, Lead} \subseteq Nat
    /\ TrackNibbles = Lead + 1 + Bundles * (BundleNibbles + 1) - 1

ASSUME InsertsAssumption ==
    /\ Inserts \subseteq [op : {"rwts16", "rwts16cp", "rw18", "block"}, side : Nat,
                          track : Nat, place : Nat, data : Seq(Nat)]
    /\ Junk \subseteq Nat /\ Junk # {}
    /\ MaxInserts \in Nat

VARIABLES
    image,  \* the cells of all tracks
    side, track, sector,
    offset, \* intraTrackOffset
    left,   \* the data not yet written: bytesLeft bytes from pData on
    phase,  \* the insertion under way
    count,  \* the insertions begun
    stored  \* history: what can be read back from the image

vars == <<image, side, track, sector, offset, left, phase, count, stored>>

Cell(is, of) == [is |-> is, of |-> of]

Unwritten == Cell("zero", <<>>)
Sync(n) == [i \in 1 .. n |-> Cell("sync", <<>>)]

Cells(is, data) == [i \in DOMAIN data |-> Cell(is, <<data[i]>>)]

-----------------------------------------------------------------------------
(***************************************************************************)
(* An RW18 track is Bundles sectors, the last one first; sector b holds    *)
(* the pages b, b + Bundles and b + 2 * Bundles, byte by byte in turn.     *)
(***************************************************************************)
(* The data of sector b in the order written: byte k of it is of the page  *)
(* in turn.  The track's bytes are counted from 0.                         *)
ByteOf(b, k) == (b + Bundles * (k % 3)) * PageSize + (k \div 3)

BundleData(b, trackBytes) == [i \in 1 .. 3 * PageSize |-> trackBytes[ByteOf(b, i - 1)]]

(* It stands for the data: two that differ have the same one by chance     *)
(* only.                                                                   *)
Checksum(data) == Cell("checksum", data)

(* writeRW18Sector *)
BundleCells(t, s, b, trackBytes) ==
    <<Cell("address18", <<t, b>>), Cell("side", <<s>>)>>
        \o Cells("data18", BundleData(b, trackBytes))
        \o <<Checksum(BundleData(b, trackBytes))>>

(* writeRW18Track *)
TrackCells(t, s, trackBytes) ==
    Sync(Lead) \o <<Cell("prolog18", <<>>)>>
        \o FlattenSeq([i \in 1 .. Bundles |->
               (IF i = 1 THEN <<>> ELSE Sync(1))
                   \o BundleCells(t, s, Bundles - i, trackBytes)])

(* Where in its track byte p is. *)
PlaceOf(p) ==
    LET page == p \div PageSize
    IN  Lead + 1 + ((Bundles - 1) - (page % Bundles)) * (BundleNibbles + 1)
            + 2 + 3 * (p % PageSize) + (page \div Bundles)

CellOf(img, t, i) == img[TrackNibbles * t + i + 1]

TrackBytes == 0 .. TrackSize - 1

Foreign == -1

(* What is read of a track, and junk where a sector was put.               *)
ReadBytes(img, t, junk) ==
    [p \in TrackBytes |->
        LET cell == CellOf(img, t, PlaceOf(p))
        IN  IF cell.is = "data18" THEN cell.of[1] ELSE junk]

DataPlaces == {PlaceOf(p) : p \in TrackBytes}

(* The places where reading meets something else than it expects. *)
Unexpected(img, t, s) ==
    LET cells == TrackCells(t, s, ReadBytes(img, t, Foreign))
    IN  {i \in (0 .. TrackNibbles - 1) \ DataPlaces : CellOf(img, t, i) # cells[i + 1]}

IsIntact(img, t, s) == Unexpected(img, t, s) = {}

(* Only a checksum is wrong, and only chance can hide that. *)
IsFramed(img, t, s) ==
    \A i \in Unexpected(img, t, s) : CellOf(img, t, i).is = "checksum"

-----------------------------------------------------------------------------
(***************************************************************************)
(* The contents as they are read back: a sector is found by its address    *)
(* field, wherever that is in the track, and its data follows.             *)
(***************************************************************************)
Sides == {insert.side : insert \in Inserts}

ReadSector(img, t, s) ==
    LET places == {i \in 0 .. TrackNibbles - SectorSize - 1 :
                      CellOf(img, t, i) = Cell("address", <<t, s>>)}
        at == CHOOSE i \in places : TRUE
        data == [k \in 1 .. SectorSize |-> CellOf(img, t, at + k)]
        is(kind) == \A k \in 1 .. SectorSize : data[k].is = kind
    IN  IF places = {} THEN NoSector
        ELSE IF is("data16") THEN [k \in 1 .. SectorSize |-> data[k].of[1]]
        ELSE IF is("magic") THEN Protected
        ELSE NoSector

ReadSide(img, t) ==
    IF \E s \in Sides : IsFramed(img, t, s)
    THEN CHOOSE s \in Sides : IsFramed(img, t, s)
    ELSE NoSide

ReadBack(img) ==
    LET side18 == [t \in 0 .. Tracks - 1 |-> ReadSide(img, t)]
    IN  [sectors |-> [p \in 0 .. Tracks * Sectors - 1 |->
                         ReadSector(img, p \div Sectors, p % Sectors)],
         sides |-> side18,
         bytes |-> [t \in 0 .. Tracks - 1 |->
                       IF side18[t] = NoSide THEN [p \in TrackBytes |-> 0]
                       ELSE ReadBytes(img, t, 0)],
         worn |-> {t \in 0 .. Tracks - 1 :
                      side18[t] # NoSide /\ ~IsIntact(img, t, side18[t])}]

(* memcpy to a place of the image. *)
Write(at, cells) ==
    /\ image' = SubSeq(image, 1, at) \o cells
                    \o SubSeq(image, at + Len(cells) + 1, Len(image))
    /\ stored' = ReadBack(image')

-----------------------------------------------------------------------------
(***************************************************************************)
(* RWTS16.                                                                 *)
(***************************************************************************)
StartRWTS16(insert) ==
    /\ track' = insert.track
    /\ sector' = insert.place
    /\ left' = insert.data
    /\ UNCHANGED <<image, side, offset, stored>>

(* writeSectorLeadInSyncBytes *)
LeadIn(s) == IF s = 0 THEN Gap1 ELSE Gap3

SectorAt(t, s) == TrackNibbles * t + Gap1 + SectorNibbles * s

WriteSectorCells(dataCells) ==
    Write(SectorAt(track, sector) - LeadIn(sector),
          Sync(LeadIn(sector)) \o <<Cell("address", <<track, sector>>)>> \o dataCells)

IsTrack(t) == t < Tracks

IsSectorPlace == sector < Sectors /\ IsTrack(track)

(* An exception leaves the rest of the insertion out and what has been     *)
(* written in place.                                                       *)
Throw ==
    /\ phase' = "line"
    /\ UNCHANGED <<image, side, track, sector, offset, left, count, stored>>

(* advanceToNextSector *)
NextSector ==
    IF sector + 1 >= Sectors
    THEN sector' = 0 /\ track' = track + 1
    ELSE sector' = sector + 1 /\ track' = track

WriteRWTS16Sector ==
    /\ phase = "rwts16"
    /\ left # <<>>
    /\ IsSectorPlace
    /\ Len(left) >= SectorSize
    /\ WriteSectorCells(Cells("data16", SubSeq(left, 1, SectorSize)))
    /\ NextSector
    /\ left' = SubSeq(left, SectorSize + 1, Len(left))
    /\ UNCHANGED <<side, offset, phase, count>>

(* validateRWTS16TrackAndSector *)
RefuseSector ==
    /\ phase = "rwts16" /\ left # <<>>
    /\ ~IsSectorPlace \/ Len(left) < SectorSize
    /\ Throw

(* A copy protection sector has no data of its own, and none follows it.   *)
WriteRWTS16CPSector ==
    /\ phase = "rwts16cp"
    /\ IsSectorPlace
    /\ WriteSectorCells([i \in 1 .. SectorSize |-> Cell("magic", <<>>)])
    /\ phase' = "line"
    /\ UNCHANGED <<side, track, sector, offset, left, count>>

RefuseCPSector ==
    /\ phase = "rwts16cp"
    /\ ~IsSectorPlace
    /\ Throw

-----------------------------------------------------------------------------
(***************************************************************************)
(* RW18.                                                                   *)
(***************************************************************************)
StartRW18(insert) ==
    /\ side' = insert.side
    /\ track' = insert.track
    /\ offset' = insert.place
    /\ left' = insert.data
    /\ UNCHANGED <<image, sector, stored>>

(* NibbleDiskImage_ReadRW18Track: the outcomes of reading track t as side  *)
(* s.  Foreign nibbles in the data are noticed unless they happen to match *)
(* the checksum.                                                           *)
Reads(t, s) ==
    IF IsIntact(image, t, s) THEN {ReadBytes(image, t, 0)}
    ELSE {[p \in TrackBytes |-> 0]}
             \cup IF IsFramed(image, t, s)
                   THEN {ReadBytes(image, t, junk) : junk \in Junk} ELSE {}

(* Mutant: a track is not read back, and begins as zeros.                  *)
ReadsNothing(t, s) == {[p \in TrackBytes |-> 0]}

(* readCurrentTrackContentsOrZeroFill *)
ReadsOrZeros(t, s) == Reads(t, s)

(* initTrackData *)
CopyBytes == IF TrackSize - offset > Len(left) THEN Len(left) ELSE TrackSize - offset

Merged(old) ==
    [p \in TrackBytes |->
        IF p \in offset .. offset + CopyBytes - 1 THEN left[p - offset + 1] ELSE old[p]]

IsTrackPlace == IsTrack(track) /\ offset < TrackSize

WriteRW18Track ==
    /\ phase = "rw18"
    /\ left # <<>>
    /\ IsTrackPlace
    /\ \E old \in ReadsOrZeros(track, side) :
           Write(TrackNibbles * track, TrackCells(track, side, Merged(old)))
    /\ left' = SubSeq(left, CopyBytes + 1, Len(left))
    /\ offset' = 0
    /\ track' = track + 1
    /\ UNCHANGED <<side, sector, phase, count>>

(* validateRW18TrackAndOffset *)
RefuseTrack ==
    /\ phase = "rw18" /\ left # <<>>
    /\ ~IsTrackPlace
    /\ Throw

-----------------------------------------------------------------------------
(* NibbleDiskImage_InsertData *)
Begin(insert) ==
    /\ phase = "line"
    /\ count < MaxInserts
    /\ count' = count + 1
    /\ phase' = insert.op
    /\ \/ insert.op \in {"rwts16", "rwts16cp"} /\ StartRWTS16(insert)
       \/ insert.op = "rw18" /\ StartRW18(insert)

(* Blocks are for 3.5 inch images. *)
RefuseBlock(insert) ==
    /\ phase = "line"
    /\ count < MaxInserts
    /\ insert.op = "block"
    /\ count' = count + 1
    /\ UNCHANGED <<image, side, track, sector, offset, left, phase, stored>>

End ==
    /\ phase \in {"rwts16", "rw18"}
    /\ left = <<>>
    /\ phase' = "line"
    /\ UNCHANGED <<image, side, track, sector, offset, left, count, stored>>

Init ==
    /\ image = [i \in 1 .. Tracks * TrackNibbles |-> Unwritten]
    /\ side = 0 /\ track = 0 /\ sector = 0 /\ offset = 0
    /\ left = <<>>
    /\ phase = "line"
    /\ count = 0
    /\ stored = ReadBack(image)

Next ==
    \/ \E insert \in Inserts : Begin(insert) \/ RefuseBlock(insert)
    \/ WriteRWTS16Sector \/ RefuseSector
    \/ WriteRWTS16CPSector \/ RefuseCPSector
    \/ WriteRW18Track \/ RefuseTrack
    \/ End

Spec == Init /\ [][Next]_vars

-----------------------------------------------------------------------------
(* Every write stays in the image, and the fields keep their types.        *)
TypeOK ==
    /\ Len(image) = Tracks * TrackNibbles
    /\ \A i \in DOMAIN image : image[i].of \in Seq(Nat)
    /\ {side, track, sector, offset, count} \subseteq Nat
    /\ left \in Seq(Nat)
    /\ phase \in {"line", "rwts16", "rwts16cp", "rw18"}

-----------------------------------------------------------------------------
Todo ==
    [format |-> IF phase = "line" THEN "none" ELSE phase,
     side |-> IF phase = "rw18" THEN side ELSE NoSide,
     at |-> IF phase = "rw18"
            THEN IF offset < TrackSize THEN track * TrackSize + offset ELSE -1
            ELSE IF phase # "line" /\ sector < Sectors THEN track * Sectors + sector
            ELSE -1,
     data |-> IF phase = "line" THEN <<>> ELSE left]

Contents == INSTANCE DiskContents WITH
    sectors <- stored.sectors,
    sides <- stored.sides,
    bytes <- stored.bytes,
    worn <- stored.worn,
    todo <- Todo

(* Whatever the order of the insertions, what is read back from the image  *)
(* is what was put: no insertion disturbs what is stored elsewhere, in     *)
(* its track or in another (writeRWTS16Sector, writeRW18Track and          *)
(* readCurrentTrackContentsOrZeroFill).                                    *)
RefinesDiskContents == Contents!Spec

(* A track that is read as RW18, checksums and all, holds no sector that   *)
(* DOS would read (extractRW18Sector's checksum, writeRW18Track).          *)
OneFormatPerTrack == Contents!OneFormatPerTrack
=============================================================================
