------------------------------- MODULE Nibbles -------------------------------
(***************************************************************************)
(* How the bytes of a sector become nibbles, which a disk's head can read, *)
(* and how those of an RW18 sector are read back                           *)
(* (libcrackle/src/NibbleDiskImage.c).                                     *)
(*                                                                         *)
(* A nibble carries 6 bits.  RWTS16 keeps the upper 6 bits of each byte in *)
(* a nibble of its own, and the lower 2 bits of three bytes in one of 86   *)
(* auxiliary nibbles in front, each combined with the one before.  RW18    *)
(* puts the upper 2 bits of a byte of each of three pages in a nibble, and *)
(* the lower 6 bits of each in the next three.                             *)
(***************************************************************************)
EXTENDS Integers, SequencesExt, Bitwise

CONSTANTS
    PageSize, \* bytes of a page of RW18
    Objects,  \* the data to be written, 256 bytes each
    Places,   \* tracks and sectors
    Sides,    \* RW18 sides
    Damages   \* places of nibbles, and other nibbles for them

SectorSize == 256
AuxSize == 86
Byte == 0 .. 255

ASSUME NibblesAssumption ==
    /\ PageSize \in 1 .. SectorSize \div 3
    /\ Objects \subseteq [1 .. SectorSize -> Byte]
    /\ Places \subseteq [track : 0 .. 34, sector : 0 .. 15]
    /\ Sides \subseteq Byte
    /\ Damages \subseteq [at : Nat, nibble : Byte]

VARIABLES
    data,    \* the object's bytes from pData on
    kind,    \* what has been written
    place,   \* its track and sector
    side,    \* and its side
    nibbles, \* the nibbles written
    damaged  \* one of them has been changed

vars == <<data, kind, place, side, nibbles, damaged>>

-----------------------------------------------------------------------------
NibbleArray ==
    <<\h96, \h97, \h9a, \h9b, \h9d, \h9e, \h9f, \ha6,
      \ha7, \hab, \hac, \had, \hae, \haf, \hb2, \hb3,
      \hb4, \hb5, \hb6, \hb7, \hb9, \hba, \hbb, \hbc,
      \hbd, \hbe, \hbf, \hcb, \hcd, \hce, \hcf, \hd3,
      \hd6, \hd7, \hd9, \hda, \hdb, \hdc, \hdd, \hde,
      \hdf, \he5, \he6, \he7, \he9, \hea, \heb, \hec,
      \hed, \hee, \hef, \hf2, \hf3, \hf4, \hf5, \hf6,
      \hf7, \hf9, \hfa, \hfb, \hfc, \hfd, \hfe, \hff>>

(* Mutant: the nibbles in a row, from the first one on.                    *)
EncodeInARow(six) == \h96 + six

Encode6to8(six) == NibbleArray[six + 1]

NotANibble == 255

(* initializeDecode8to6Table *)
Decode8to6 ==
    [nibble \in Byte |->
        IF \E six \in 0 .. 63 : Encode6to8(six) = nibble
        THEN CHOOSE six \in 0 .. 63 : Encode6to8(six) = nibble
        ELSE NotANibble]

Sync(n) == [i \in 1 .. n |-> \hff]

-----------------------------------------------------------------------------
(***************************************************************************)
(* RWTS16.                                                                 *)
(***************************************************************************)
(* write4and4Data: the odd bits, then the even ones. *)
Write4and4(byte) ==
    <<\haa | ((byte & \haa) \div 2), \haa | (byte & \h55)>>

Volume == 0

FieldEpilog == <<\hde, \haa, \heb>>

(* What write4and4Data has added up in front of its byte. *)
AddressChecksum(p) == (Volume ^^ p.track) ^^ p.sector

AddressField(p) ==
    <<\hd5, \haa, \h96>>
        \o Write4and4(Volume) \o Write4and4(p.track) \o Write4and4(p.sector)
        \o Write4and4(AddressChecksum(p))
        \o FieldEpilog

(* Where the bits of auxiliary byte i come from, as an unsigned char.      *)
LowBitOffset(i) == 85 - i
MidBitOffset(i) == 171 - i

(* Mutant: the offset is one too low. *)
HighBitOffsetMinusOne(i) == (256 - i) % 256

HighBitOffset(i) == (257 - i) % 256

(* The lower two bits of the byte at an offset, swapped. *)
LowBits(offset) ==
    LET byte == data[offset + 1]
    IN  2 * (byte % 2) + ((byte \div 2) % 2)

EncodeAuxByte(i) ==
    16 * LowBits(HighBitOffset(i)) + 4 * LowBits(MidBitOffset(i))
        + LowBits(LowBitOffset(i))

(* The auxiliary bytes, last one first, and the upper bits of the data.    *)
SixBits ==
    [i \in 1 .. AuxSize |-> EncodeAuxByte(AuxSize - i)]
        \o [i \in 1 .. SectorSize |-> data[i] \div 4]

(* Each is combined with the one before, and the last one is the checksum. *)
Write6and2Data ==
    LET six == <<0>> \o SixBits \o <<0>>
    IN  [i \in 1 .. Len(six) - 1 |-> Encode6to8(six[i] ^^ six[i + 1])]

DataFieldProlog == <<\hd5, \haa, \had>>

DataField == DataFieldProlog \o Write6and2Data \o FieldEpilog

MagicNibbles ==
    <<\he7, \he7, \he7, \he7, \he7, \he7, \haf, \hf3, \hfc,
      \hee, \he7, \hfc, \hee, \he7, \hfc, \hee, \hee, \hfc>>

Fill == Sync(343 - Len(MagicNibbles))

(* writeRWTS16CPDataField *)
CPDataField == DataFieldProlog \o MagicNibbles \o Fill \o FieldEpilog

NibblesPerSector == 384
Gap2 == 5
Gap3 == 16

Written(k, p, s, n) ==
    /\ kind = "none"
    /\ kind' = k
    /\ place' = p
    /\ side' = s
    /\ nibbles' = n
    /\ UNCHANGED <<data, damaged>>

(* writeRWTS16Sector, without the gap in front. *)
WriteRWTS16Sector(p) ==
    Written("rwts16", p, 0, AddressField(p) \o Sync(Gap2) \o DataField)

WriteRWTS16CPSector(p) ==
    Written("rwts16cp", p, 0, AddressField(p) \o Sync(Gap2) \o CPDataField)

-----------------------------------------------------------------------------
(***************************************************************************)
(* RW18.                                                                   *)
(***************************************************************************)
(* Byte i of the page-th of the sector's pages. *)
PageByte(page, i) == data[page * PageSize + i]

AuxByteOf(bytes) ==
    16 * (bytes[1] \div 64) + 4 * (bytes[2] \div 64) + (bytes[3] \div 64)

(* Mutant: the auxiliary byte is left out. *)
ChecksumOfBytes(group) == (group[2] ^^ group[3]) ^^ group[4]

(* What four nibbles add to the checksum. *)
ChecksumOf(group) == (group[1] ^^ group[2]) ^^ (group[3] ^^ group[4])

Checksum(groups) ==
    FoldLeft(LAMBDA sum, group : sum ^^ ChecksumOf(group), 0, groups)

(* The four 6-bit values for byte i of the three pages. *)
Group(i) ==
    LET bytes == <<PageByte(0, i), PageByte(1, i), PageByte(2, i)>>
    IN  <<AuxByteOf(bytes), bytes[1] % 64, bytes[2] % 64, bytes[3] % 64>>

Groups == [i \in 1 .. PageSize |-> Group(i)]

RW18Data ==
    FlattenSeq([i \in 1 .. PageSize |->
                   [k \in 1 .. 4 |-> Encode6to8(Groups[i][k])]])
        \o <<Encode6to8(Checksum(Groups))>>

(* writeRW18Sector *)
WriteRW18Sector(p, s) ==
    Written("rw18", p, s,
        <<\hd5, \h9d, Encode6to8(p.track), Encode6to8(p.sector),
          Encode6to8(p.track ^^ p.sector), \haa>>
            \o Sync(2) \o <<s>> \o RW18Data \o <<\hd4>> \o Sync(1))

(* A nibble changed through NibbleDiskImage_GetImagePointer, as the tests  *)
(* of ReadRW18Track do.                                                    *)
Damage(d) ==
    /\ kind = "rw18"
    /\ ~damaged
    /\ d.at \in DOMAIN nibbles
    /\ nibbles[d.at] # d.nibble
    /\ nibbles' = [nibbles EXCEPT ![d.at] = d.nibble]
    /\ damaged' = TRUE
    /\ UNCHANGED <<data, kind, place, side>>

-----------------------------------------------------------------------------
(***************************************************************************)
(* extractRW18Sector.                                                      *)
(***************************************************************************)
HeaderSize == 9

Decoded(i) == Decode8to6[nibbles[i]]

ReadGroup(i) == [k \in 1 .. 4 |-> Decoded(HeaderSize + 4 * (i - 1) + k)]

(* Byte of a page: two bits of the auxiliary byte over what was read. *)
ReadByte(page, i) ==
    LET aux == ReadGroup(i)[1]
        low == ReadGroup(i)[page + 2]
    IN  (64 * ((aux \div (4 ^ (2 - page))) % 4)) | low

ChecksumAt == HeaderSize + 4 * PageSize + 1

IsAccepted(p, s) ==
    /\ SubSeq(nibbles, 1, 2) = <<\hd5, \h9d>>
    /\ Decoded(3) = p.track
    /\ Decoded(4) = p.sector
    /\ Decoded(5) = p.track ^^ p.sector
    /\ SubSeq(nibbles, 6, 9) = <<\haa, \hff, \hff, s>>
    /\ Decoded(ChecksumAt) = Checksum([i \in 1 .. PageSize |-> ReadGroup(i)])
    /\ SubSeq(nibbles, ChecksumAt + 1, ChecksumAt + 2) = <<\hd4, \hff>>

IsReadAsWritten ==
    \A page \in 0 .. 2, i \in 1 .. PageSize : ReadByte(page, i) = PageByte(page, i)

-----------------------------------------------------------------------------
Init ==
    /\ data \in Objects
    /\ kind = "none"
    /\ place = [track |-> 0, sector |-> 0]
    /\ side = 0
    /\ nibbles = <<>>
    /\ damaged = FALSE

Next ==
    \/ \E p \in Places :
           \/ WriteRWTS16Sector(p)
           \/ WriteRWTS16CPSector(p)
           \/ \E s \in Sides : p.sector < 6 /\ WriteRW18Sector(p, s)
    \/ \E d \in Damages : Damage(d)

Spec == Init /\ [][Next]_vars

-----------------------------------------------------------------------------
(***************************************************************************)
(* How DOS reads a sector.                                                 *)
(***************************************************************************)
Read4and4(i) == ((2 * nibbles[i] + 1) % 256) & nibbles[i + 1]

AddressRead == [track |-> Read4and4(6), sector |-> Read4and4(8)]

IsAddressSumRight == ((Read4and4(4) ^^ Read4and4(6)) ^^ Read4and4(8)) = Read4and4(10)

DataStart == 22

(* Combining the nibbles from the first one on gives the values v, and in  *)
(* the end 0, which is the checksum.                                       *)
IsRunning(v) ==
    LET all == <<0>> \o v \o <<0>>
    IN  \A n \in 1 .. Len(v) + 1 : Decoded(DataStart + n) = (all[n] ^^ all[n + 1])

(* Two bits of the auxiliary bytes, which are used three times over.       *)
AuxBits(v, i) ==
    LET bits == (v[AuxSize - (85 - (i % 86))] \div (4 ^ (i \div 86))) % 4
    IN  2 * (bits % 2) + (bits \div 2)

BytesOf(v) == [i \in 1 .. SectorSize |-> 4 * v[AuxSize + i] + AuxBits(v, i - 1)]

-----------------------------------------------------------------------------
(* The nibbles are bytes. *)
TypeOK ==
    /\ data \in Objects
    /\ kind \in {"none", "rwts16", "rwts16cp", "rw18"}
    /\ nibbles \in Seq(Byte)
    /\ damaged \in BOOLEAN

(* A sector fills its place to the last nibble, DOS finds it by the        *)
(* address it was written at, and reads the data it was written with       *)
(* (writeRWTS16Sector with its assertion on leeway, fillAuxBuffer and      *)
(* checksumNibbilizeAndWrite).                                             *)
Rwts16SectorsDecode ==
    /\ kind \in {"rwts16", "rwts16cp"} =>
           /\ Len(nibbles) = NibblesPerSector - Gap3
           /\ AddressRead = place
           /\ IsAddressSumRight
    /\ kind = "rwts16" => (IsRunning(SixBits) /\ BytesOf(SixBits) = data)

(* No data looks like the mark that begins a field (encode6to8's table and *)
(* write4and4Data).                                                        *)
MarksAreUnique ==
    LET marks == {i \in DOMAIN nibbles : nibbles[i] = \hd5}
    IN  /\ kind \in {"rwts16", "rwts16cp"} => marks = {1, DataStart - 2}
        /\ kind = "rw18" /\ ~damaged => marks = {1}

(* An RW18 sector is read back as it was written, and as no other sector   *)
(* or side (writeRW18Data and extractRW18Sector).                          *)
Rw18SectorsDecode ==
    kind = "rw18" /\ ~damaged =>
        /\ IsAccepted(place, side)
        /\ IsReadAsWritten
        /\ \A p \in Places, s \in Sides :
               <<p, s>> # <<place, side>> => ~IsAccepted(p, s)

(* Sectors of both formats decode to what was written, where it was        *)
(* written (writeRWTS16Sector and writeRW18Sector).                        *)
SectorsDecode == Rwts16SectorsDecode /\ Rw18SectorsDecode

(* A sector with a nibble changed is refused, or its data is read as it    *)
(* was written (the checksum of extractRW18Sector).                        *)
DamageIsNoticed ==
    damaged => ~IsAccepted(place, side) \/ IsReadAsWritten
=============================================================================
