----------------------------- MODULE IsoRecords -----------------------------
(***************************************************************************)
(* What the ISO 9660 driver makes of the bytes on the disc                 *)
(* (fs/iso9660/iso9660.c): names and dates of directory records, with and  *)
(* without Rock Ridge extensions, strings and dates of the volume          *)
(* descriptor.                                                             *)
(*                                                                         *)
(* A record r is the bytes of its sector from its first one on; its fields *)
(* are found by their offsets in isofs_dir_entry_header (internal.h).      *)
(***************************************************************************)
EXTENDS Calendar, CText, FiniteSets

HeaderSize == 33    \* sizeof(struct isofs_dir_entry_header)
CreatedTime == 18   \* the offset of created_time

Byte(r, o) == r[o + 1]
Text(r, o, n) == SubSeq(r, o + 1, o + n)
HasBit(byte, k) == (byte \div <<1, 2, 4, 8, 16, 32, 64, 128>>[k + 1]) % 2 = 1

EntrySize(r)  == Byte(r, 0)
NameLength(r) == Byte(r, 32)

-----------------------------------------------------------------------------
\* The extensions behind the name.  Each has an identifier of two bytes and its
\* length; nothing stands for none, which can be no place.

Nothing == 0

\* Mutant: the byte that fills up a name of even length is left out.
ExtensionStartUnfilled(r) == HeaderSize + NameLength(r)
ExtensionStart(r) == HeaderSize + NameLength(r) + ((NameLength(r) + 1) % 2)

\* Where the first extension of an identifier begins: the loop over the
\* extensions, which a length of 0 ends, and the end of the record.
FirstExtension(r, identifier) ==
  LET from[cur \in 0 .. 510] ==
        IF cur >= EntrySize(r) \/ Byte(r, cur + 2) = 0 THEN Nothing
        ELSE IF Text(r, cur, 2) = identifier THEN cur
        ELSE from[cur + Byte(r, cur + 2)]
  IN  from[ExtensionStart(r)]

NM == <<78, 77>>
TF == <<84, 70>>

-----------------------------------------------------------------------------
\* Names.

Current == <<46>>
Parent  == <<46, 46>>

\* char is signed: a single byte of 128 or more is none above 2.
RecordName(r) ==
  IF NameLength(r) > 1 \/ Byte(r, HeaderSize) \in 3 .. 127
  THEN CString(Text(r, HeaderSize, NameLength(r)))
  ELSE IF Byte(r, HeaderSize) = 0 THEN Parent ELSE Current

AlternateName(r, at) ==
  IF HasBit(Byte(r, at + 4), 1) THEN Current
  ELSE IF HasBit(Byte(r, at + 4), 2) THEN Parent
  ELSE CString(Text(r, at + 5, Byte(r, at + 2) - 5))

\* The filename dir_iter_next leaves in the iterator.
Filename(r, rockRidge) ==
  LET at == FirstExtension(r, NM)
  IN  IF rockRidge /\ at # Nothing THEN AlternateName(r, at) ELSE RecordName(r)

-----------------------------------------------------------------------------
\* Dates.

\* get_shortfmt_time: seven numbers, of which the last, the time zone, is not
\* looked at.
ShortTime(b) ==
  Timegm([year |-> b[1], mon |-> b[2] - 1, mday |-> b[3],
          hour |-> b[4], min |-> b[5], sec |-> b[6]])

\* get_longfmt_time: digits, two or four to a number.  Only the first ten are
\* converted from their characters: minutes and seconds are made of the
\* characters themselves.
LongTime(b) ==
  LET digit(i) == IF i <= 10 THEN b[i] - 48 ELSE b[i]
      number(i) == (10 * digit(i)) + digit(i + 1)
  IN  Timegm([year |-> (100 * number(1)) + number(3) - 1900, mon |-> number(5) - 1,
              mday |-> number(7), hour |-> number(9), min |-> number(11), sec |-> number(13)])

\* The dates of a TF extension, in this order; bit k - 1 of its flags says
\* whether it has the k-th, bit 7 whether they are long ones.
DateTypes == <<"CREATION", "MODIFICATION", "ACCESS", "ATTR_MODIFICATION", "BACKUP",
               "EXPIRATION", "EFFECTIVE">>
DateSize(flags) == IF HasBit(flags, 7) THEN 17 ELSE 7
DateOffset(flags, k) ==
  5 + (DateSize(flags) * Cardinality({j \in 1 .. k - 1 : HasBit(flags, j - 1)}))

DateAt(r, at, k) ==
  LET flags == Byte(r, at + 4)
      date  == Text(r, at + DateOffset(flags, k), DateSize(flags))
  IN  IF HasBit(flags, 7) THEN LongTime(date) ELSE ShortTime(date)

\* dir_iter_get_timestamp of a record: the date of the TF extension, or of the
\* header, or an error.
NoTime == << >>
Timestamp(r, rockRidge, type) ==
  LET at   == FirstExtension(r, TF)
      held == {k \in DOMAIN DateTypes : DateTypes[k] = type /\ HasBit(Byte(r, at + 4), k - 1)}
  IN  IF rockRidge /\ at # Nothing /\ held # {} THEN DateAt(r, at, CHOOSE k \in held : TRUE)
      ELSE IF type = "CREATION" THEN ShortTime(Text(r, CreatedTime, 7))
      ELSE NoTime

-----------------------------------------------------------------------------
\* The volume descriptor: a record of its fields.

StringField == [LABEL |-> "vol_name", PUBLISHER |-> "publisher_iden",
                AUTHOR |-> "data_author_iden", PROGRAM |-> "application_iden",
                COPYRIGHT |-> "copyright_file_name", ABSTRACT |-> "abstract_file_name",
                BIBLIOGRAPHY |-> "bibliographic_file_name"]
DateField == [CREATION |-> "time_created", MODIFICATION |-> "time_modified",
              EXPIRATION |-> "time_expired_after", EFFECTIVE |-> "time_effective_after"]

\* get_volume_string: the caller's array after it.
VolumeString(pvd, type, dest, destLen) ==
  RemoveRightPadding(dest, pvd[StringField[type]], destLen)

\* get_volume_timestamp.
VolumeTimestamp(pvd, type) ==
  IF type \in DOMAIN DateField THEN LongTime(pvd[DateField[type]]) ELSE NoTime
=============================================================================
