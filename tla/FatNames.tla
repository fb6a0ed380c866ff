------------------------------ MODULE FatNames ------------------------------
(***************************************************************************)
(* What the FAT driver makes of the text and the dates of directory        *)
(* entries (fs/fat/fat.c): long names, short names and their comparison,   *)
(* timestamps.                                                             *)
(*                                                                         *)
(* A character of a long name is a unit of 16 bits, any other character a  *)
(* byte.                                                                   *)
(***************************************************************************)
EXTENDS FatCodepage, CText, Calendar, SequencesExt

CONSTANTS LfnBuflen,            \* FAT_LFN_BUFLEN, 256
          LfnU8Buflen           \* FAT_LFN_U8_BUFLEN, 384

ASSUME NamesAssumption == LfnBuflen \in Nat /\ LfnU8Buflen \in Nat

Dot == 46

-----------------------------------------------------------------------------
\* Long names.  An entry holds 13 units, its number from 1, and whether it is
\* the last of the name.

FragmentLength == 13

\* Mutant: the end of a name that fills its last entry is not marked.
WithFragmentUnended(buf, entry) ==
  LET at == (entry.sequence - 1) * FragmentLength IN
  [i \in DOMAIN buf |->
     IF i - at \in 0 .. FragmentLength - 1 THEN entry.units[i - at + 1] ELSE buf[i]]

\* get_lfn_filename: the buffer with the fragment of one entry in it.
WithFragment(buf, entry) ==
  LET at == (entry.sequence - 1) * FragmentLength IN
  [i \in DOMAIN buf |->
     IF i - at \in 0 .. FragmentLength - 1 THEN entry.units[i - at + 1]
     ELSE IF i = at + FragmentLength /\ entry.last THEN 0
     ELSE buf[i]]

\* The buffer dir_iter_next hands to lfn_ucs2_to_utf8 after these entries.
UnitsOf(entries) ==
  LET after[n \in 0 .. Len(entries)] ==
        IF n = 0 THEN [i \in 0 .. LfnBuflen - 1 |-> Undef]
        ELSE WithFragment(after[n - 1], entries[n])
  IN  after[Len(entries)]

\* ucs2_to_utf8; no bytes at the end of the name.  Where the code fails for
\* want of room it does not get: the count below runs out before the buffer.
EndsName(unit) == unit \in {0, 65535}
Utf8(unit) ==
  IF EndsName(unit) THEN << >>
  ELSE IF unit < 127  THEN <<unit>>
  ELSE IF unit < 2047 THEN <<192 + (unit \div 64), 128 + (unit % 64)>>
  ELSE <<224 + (unit \div 4096), 128 + ((unit \div 64) % 64), 128 + (unit % 64)>>

\* lfn_ucs2_to_utf8 with allow_nonascii, unit by unit: text is what it has
\* written, counted the value of bytes_written, which the body raises by the
\* length of a character and the head of the loop by one more.
Utf8Step(state, unit) ==
  IF state.ended \/ state.counted >= LfnU8Buflen THEN state
  ELSE IF EndsName(unit) THEN [state EXCEPT !.ended = TRUE]
  ELSE [text |-> state.text \o Utf8(unit), counted |-> state.counted + Len(Utf8(unit)) + 1,
        ended |-> FALSE]

LfnToUtf8(buf) ==
  FoldLeft(Utf8Step, [text |-> << >>, counted |-> 0, ended |-> FALSE],
           [i \in 1 .. LfnBuflen |-> buf[i - 1]])

\* The same without: every unit of the buffer becomes one byte.
LfnToAscii(buf, fallback) ==
  [i \in 1 .. LfnBuflen |-> IF buf[i - 1] = Undef THEN Undef
                            ELSE IF buf[i - 1] < 128 THEN buf[i - 1] ELSE fallback]

\* The filename of an iterator: what it is, and whether it is ended by a 0.
LfnFilename(entries, unicode, fallback) ==
  LET utf8 == LfnToUtf8(UnitsOf(entries)) IN
  IF unicode THEN [text |-> utf8.text, ended |-> utf8.ended]
  ELSE [text |-> CString(LfnToAscii(UnitsOf(entries), fallback)), ended |-> TRUE]

-----------------------------------------------------------------------------
\* Short names: 8 bytes and 3 bytes, filled up with spaces.

BeforeSpace(field) ==
  LET end == CHOOSE n \in 0 .. Len(field) : /\ n = Len(field) \/ field[n + 1] = Space
                                            /\ \A i \in 1 .. n : field[i] # Space
  IN  SubSeq(field, 1, end)

Lower(byte) == IF byte \in 65 .. 90 THEN byte + 32 ELSE byte
Cased(text, lowercase) ==
  [i \in DOMAIN text |-> IF lowercase THEN Lower(text[i]) ELSE text[i]]

\* Mutant: the dot is written whether or not there is an extension.
SfnFilenameDotted(entry, lowercase) ==
  Cased(BeforeSpace(entry.name), lowercase)
    \o <<Dot>> \o Cased(BeforeSpace(entry.extension), lowercase)

\* get_sfn_filename.
SfnFilename(entry, lowercase) ==
  Cased(BeforeSpace(entry.name), lowercase)
    \o (IF entry.extension[1] = Space THEN << >> ELSE <<Dot>>)
    \o Cased(BeforeSpace(entry.extension), lowercase)

\* match_name: the comparison of a name asked for with the name of an entry.
Upper(codepage, byte) ==
  IF byte >= 128 THEN UppercaseTable(codepage)[byte]
  ELSE IF byte \in 97 .. 122 THEN byte - 32 ELSE byte
Uppercased(codepage, text) == [i \in DOMAIN text |-> Upper(codepage, text[i])]

MatchesName(options, name, filename) ==
  IF options.caseSensitive THEN name = filename
  ELSE Uppercased(options.codepage, name) = Uppercased(options.codepage, filename)

-----------------------------------------------------------------------------
\* Timestamps.  A stamp has the bit fields of fat_date and fat_time and, for
\* the creation, the tenths.

\* dir_iter_get_timestamp: the struct tm it fills.
ModificationTm(stamp) ==
  [sec |-> 2 * stamp.secondDiv2, min |-> stamp.minute, hour |-> stamp.hour,
   mday |-> stamp.day, mon |-> stamp.month - 1, year |-> stamp.year + 80]
CreationTm(stamp) ==
  [ModificationTm(stamp) EXCEPT !.sec = @ + (stamp.createdTenth \div 10)]
AccessTm(stamp) ==
  [ModificationTm(stamp) EXCEPT !.sec = 0, !.min = 0, !.hour = 0]

\* Mutant: the months are counted from 1.
TmOfMonthOne(type, stamp) ==
  CASE type = "CREATION"     -> [CreationTm(stamp) EXCEPT !.mon = @ + 1]
    [] type = "MODIFICATION" -> [ModificationTm(stamp) EXCEPT !.mon = @ + 1]
    [] type = "ACCESS"       -> [AccessTm(stamp) EXCEPT !.mon = @ + 1]
TmOf(type, stamp) ==
  CASE type = "CREATION"     -> CreationTm(stamp)
    [] type = "MODIFICATION" -> ModificationTm(stamp)
    [] type = "ACCESS"       -> AccessTm(stamp)
=============================================================================
