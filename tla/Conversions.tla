---------------------------- MODULE Conversions ----------------------------
(***************************************************************************)
(* The conversions of the library, each checked on one input at a time     *)
(* against a reference: names, labels and dates of FAT and ISO 9660        *)
(* volumes, the geometry of FAT volumes, differences of times.             *)
(***************************************************************************)
EXTENDS FatNames, Alphabets, FatGeometry, OfslTime, IsoRecords

CONSTANTS NameLengths,  \* lengths of long names, at most 247
          ClusterCounts,
          Seconds       \* of the times whose differences are taken

ASSUME LengthsAssumption == NameLengths \subseteq 1 .. 247 /\ LfnBuflen > 247

VARIABLE input          \* what is converted, or NoInput

NoInput == [kind |-> "none"]

-----------------------------------------------------------------------------
\* Long names: units of one, two and three bytes of UTF-8, by their place.

Script == [ascii  |-> [i \in 1 .. 247 |-> 97 + (i % 26)],
           latin  |-> [i \in 1 .. 247 |-> 192 + (i % 64)],
           hangul |-> [i \in 1 .. 247 |-> 44032 + i],
           mixed  |-> [i \in 1 .. 247 |-> <<48 + (i % 10), 1024 + i, 44032 + i>>[1 + (i % 3)]],
           edges  |-> [i \in 1 .. 247 |-> <<126, 128, 2046, 2048, 65534>>[1 + (i % 5)]]]
Name(script, length) == SubSeq(Script[script], 1, length)

\* The entries a formatter writes for a name, the last first.
EntriesOf(name) ==
  LET count == CeilDiv(Len(name), FragmentLength)
      unit(i) == IF i <= Len(name) THEN name[i] ELSE IF i = Len(name) + 1 THEN 0 ELSE 65535
  IN  [k \in 1 .. count |->
         [sequence |-> count + 1 - k, last |-> k = 1,
          units |-> [j \in 1 .. FragmentLength |->
                       unit(((count - k) * FragmentLength) + j)]]]

\* The bytes a unit takes in UTF-8 and those of a name, the character that begins
\* at a byte, and the characters of a text.
BytesOf(unit) == IF unit < 128 THEN 1 ELSE IF unit < 2048 THEN 2 ELSE 3
Bytes(name) ==
  LET sum[n \in 0 .. Len(name)] == IF n = 0 THEN 0 ELSE sum[n - 1] + BytesOf(name[n])
  IN  sum[Len(name)]
CharSize(byte) == IF byte < 128 THEN 1 ELSE IF byte < 224 THEN 2 ELSE 3
CharAt(text, p) ==
  IF text[p] < 128 THEN text[p]
  ELSE IF text[p] < 224 THEN ((text[p] - 192) * 64) + (text[p + 1] - 128)
  ELSE ((text[p] - 224) * 4096) + ((text[p + 1] - 128) * 64) + (text[p + 2] - 128)
Characters(text) ==
  LET from[p \in 1 .. Len(text) + 3] ==
        IF p > Len(text) THEN << >> ELSE <<CharAt(text, p)>> \o from[p + CharSize(text[p])]
  IN  from[1]

ConvertLongName ==
  \E script \in DOMAIN Script, length \in NameLengths, stale, unicode \in BOOLEAN :
    input' = [kind |-> "long name", name |-> Name(script, length), unicode |-> unicode,
              before |-> IF stale THEN EntriesOf(Name("hangul", 247)) ELSE << >>]

\* A long name is what its entries hold, whatever was in the buffer before:
\* character by character where Unicode is allowed, if it takes fewer than
\* LfnU8Buflen bytes with one more counted for each character, and otherwise is
\* not ended; with the fallback for what is not ASCII elsewhere (fat.c:724-785).
LongNamesKept ==
  input.kind = "long name" =>
    LET name     == input.name
        filename == LfnFilename(input.before \o EntriesOf(name), input.unicode, 63)
    IN  IF input.unicode
        THEN /\ filename.ended <=> Bytes(name) + Len(name) < LfnU8Buflen
             /\ filename.ended => /\ Len(filename.text) = Bytes(name)
                                  /\ Characters(filename.text) = name
        ELSE filename.text = [i \in DOMAIN name |-> IF name[i] < 128 THEN name[i] ELSE 63]

-----------------------------------------------------------------------------
\* Short names, as a user writes them: a letter and a byte, before or behind
\* the dot.

ShortBytes == {49, 65, 97, 122} \cup 128 .. 255
Written(byte, inName) == [stem      |-> IF inName THEN <<97, byte>> ELSE <<97>>,
                          extension |-> IF inName THEN << >> ELSE <<byte>>]
Typed(w) == w.stem \o (IF w.extension = << >> THEN << >> ELSE <<Dot>>) \o w.extension

\* The entry another system makes for a name, in capitals of the codepage.
Capital(codepage, byte) == Image(Alphabet(codepage), byte)
Capitals(codepage, text) == [i \in DOMAIN text |-> Capital(codepage, text[i])]
Padded(text, length) == [i \in 1 .. length |-> IF i <= Len(text) THEN text[i] ELSE Space]
Stored(codepage, w) == [name      |-> Padded(Capitals(codepage, w.stem), 8),
                        extension |-> Padded(Capitals(codepage, w.extension), 3)]

\* The letters (capitals, and small ones without a capital in the codepage) whose
\* accent or stroke the driver's tables drop, and what is left of them.
Accents437 == {
  <<131, 65>>, <<133, 65>>, <<160, 65>>, <<136, 69>>, <<137, 69>>, <<138, 69>>,
  <<139, 73>>, <<140, 73>>, <<141, 73>>, <<161, 73>>, <<147, 79>>, <<149, 79>>,
  <<162, 79>>, <<150, 85>>, <<151, 85>>, <<163, 85>>, <<152, 89>>}
Accents850 == {
  <<142, 65>>, <<143, 65>>, <<181, 65>>, <<182, 65>>, <<183, 65>>, <<199, 65>>,
  <<128, 67>>, <<144, 69>>, <<210, 69>>, <<211, 69>>, <<212, 69>>, <<214, 73>>,
  <<215, 73>>, <<216, 73>>, <<222, 73>>, <<153, 79>>, <<157, 79>>, <<224, 79>>,
  <<226, 79>>, <<227, 79>>, <<229, 79>>, <<154, 85>>, <<233, 85>>, <<234, 85>>,
  <<235, 85>>, <<152, 89>>, <<237, 89>>}
Accents861 == {
  <<131, 65>>, <<133, 65>>, <<136, 69>>, <<137, 69>>, <<138, 69>>, <<147, 79>>,
  <<150, 85>>}
Accents862 == {
  <<160, 65>>, <<161, 73>>, <<162, 79>>, <<163, 85>>}
Accents863 == {
  <<132, 65>>, <<142, 65>>, <<128, 67>>, <<144, 69>>, <<145, 69>>, <<146, 69>>,
  <<148, 69>>, <<149, 73>>, <<168, 73>>, <<153, 79>>, <<162, 79>>, <<154, 85>>,
  <<157, 85>>, <<158, 85>>, <<163, 85>>}

Unaccented(codepage) ==
  CASE codepage \in {437, 865} -> Accents437
    [] codepage = 850 -> Accents850
    [] codepage = 861 -> Accents861
    [] codepage = 862 -> Accents862
    [] codepage = 863 -> Accents863
    [] OTHER -> {}

\* The letters of a name, without their case and those accents.
Letter(codepage, byte) == Image(Unaccented(codepage), Capital(codepage, byte))
Letters(codepage, text) == [i \in DOMAIN text |-> Letter(codepage, text[i])]
SameLetters(codepage, v, w) ==
  /\ Letters(codepage, v.stem) = Letters(codepage, w.stem)
  /\ Letters(codepage, v.extension) = Letters(codepage, w.extension)

\* The bytes that a table folds to anything else, and the small letters whose
\* capitals are such bytes.
Misfolded(codepage) ==
  CASE codepage = 437 -> {130, 229, 237}
    [] codepage = 737 -> {145, 169, 170, 228}
    [] codepage = 775 -> {130, 165, 216}
    [] codepage = 857 -> {213}
    [] codepage \in {860, 861, 862, 863} -> {229, 237}
    [] codepage = 864 -> (129 .. 141) \cup (147 .. 152) \cup (160 .. 164) \cup {145}
    [] codepage = 865 -> {155, 229, 237}
    [] codepage = 869 -> {161, 252}
    [] OTHER -> {}

ConvertShortName ==
  \E codepage \in Codepages, inName \in BOOLEAN :
    \E byte \in ShortBytes \ Misfolded(codepage) :
      input' = [kind |-> "short name", codepage |-> codepage, byte |-> byte, inName |-> inName]

\* In every codepage a file is found under every name that differs in case only
\* from the one it was given, and under no other but one that differs in an accent
\* of Unaccented as well, with sfn_lowercase or without; names of different entries
\* are different (fat.c:788-809, 1368-1386, with the tables of codepage.h).
ShortNamesFound ==
  input.kind = "short name" =>
    LET codepage == input.codepage
        options  == [caseSensitive |-> FALSE, codepage |-> codepage]
        given    == Written(input.byte, input.inName)
        this     == Stored(codepage, given)
    IN  \A lowercase \in BOOLEAN :
          LET filename == SfnFilename(this, lowercase) IN
          \A byte \in ShortBytes \ Misfolded(codepage) :
            LET name  == Written(byte, input.inName)
                other == Stored(codepage, name)
                found == MatchesName(options, Typed(name), filename)
            IN  /\ other = this => found
                /\ found <=> SameLetters(codepage, name, given)
                /\ filename = SfnFilename(other, lowercase) <=> other = this

-----------------------------------------------------------------------------
\* Labels: the FAT's, and the strings of an ISO 9660 volume by type, field and
\* length.  Every field has bytes of its own, used of them other than trailing
\* spaces.

Strings == <<<<"LABEL", "vol_name", 32>>, <<"PUBLISHER", "publisher_iden", 128>>,
             <<"AUTHOR", "data_author_iden", 128>>, <<"PROGRAM", "application_iden", 128>>,
             <<"COPYRIGHT", "copyright_file_name", 37>>,
             <<"ABSTRACT", "abstract_file_name", 37>>,
             <<"BIBLIOGRAPHY", "bibliographic_file_name", 37>>>>

Label(first, length, used, inner) ==
  [i \in 1 .. length |->
     IF i > used \/ (inner /\ i = used - 1) THEN Space ELSE first + (i % 10)]
Descriptor(used, inner) ==
  [field \in {Strings[k][2] : k \in DOMAIN Strings} |->
     LET k == CHOOSE j \in DOMAIN Strings : Strings[j][2] = field
     IN  Label(50 + (10 * k), Strings[k][3], used, inner)]

ConvertLabel ==
  \E used \in 1 .. 11, inner \in BOOLEAN, destLen \in 12 .. 16 :
    input' = [kind |-> "label", used |-> used, destLen |-> destLen,
              label |-> Label(64, 11, used, inner)]

ConvertString ==
  \E k \in DOMAIN Strings, inner \in BOOLEAN, spare \in 1 .. 3 :
    LET length == Strings[k][3] IN
    \E used \in {1, 2, 31, 32, length - 1, length} :
      input' = [kind |-> "string", type |-> Strings[k][1], destLen |-> length + spare,
                pvd |-> Descriptor(used, inner), label |-> Label(50 + (10 * k), length, used, inner),
                used |-> used]

\* A label or string reaches the caller without the spaces behind it and with
\* those inside, and is ended, in every buffer that has room for it
\* (fat.c:104-125, iso9660.c:91-113, 785-842).
LabelsTrimmed ==
  input.kind \in {"label", "string"} =>
    LET dest  == [i \in 1 .. input.destLen |-> Undef]
        label == IF input.kind = "label"
                 THEN RemoveRightPadding(dest, input.label, input.destLen)
                 ELSE VolumeString(input.pvd, input.type, dest, input.destLen)
    IN  CString(label) = SubSeq(input.label, 1, input.used)

-----------------------------------------------------------------------------
\* Directory records of ISO 9660, as a mastering tool writes them.  The k-th of
\* the dates of a record is at a second of its own.

Date(k) == [year |-> 2000 + k, mon |-> k, mday |-> k + 1,
            hour |-> k + 2, min |-> 10 + k, sec |-> 20 + k]
WrittenAt(k) ==
  LET d == Date(k)
  IN  Timegm([year |-> d.year - 1900, mon |-> d.mon - 1, mday |-> d.mday,
              hour |-> d.hour, min |-> d.min, sec |-> d.sec])
HeaderDate == 8

Short(k) == LET d == Date(k) IN <<d.year - 1900, d.mon, d.mday, d.hour, d.min, d.sec, 36>>
Digits(n) == <<48 + (n \div 10), 48 + (n % 10)>>
Long(k) == LET d == Date(k) IN
  Digits(d.year \div 100) \o Digits(d.year % 100) \o Digits(d.mon) \o Digits(d.mday)
    \o Digits(d.hour) \o Digits(d.min) \o Digits(d.sec) \o <<48, 48, 0>>

Extension(identifier, data) == identifier \o <<4 + Len(data), 1>> \o data
AlternateNames == {[flags |-> 0, text |-> <<97, 98>>], [flags |-> 0, text |-> <<120, 46, 121>>],
                   [flags |-> 2, text |-> << >>], [flags |-> 4, text |-> << >>]}
NameExtension(n) == Extension(NM, <<n.flags>> \o n.text)
DateFlags(types, long) ==
  LET bit(k) == IF k \in types THEN <<1, 2, 4, 8, 16, 32, 64>>[k] ELSE 0
  IN  bit(1) + bit(2) + bit(3) + bit(4) + bit(5) + bit(6) + bit(7) + (IF long THEN 128 ELSE 0)
Dates(types, long) ==
  [k \in 1 .. 7 |-> IF k \notin types THEN << >> ELSE IF long THEN Long(k) ELSE Short(k)]
DateExtension(types, long) ==
  Extension(TF, <<DateFlags(types, long)>> \o FlattenSeq(Dates(types, long)))
\* One the driver does not know, with the marks of others in it.
OtherExtension == Extension(<<80, 88>>, NM \o <<9>> \o TF)
Extensions(held, name, types, long) ==
  [i \in DOMAIN held |-> CASE held[i] = "name"  -> NameExtension(name)
                           [] held[i] = "dates" -> DateExtension(types, long)
                           [] OTHER -> OtherExtension]

\* The record, and the beginning of the next one; records begin at even places.
Filled(bytes) == IF Len(bytes) % 2 = 1 THEN bytes \o <<0>> ELSE bytes
Header(size, length) ==
  [i \in 1 .. HeaderSize |->
     IF i = 1 THEN size ELSE IF i = HeaderSize THEN length
     ELSE IF i \in CreatedTime + 1 .. CreatedTime + 7
          THEN Short(HeaderDate)[i - CreatedTime] ELSE 0]
RecordOf(identifier, extensions) ==
  LET bytes(size) == Filled(Filled(Header(size, Len(identifier)) \o identifier)
                              \o FlattenSeq(extensions))
      size == Len(bytes(0))
  IN  bytes(size) \o <<size, 0, 8>>

ConvertRecord ==
  \E identifier \in {<<65>>, <<65, 66>>, <<65, 66, 67>>}, name \in AlternateNames,
     types \in {{1}, {2, 3}, {1, 4, 7}, 1 .. 7}, long, rockRidge \in BOOLEAN,
     order \in SetToSeqs({"name", "dates", "other"}), count \in 0 .. 3 :
    /\ long => types # 1 .. 7
    /\ input' = [kind |-> "record", identifier |-> identifier, name |-> name, types |-> types,
                 long |-> long, rockRidge |-> rockRidge, held |-> SubSeq(order, 1, count)]

\* What the driver finds in a record is what was written: the name and the dates
\* of the extensions where there are some and they are asked for, and of the
\* header otherwise, whatever extensions come before and whatever the length of
\* the name; dates in the long format keep their distances (iso9660.c:115-169,
\* 437-482, 538-605).
RecordsRead ==
  input.kind = "record" =>
    LET r == RecordOf(input.identifier,
                      Extensions(input.held, input.name, input.types, input.long))
        Has(x) == input.rockRidge /\ \E i \in DOMAIN input.held : input.held[i] = x
        time(k) == Timestamp(r, input.rockRidge, DateTypes[k])
        dated == IF Has("dates") THEN input.types ELSE {}
        Distance(a, b) == (86400 * (b[1] - a[1])) + b[2] - a[2]
    IN  /\ Filename(r, input.rockRidge)
             = IF ~Has("name") THEN input.identifier
               ELSE CASE input.name.flags = 2 -> Current
                      [] input.name.flags = 4 -> Parent
                      [] OTHER -> input.name.text
        /\ \A k \in DOMAIN DateTypes \ dated :
             time(k) = IF k = 1 THEN WrittenAt(HeaderDate) ELSE NoTime
        /\ IF input.long THEN \A j, k \in dated :
                               Distance(time(j), time(k)) = Distance(WrittenAt(j), WrittenAt(k))
           ELSE \A k \in dated : time(k) = WrittenAt(k)

-----------------------------------------------------------------------------
\* Timestamps: days about the ends of months and years, times about noon and
\* midnight.

Days == ({1999, 2000, 2100} \X (1 .. 12) \X {1, 28})
          \cup {<<1980, 1, 1>>, <<2000, 2, 29>>, <<1999, 1, 31>>, <<1999, 4, 30>>,
                <<1999, 12, 31>>, <<2107, 12, 31>>}
Times == {<<0, 0, 0>>, <<11, 59, 29>>, <<12, 0, 0>>, <<23, 59, 29>>}
Stamps == {[year |-> d[1] - 1980, month |-> d[2], day |-> d[3],
            hour |-> t[1], minute |-> t[2], secondDiv2 |-> t[3], createdTenth |-> tenth] :
             d \in Days, t \in Times, tenth \in {0, 19}}

\* What a timestamp records, the most significant first.
Recorded(type, s) ==
  <<s.year, s.month, s.day>>
    \o (IF type = "ACCESS" THEN << >> ELSE <<s.hour, s.minute, s.secondDiv2>>)
    \o (IF type = "CREATION" THEN <<s.createdTenth \div 10>> ELSE << >>)
Precedes(a, b) == \E i \in DOMAIN a : a[i] < b[i] /\ \A j \in 1 .. i - 1 : a[j] = b[j]

ConvertStamp ==
  \E type \in {"CREATION", "MODIFICATION", "ACCESS"}, stamp \in Stamps :
    input' = [kind |-> "stamp", type |-> type, stamp |-> stamp]

\* The dates of an ISO 9660 volume, by type and field.
VolumeDates == {<<"CREATION", "time_created">>, <<"MODIFICATION", "time_modified">>,
                <<"EXPIRATION", "time_expired_after">>, <<"EFFECTIVE", "time_effective_after">>}

ConvertVolumeDates ==
  \E k \in [{d[2] : d \in VolumeDates} -> {1, 2, 7, 12}] :
    input' = [kind |-> "volume dates", written |-> k, pvd |-> [field \in DOMAIN k |-> Long(k[field])]]

\* Files and volumes sort by a timestamp as they were written: a later one
\* recorded is a later time, and only the same one the same time, for creation
\* times of a FAT with less than 20 tenths (fat.c:1271-1314, iso9660.c:115-152,
\* 861-876).
StampsOrdered ==
  /\ input.kind = "stamp" =>
       LET recorded == Recorded(input.type, input.stamp)
           time     == Timegm(TmOf(input.type, input.stamp))
       IN  \A other \in Stamps :
             Precedes(recorded, Recorded(input.type, other))
               <=> Precedes(time, Timegm(TmOf(input.type, other)))
  /\ input.kind = "volume dates" =>
       \A d, e \in VolumeDates :
         input.written[d[2]] < input.written[e[2]]
           <=> Precedes(VolumeTimestamp(input.pvd, d[1]), VolumeTimestamp(input.pvd, e[1]))

-----------------------------------------------------------------------------
\* Volumes and times.

ConvertVolume ==
  \E type \in FatType, clusters \in ClusterCounts :
    \E bytes \in {512, 4096}, root \in {0, 17}, c \in {[size |-> 1, spare |-> 0], [size |-> 4, spare |-> 3]},
       place \in {[reserved |-> 1, fatCount |-> 2], [reserved |-> 32, fatCount |-> 1]} :
      LET f == [type |-> type, clusters |-> clusters, bytesPerSector |-> bytes,
                sectorsPerCluster |-> c.size, rootEntries |-> root, spare |-> c.spare,
                reserved |-> place.reserved, fatCount |-> place.fatCount]
      IN  IsVolume(f) /\ input' = [kind |-> "volume", volume |-> f]

\* The geometry of every volume (see ClustersFit and EntriesFit).
ClustersInVolume == input.kind = "volume" => ClustersFit(input.volume)
EntriesInFat     == input.kind = "volume" => EntriesFit(input.volume)

ConvertTimes ==
  \E s, t \in [second : Seconds, nsec : 0 .. Billion - 1] :
    input' = [kind |-> "times", ref |-> s, tm |-> t]

\* A time is reached from any other by their difference (see GivesBack).
DifferencesExact == input.kind = "times" => GivesBack(input.ref, input.tm)

-----------------------------------------------------------------------------
Init == input = NoInput

Return == input # NoInput /\ input' = NoInput
Convert ==
  /\ input = NoInput
  /\ \/ ConvertLongName
     \/ ConvertShortName
     \/ ConvertLabel
     \/ ConvertString
     \/ ConvertRecord
     \/ ConvertStamp
     \/ ConvertVolumeDates
     \/ ConvertVolume
     \/ ConvertTimes

Next == Convert \/ Return
Spec == Init /\ [][Next]_input
=============================================================================
