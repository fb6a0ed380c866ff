------------------------------ MODULE Alphabets ------------------------------
(***************************************************************************)
(* The letters of the codepages the FAT driver knows, as the Unicode       *)
(* Standard has them: the reference its uppercase tables are compared      *)
(* with.  No line is taken from those tables.                              *)
(***************************************************************************)
EXTENDS Integers

\* What pairs make of a byte; one that is in none stays as it is.
Image(pairs, byte) ==
  IF \E p \in pairs : p[1] = byte THEN (CHOOSE p \in pairs : p[1] = byte)[2] ELSE byte

\* The small letters with capitals in the same codepage, and those capitals.
Ascii == {<<small, small - 32>> : small \in 97 .. 122}

Letters437 == {
  <<129, 154>>, <<130, 144>>, <<132, 142>>, <<134, 143>>, <<135, 128>>, <<145, 146>>,
  <<148, 153>>, <<164, 165>>, <<229, 228>>, <<237, 232>>}
Letters737 == {
  <<152, 128>>, <<153, 129>>, <<154, 130>>, <<155, 131>>, <<156, 132>>, <<157, 133>>,
  <<158, 134>>, <<159, 135>>, <<160, 136>>, <<161, 137>>, <<162, 138>>, <<163, 139>>,
  <<164, 140>>, <<165, 141>>, <<166, 142>>, <<167, 143>>, <<168, 144>>, <<169, 145>>,
  <<170, 145>>, <<171, 146>>, <<172, 147>>, <<173, 148>>, <<174, 149>>, <<175, 150>>,
  <<224, 151>>, <<225, 234>>, <<226, 235>>, <<227, 236>>, <<228, 244>>, <<229, 237>>,
  <<230, 238>>, <<231, 239>>, <<232, 245>>, <<233, 240>>}
Letters771 == {
  <<160, 128>>, <<161, 129>>, <<162, 130>>, <<163, 131>>, <<164, 132>>, <<165, 133>>,
  <<166, 134>>, <<167, 135>>, <<168, 136>>, <<169, 137>>, <<170, 138>>, <<171, 139>>,
  <<172, 140>>, <<173, 141>>, <<174, 142>>, <<175, 143>>, <<221, 220>>, <<223, 222>>,
  <<224, 144>>, <<225, 145>>, <<226, 146>>, <<227, 147>>, <<228, 148>>, <<229, 149>>,
  <<230, 150>>, <<231, 151>>, <<232, 152>>, <<233, 153>>, <<234, 154>>, <<235, 155>>,
  <<236, 156>>, <<237, 157>>, <<238, 158>>, <<239, 159>>, <<241, 240>>, <<243, 242>>,
  <<245, 244>>, <<247, 246>>, <<249, 248>>, <<251, 250>>, <<253, 252>>}
Letters775 == {
  <<129, 154>>, <<130, 144>>, <<131, 160>>, <<132, 142>>, <<133, 149>>, <<134, 143>>,
  <<135, 128>>, <<136, 173>>, <<137, 237>>, <<139, 138>>, <<140, 161>>, <<145, 146>>,
  <<147, 226>>, <<148, 153>>, <<152, 151>>, <<155, 157>>, <<162, 224>>, <<164, 163>>,
  <<165, 141>>, <<208, 181>>, <<209, 182>>, <<210, 183>>, <<211, 184>>, <<212, 189>>,
  <<213, 190>>, <<214, 198>>, <<215, 199>>, <<216, 207>>, <<228, 229>>, <<231, 227>>,
  <<233, 232>>, <<235, 234>>, <<236, 238>>}
Letters850 == {
  <<129, 154>>, <<130, 144>>, <<131, 182>>, <<132, 142>>, <<133, 183>>, <<134, 143>>,
  <<135, 128>>, <<136, 210>>, <<137, 211>>, <<138, 212>>, <<139, 216>>, <<140, 215>>,
  <<141, 222>>, <<145, 146>>, <<147, 226>>, <<148, 153>>, <<149, 227>>, <<150, 234>>,
  <<151, 235>>, <<155, 157>>, <<160, 181>>, <<161, 214>>, <<162, 224>>, <<163, 233>>,
  <<164, 165>>, <<198, 199>>, <<208, 209>>, <<213, 73>>, <<228, 229>>, <<231, 232>>,
  <<236, 237>>}
Letters852 == {
  <<129, 154>>, <<130, 144>>, <<131, 182>>, <<132, 142>>, <<133, 222>>, <<134, 143>>,
  <<135, 128>>, <<136, 157>>, <<137, 211>>, <<139, 138>>, <<140, 215>>, <<146, 145>>,
  <<147, 226>>, <<148, 153>>, <<150, 149>>, <<152, 151>>, <<156, 155>>, <<159, 172>>,
  <<160, 181>>, <<161, 214>>, <<162, 224>>, <<163, 233>>, <<165, 164>>, <<167, 166>>,
  <<169, 168>>, <<171, 141>>, <<173, 184>>, <<190, 189>>, <<199, 198>>, <<208, 209>>,
  <<212, 210>>, <<216, 183>>, <<228, 227>>, <<229, 213>>, <<231, 230>>, <<234, 232>>,
  <<236, 237>>, <<238, 221>>, <<251, 235>>, <<253, 252>>}
Letters855 == {
  <<128, 129>>, <<130, 131>>, <<132, 133>>, <<134, 135>>, <<136, 137>>, <<138, 139>>,
  <<140, 141>>, <<142, 143>>, <<144, 145>>, <<146, 147>>, <<148, 149>>, <<150, 151>>,
  <<152, 153>>, <<154, 155>>, <<156, 157>>, <<158, 159>>, <<160, 161>>, <<162, 163>>,
  <<164, 165>>, <<166, 167>>, <<168, 169>>, <<170, 171>>, <<172, 173>>, <<181, 182>>,
  <<183, 184>>, <<189, 190>>, <<198, 199>>, <<208, 209>>, <<210, 211>>, <<212, 213>>,
  <<214, 215>>, <<216, 221>>, <<222, 224>>, <<225, 226>>, <<227, 228>>, <<229, 230>>,
  <<231, 232>>, <<233, 234>>, <<235, 236>>, <<237, 238>>, <<241, 242>>, <<243, 244>>,
  <<245, 246>>, <<247, 248>>, <<249, 250>>, <<251, 252>>}
Letters857 == {
  <<129, 154>>, <<130, 144>>, <<131, 182>>, <<132, 142>>, <<133, 183>>, <<134, 143>>,
  <<135, 128>>, <<136, 210>>, <<137, 211>>, <<138, 212>>, <<139, 216>>, <<140, 215>>,
  <<141, 73>>, <<145, 146>>, <<147, 226>>, <<148, 153>>, <<149, 227>>, <<150, 234>>,
  <<151, 235>>, <<155, 157>>, <<159, 158>>, <<160, 181>>, <<161, 214>>, <<162, 224>>,
  <<163, 233>>, <<164, 165>>, <<167, 166>>, <<198, 199>>, <<228, 229>>, <<236, 222>>}
Letters860 == {
  <<129, 154>>, <<130, 144>>, <<131, 143>>, <<132, 142>>, <<133, 145>>, <<135, 128>>,
  <<136, 137>>, <<138, 146>>, <<141, 152>>, <<147, 140>>, <<148, 153>>, <<149, 169>>,
  <<151, 157>>, <<160, 134>>, <<161, 139>>, <<162, 159>>, <<163, 150>>, <<164, 165>>,
  <<229, 228>>, <<237, 232>>}
Letters861 == {
  <<129, 154>>, <<130, 144>>, <<132, 142>>, <<134, 143>>, <<135, 128>>, <<140, 139>>,
  <<145, 146>>, <<148, 153>>, <<149, 141>>, <<152, 151>>, <<155, 157>>, <<160, 164>>,
  <<161, 165>>, <<162, 166>>, <<163, 167>>, <<229, 228>>, <<237, 232>>}
Letters862 == {<<164, 165>>, <<229, 228>>, <<237, 232>>}
Letters863 == {
  <<129, 154>>, <<130, 144>>, <<131, 132>>, <<133, 142>>, <<135, 128>>, <<136, 146>>,
  <<137, 148>>, <<138, 145>>, <<139, 149>>, <<140, 168>>, <<147, 153>>, <<150, 158>>,
  <<151, 157>>, <<229, 228>>, <<237, 232>>}
Letters865 == {
  <<129, 154>>, <<130, 144>>, <<132, 142>>, <<134, 143>>, <<135, 128>>, <<145, 146>>,
  <<148, 153>>, <<155, 157>>, <<164, 165>>, <<229, 228>>, <<237, 232>>}
Letters866 == {
  <<160, 128>>, <<161, 129>>, <<162, 130>>, <<163, 131>>, <<164, 132>>, <<165, 133>>,
  <<166, 134>>, <<167, 135>>, <<168, 136>>, <<169, 137>>, <<170, 138>>, <<171, 139>>,
  <<172, 140>>, <<173, 141>>, <<174, 142>>, <<175, 143>>, <<224, 144>>, <<225, 145>>,
  <<226, 146>>, <<227, 147>>, <<228, 148>>, <<229, 149>>, <<230, 150>>, <<231, 151>>,
  <<232, 152>>, <<233, 153>>, <<234, 154>>, <<235, 155>>, <<236, 156>>, <<237, 157>>,
  <<238, 158>>, <<239, 159>>, <<241, 240>>, <<243, 242>>, <<245, 244>>, <<247, 246>>}
Letters869 == {
  <<155, 134>>, <<157, 141>>, <<158, 143>>, <<159, 144>>, <<160, 145>>, <<162, 146>>,
  <<163, 149>>, <<214, 164>>, <<215, 165>>, <<216, 166>>, <<221, 167>>, <<222, 168>>,
  <<224, 169>>, <<225, 170>>, <<226, 172>>, <<227, 173>>, <<228, 181>>, <<229, 182>>,
  <<230, 183>>, <<231, 184>>, <<232, 189>>, <<233, 190>>, <<234, 198>>, <<235, 199>>,
  <<236, 207>>, <<237, 207>>, <<238, 208>>, <<242, 209>>, <<243, 210>>, <<244, 211>>,
  <<246, 212>>, <<250, 213>>, <<251, 150>>, <<253, 152>>}

Alphabet(codepage) ==
  CASE codepage = 437 -> Ascii \cup Letters437
    [] codepage = 737 -> Ascii \cup Letters737
    [] codepage = 771 -> Ascii \cup Letters771
    [] codepage = 775 -> Ascii \cup Letters775
    [] codepage = 850 -> Ascii \cup Letters850
    [] codepage = 852 -> Ascii \cup Letters852
    [] codepage = 855 -> Ascii \cup Letters855
    [] codepage = 857 -> Ascii \cup Letters857
    [] codepage = 860 -> Ascii \cup Letters860
    [] codepage = 861 -> Ascii \cup Letters861
    [] codepage = 862 -> Ascii \cup Letters862
    [] codepage = 863 -> Ascii \cup Letters863
    [] codepage = 865 -> Ascii \cup Letters865
    [] codepage = 866 -> Ascii \cup Letters866
    [] codepage = 869 -> Ascii \cup Letters869
    [] OTHER -> Ascii
=============================================================================
