---------------------------- MODULE FatCodepage ----------------------------
(***************************************************************************)
(* The uppercase tables of the single-byte codepages (fs/fat/codepage.h)   *)
(* and their choice (fs/fat/codepage.c).  A table is given by the bytes    *)
(* from the first to the last it changes.                                  *)
(***************************************************************************)
EXTENDS Integers, Sequences

CONSTANT NoTable        \* NULL

\* The table that maps the bytes from first on to upper, and keeps the others.
Table(first, upper) ==
  [b \in 128 .. 255 |->
     IF b - first + 1 \in DOMAIN upper THEN upper[b - first + 1] ELSE b]

cp437_uctable == Table(129, <<
  154, 69, 65, 142, 65, 143, 128, 69, 69, 69, 73, 73, 73, 142, 143, 144, 146, 146, 79,
  153, 79, 85, 85, 89, 153, 154, 155, 156, 157, 158, 159, 65, 73, 79, 85, 165>>)
cp720_uctable == Table(128, << >>)
cp737_uctable == Table(145, <<
  146, 146, 147, 148, 149, 150, 151, 128, 129, 130, 131, 132, 133, 134, 135, 136, 137,
  138, 139, 140, 141, 142, 143, 144, 145, 170, 146, 147, 148, 149, 150, 176, 177, 178,
  179, 180, 181, 182, 183, 184, 185, 186, 187, 188, 189, 190, 191, 192, 193, 194, 195,
  196, 197, 198, 199, 200, 201, 202, 203, 204, 205, 206, 207, 208, 209, 210, 211, 212,
  213, 214, 215, 216, 217, 218, 219, 220, 221, 222, 223, 151, 234, 235, 236, 228, 237,
  238, 239, 245, 240>>)
cp771_uctable == Table(160, <<
  128, 129, 130, 131, 132, 133, 134, 135, 136, 137, 138, 139, 140, 141, 142, 143, 176,
  177, 178, 179, 180, 181, 182, 183, 184, 185, 186, 187, 188, 189, 190, 191, 192, 193,
  194, 195, 196, 197, 198, 199, 200, 201, 202, 203, 204, 205, 206, 207, 208, 209, 210,
  211, 212, 213, 214, 215, 216, 217, 218, 219, 220, 220, 222, 222, 144, 145, 146, 147,
  148, 149, 150, 151, 152, 153, 154, 155, 156, 157, 158, 159, 240, 240, 242, 242, 244,
  244, 246, 246, 248, 248, 250, 250, 252, 252>>)
cp775_uctable == Table(129, <<
  154, 145, 160, 142, 149, 143, 128, 173, 237, 138, 138, 161, 141, 142, 143, 144, 146,
  146, 226, 153, 149, 150, 151, 151, 153, 154, 157, 156, 157, 158, 159, 160, 161, 224,
  163, 163, 165, 166, 167, 168, 169, 170, 171, 172, 173, 174, 175, 176, 177, 178, 179,
  180, 181, 182, 183, 184, 185, 186, 187, 188, 189, 190, 191, 192, 193, 194, 195, 196,
  197, 198, 199, 200, 201, 202, 203, 204, 205, 206, 207, 181, 182, 183, 184, 189, 190,
  198, 199, 165, 217, 218, 219, 220, 221, 222, 223, 224, 225, 226, 227, 229, 229, 230,
  227, 232, 232, 234, 234, 238>>)
cp850_uctable == Table(128, <<
  67, 85, 69, 65, 65, 65, 65, 67, 69, 69, 69, 73, 73, 73, 65, 65, 69, 146, 146, 79, 79,
  79, 85, 85, 89, 79, 85, 79, 156, 79, 158, 159, 65, 73, 79, 85, 165, 165, 166, 167,
  168, 169, 170, 171, 172, 173, 174, 175, 176, 177, 178, 179, 180, 65, 65, 65, 184, 185,
  186, 187, 188, 189, 190, 191, 192, 193, 194, 195, 196, 197, 65, 65, 200, 201, 202,
  203, 204, 205, 206, 207, 209, 209, 69, 69, 69, 73, 73, 73, 73, 217, 218, 219, 220,
  221, 73, 223, 79, 225, 79, 79, 79, 79, 230, 232, 232, 85, 85, 85, 89, 89>>)
cp852_uctable == Table(129, <<
  154, 144, 182, 142, 222, 143, 128, 157, 211, 138, 138, 215, 141, 142, 143, 144, 145,
  145, 226, 153, 149, 149, 151, 151, 153, 154, 155, 155, 157, 158, 172, 181, 214, 224,
  233, 164, 164, 166, 166, 168, 168, 170, 141, 172, 184, 174, 175, 176, 177, 178, 179,
  180, 181, 182, 183, 184, 185, 186, 187, 188, 189, 189, 191, 192, 193, 194, 195, 196,
  197, 198, 198, 200, 201, 202, 203, 204, 205, 206, 207, 209, 209, 210, 211, 210, 213,
  214, 215, 183, 217, 218, 219, 220, 221, 222, 223, 224, 225, 226, 227, 227, 213, 230,
  230, 232, 233, 232, 235, 237, 237, 221, 239, 240, 241, 242, 243, 244, 245, 246, 247,
  248, 249, 250, 235, 252, 252>>)
cp855_uctable == Table(128, <<
  129, 129, 131, 131, 133, 133, 135, 135, 137, 137, 139, 139, 141, 141, 143, 143, 145,
  145, 147, 147, 149, 149, 151, 151, 153, 153, 155, 155, 157, 157, 159, 159, 161, 161,
  163, 163, 165, 165, 167, 167, 169, 169, 171, 171, 173, 173, 174, 175, 176, 177, 178,
  179, 180, 182, 182, 184, 184, 185, 186, 187, 188, 190, 190, 191, 192, 193, 194, 195,
  196, 197, 199, 199, 200, 201, 202, 203, 204, 205, 206, 207, 209, 209, 211, 211, 213,
  213, 215, 215, 221, 217, 218, 219, 220, 221, 224, 223, 224, 226, 226, 228, 228, 230,
  230, 232, 232, 234, 234, 236, 236, 238, 238, 239, 240, 242, 242, 244, 244, 246, 246,
  248, 248, 250, 250, 252>>)
cp857_uctable == Table(129, <<
  154, 144, 182, 142, 183, 143, 128, 210, 211, 212, 216, 215, 73, 142, 143, 144, 146,
  146, 226, 153, 227, 234, 235, 152, 153, 154, 157, 156, 157, 158, 158, 181, 214, 224,
  233, 165, 165, 166, 166, 168, 169, 170, 171, 172, 173, 174, 175, 176, 177, 178, 179,
  180, 181, 182, 183, 184, 185, 186, 187, 188, 189, 190, 191, 192, 193, 194, 195, 196,
  197, 199, 199, 200, 201, 202, 203, 204, 205, 206, 207, 208, 209, 210, 211, 212, 73,
  214, 215, 216, 217, 218, 219, 220, 221, 222, 223, 224, 225, 226, 227, 229, 229, 230,
  231, 232, 233, 234, 235, 222>>)
cp860_uctable == Table(129, <<
  154, 144, 143, 142, 145, 134, 128, 137, 137, 146, 139, 140, 152, 142, 143, 144, 145,
  146, 140, 153, 169, 150, 157, 152, 153, 154, 155, 156, 157, 158, 159, 134, 139, 159,
  150, 165>>)
cp861_uctable == Table(129, <<
  154, 144, 65, 142, 65, 143, 128, 69, 69, 69, 139, 139, 141, 142, 143, 144, 146, 146,
  79, 153, 141, 85, 151, 151, 153, 154, 157, 156, 157, 158, 159, 164, 165, 166, 167>>)
cp862_uctable == Table(160, <<
  65, 73, 79, 85, 165>>)
cp863_uctable == Table(128, <<
  67, 85, 69, 65, 65, 65, 134, 67, 69, 69, 69, 73, 73, 141, 65, 143, 69, 69, 69, 79, 69,
  73, 85, 85, 152, 79, 85, 155, 156, 85, 85, 159, 160, 161, 79, 85, 164, 165, 166, 167,
  73>>)
cp864_uctable == Table(129, <<
  154, 69, 65, 142, 65, 143, 128, 69, 69, 69, 73, 73, 73, 142, 143, 144, 146, 146, 79,
  153, 79, 85, 85, 89, 153, 154, 155, 156, 157, 158, 159, 65, 73, 79, 85, 165>>)
\* Mutant: the table of another codepage.
cp865_uctableCopied == cp437_uctable
cp865_uctable == Table(129, <<
  154, 144, 65, 142, 65, 143, 128, 69, 69, 69, 73, 73, 73, 142, 143, 144, 146, 146, 79,
  153, 79, 85, 85, 89, 153, 154, 155, 156, 157, 158, 159, 65, 73, 79, 85, 165>>)
cp866_uctable == Table(160, <<
  128, 129, 130, 131, 132, 133, 134, 135, 136, 137, 138, 139, 140, 141, 142, 143, 176,
  177, 178, 179, 180, 181, 182, 183, 184, 185, 186, 187, 188, 189, 190, 191, 192, 193,
  194, 195, 196, 197, 198, 199, 200, 201, 202, 203, 204, 205, 206, 207, 208, 209, 210,
  211, 212, 213, 214, 215, 216, 217, 218, 219, 220, 221, 222, 223, 144, 145, 146, 147,
  148, 149, 150, 151, 152, 153, 154, 155, 156, 157, 158, 159, 240, 240, 242, 242, 244,
  244, 246, 246>>)
cp869_uctable == Table(155, <<
  134, 156, 141, 143, 144, 145, 144, 146, 149, 164, 165, 166, 167, 168, 169, 170, 171,
  172, 173, 174, 175, 176, 177, 178, 179, 180, 181, 182, 183, 184, 185, 186, 187, 188,
  189, 190, 191, 192, 193, 194, 195, 196, 197, 198, 199, 200, 201, 202, 203, 204, 205,
  206, 207, 208, 209, 210, 211, 212, 213, 164, 165, 166, 217, 218, 219, 220, 167, 168,
  223, 169, 170, 172, 173, 181, 182, 183, 184, 189, 190, 198, 199, 207, 207, 208, 239,
  240, 241, 209, 210, 211, 245, 212, 247, 248, 249, 213, 150, 149, 152>>)

Codepages == {437, 720, 737, 771, 775, 850, 852, 855, 857, 860, 861, 862, 863, 864, 865, 866, 869}

\* get_uppercase_table.
UppercaseTable(codepage) ==
  CASE codepage = 437 -> cp437_uctable
    [] codepage = 720 -> cp720_uctable
    [] codepage = 737 -> cp737_uctable
    [] codepage = 771 -> cp771_uctable
    [] codepage = 775 -> cp775_uctable
    [] codepage = 850 -> cp850_uctable
    [] codepage = 852 -> cp852_uctable
    [] codepage = 855 -> cp855_uctable
    [] codepage = 857 -> cp857_uctable
    [] codepage = 860 -> cp860_uctable
    [] codepage = 861 -> cp861_uctable
    [] codepage = 862 -> cp862_uctable
    [] codepage = 863 -> cp863_uctable
    [] codepage = 864 -> cp864_uctable
    [] codepage = 865 -> cp865_uctable
    [] codepage = 866 -> cp866_uctable
    [] codepage = 869 -> cp869_uctable
    [] OTHER -> NoTable
=============================================================================
