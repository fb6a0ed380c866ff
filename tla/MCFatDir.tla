------------------------------ MODULE MCFatDir ------------------------------
(***************************************************************************)
(* Small directories: every list of files with and without a long name,    *)
(* deleted entries and a volume id that fits in a block of MCBlock         *)
(* entries with its end mark, and directories that fill their first block. *)
(***************************************************************************)
EXTENDS FatDir

MCBlock == 5

E(kind, owner) == [kind |-> kind, owner |-> owner]
Slots == {<<E("entry", "a")>>, <<E("lfn", "a"), E("entry", "a")>>,
          <<E("lfn", "b"), E("entry", "b")>>, <<E("deleted", "a")>>, <<E("volid", "v")>>}

\* The lists of slots that leave room for an end mark in one block; after it
\* every entry is an end mark, and the next block holds nothing else.
Fill(d, n) == d \o [k \in 1 .. n - Len(d) |-> E("end", "a")]
Lists == {FlattenSeq(s) : s \in SeqOf(Slots, MCBlock - 1)}
ShortDirs == {Fill(d, 2 * MCBlock) : d \in {l \in Lists : Len(l) < MCBlock}}

\* A file on every entry of the first block, and one in the second.
FullDirs == {Fill([k \in 1 .. MCBlock + 1 |-> E("entry", IF k % 2 = 0 THEN "b" ELSE "a")],
                  2 * MCBlock)}

\* Root directories of a volume without a volume id.
UnlabelledDirs == {Fill(<<E("entry", "a")>>, MCBlock)}

\* Names a caller asks for; "LONG" is a long name in other case.
MCWanted == {Long("a"), Short("a"), <<"LONG", "b">>, Short("b")}
MCFold(name) == IF name[1] = "LONG" THEN Long(name[2]) ELSE name
=============================================================================
