------------------------------- MODULE MCGpt -------------------------------
(***************************************************************************)
(* Small images for Gpt: empty and blank ones, and images with a partition *)
(* table in sector 2 on, which goes on in sector 3.                       *)
(***************************************************************************)
EXTENDS Gpt, TLC

ZeroUnit      == [kind |-> "zero"]
Mbr           == [kind |-> "mbr", lba |-> 1]
Header(n)     == [kind |-> "header", entries |-> 2, count |-> n]
PartUnit(id)  == [kind |-> "part", id |-> id]
DataUnit(o)   == [kind |-> "data", at |-> o]

Largest == CHOOSE s \in SectorSizes : \A t \in SectorSizes : t <= s
MCBuffers == {[o \in 1 .. MaxCount * Largest |-> DataUnit(o)]}

MCUnit == {ZeroUnit, Mbr, Header(5)}
          \cup {PartUnit(k) : k \in 0 .. 5}
          \cup {DataUnit(o) : o \in 1 .. MaxCount * Largest}

Zeros(n) == [p \in 1 .. n |-> ZeroUnit]

\* Sectors 2 and 3 hold the entries, sector 3 in part.
Entries(used) == [k \in 1 .. 2 * BufSize |->
                    IF k - 1 \in used THEN PartUnit(k - 1) ELSE ZeroUnit]
Image(used, n) == Zeros(3) \o <<Mbr, Header(n)>> \o Zeros(3) \o Entries(used)

\* Six entries, of which the header counts five, or three with one unused
\* before the last.
MCImages == {Zeros(n) : n \in {0, 3, 2 * BufSize}}
            \cup {Image(0 .. 5, 5), Image({0, 1, 3}, 5)}

MCStack == {Zeros(BufSize), [o \in 1 .. BufSize |-> DataUnit(o)]}

Symmetry == Permutations(Iter)
=============================================================================
