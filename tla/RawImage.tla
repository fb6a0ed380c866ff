------------------------------ MODULE RawImage ------------------------------
(***************************************************************************)
(* The raw image drive (drive/rawimage.c): a drive whose sectors lie one   *)
(* behind the other in a file, reached with fseek, fread and fwrite.       *)
(*                                                                         *)
(* The image is a sequence of units; how many bytes a unit stands for is   *)
(* left to the module that extends this one.  The C library may keep what  *)
(* fwrite was given until the next fseek or fclose: this is `unwritten`.   *)
(* fseek and fclose return whether writing that out succeeded; the code    *)
(* looks at neither result.  A stream whose fseek failed is where the      *)
(* sector it lost was to go.                                               *)
(***************************************************************************)
EXTENDS Integers, Sequences

CONSTANTS
  Unit,         \* the contents of a unit
  Zero,         \* the unit the file system fills a gap with
  Images,       \* the images a file may hold at first
  SectorSizes,  \* the sector sizes callers pass, in units
  SectorWord,   \* drvinfo.sector_size is reduced modulo this: 2^16 bytes
  LbaWord,      \* the number of values of an lba_t
  Lbas,         \* the sectors callers ask for
  MaxCount,     \* the most sectors one call asks for
  Buffers,      \* the buffers callers write from
  MaxLength,    \* bound: no write that would make the image longer is tried
  WriteFaults,  \* TRUE iff writing may fail on a drive that is not read-only
  MaxFaults,    \* bound: the calls in which writing out what was kept may fail
  NoDrive, NoData, NoReply,
  Crashed       \* the answer to a call the process did not outlive

ASSUME RawImageAssumption ==
  /\ Zero \in Unit
  /\ Images \subseteq Seq(Unit)
  /\ SectorSizes \subseteq Nat \ {0} /\ SectorWord \in Nat \ {0}
  /\ LbaWord \in Nat \ {0} /\ Lbas \subseteq 0 .. LbaWord - 1
  /\ MaxCount \in Nat \ {0} /\ MaxLength \in Nat
  /\ Buffers \subseteq Seq(Unit)
  /\ \A buf \in Buffers : \A size \in SectorSizes : Len(buf) >= MaxCount * size
  /\ WriteFaults \in BOOLEAN /\ MaxFaults \in Nat
  /\ NoData \notin [at : Nat, data : Seq(Unit)]
  /\ {NoReply, Crashed} \cap [count : 0 .. MaxCount, data : Seq(Unit)] = {}

VARIABLES
  file,         \* the image as the file system has it
  drv,          \* the open drive: its drvinfo, or NoDrive
  unwritten,    \* what fwrite took and the file has not: a Chunk, or NoData
  faults,       \* the calls so far in which writing out what was kept failed
  reply         \* the answer to the last read or write, or NoReply

driveVars == <<file, drv, unwritten, faults, reply>>

DriveInfo == [sector_size : Nat, lba_max : 0 .. LbaWord - 1, readonly : BOOLEAN]
Chunk     == [at : Nat, data : Seq(Unit)]
Reply     == [count : 0 .. MaxCount, data : Seq(Unit)]

DriveTypeOK ==
  /\ file \in Seq(Unit)
  /\ drv \in DriveInfo \cup {NoDrive}
  /\ unwritten \in Chunk \cup {NoData}
  /\ faults \in Nat
  /\ reply \in Reply \cup {NoReply, Crashed}

Larger(a, b) == IF a > b THEN a ELSE b

\* The file after data was written at offset at: the gap before it reads zero.
Patched(f, at, data) ==
  [p \in 1 .. Larger(Len(f), at + Len(data)) |->
     IF p \in at + 1 .. at + Len(data) THEN data[p - at]
     ELSE IF p <= Len(f) THEN f[p] ELSE Zero]

\* The image with what was kept written out.
Contents == IF unwritten = NoData THEN file
            ELSE Patched(file, unwritten.at, unwritten.data)

\* fseek(fp, lba * img_sector_size)
Offset(lba) == lba * drv.sector_size

\* The turns of a loop, up to turn n, in which fseek may fail: the kept sector
\* cannot be written out.  Before turn 0 one is kept only by an earlier call.
FailedSeeks(n) ==
  {F \in SUBSET (0 .. n) :
     F # {} => /\ WriteFaults /\ faults < MaxFaults
               /\ 0 \in F => unwritten # NoData}

\* The file after the first fseek: what was kept is in it, or lost.
Start(F) == IF 0 \in F THEN file ELSE Contents

\* Where the stream is in turn k of a loop over the sectors from lba on: where
\* the last fseek that worked put it, or where the kept sector was to go.
Landing(F, lba, k) ==
  LET sought == (0 .. k) \ F
  IN  IF sought = {} THEN unwritten.at
      ELSE Offset(lba + CHOOSE j \in sought : \A i \in sought : i <= j)

Sector(f, at, size) == [o \in 1 .. size |-> f[at + o]]

\* fread returns 1 only for a whole sector.
InFile(f, at, size) == at + size <= Len(f)

\* The turns the loop of read_sector makes before a sector is short.
Turns(f, F, lba, size, cnt) ==
  CHOOSE n \in 0 .. cnt :
    /\ \A k \in 0 .. n - 1 : InFile(f, Landing(F, lba, k), size)
    /\ n < cnt => ~InFile(f, Landing(F, lba, n), size)

\* The n sectors found, one behind the other as in the caller's buffer.
Gathered(f, F, lba, size, n) ==
  [i \in 1 .. n * size |->
     Sector(f, Landing(F, lba, (i - 1) \div size), size)[1 + ((i - 1) % size)]]

\* The part of a caller's buffer that goes to sector k of the call.
Part(buf, size, k) == SubSeq(buf, k * size + 1, (k + 1) * size)

\* f after the first n turns of write_sector's loop: the sector of a turn is
\* lost when the next fseek fails.
Scattered(f, F, lba, size, n, buf) ==
  LET turn[k \in 0 .. n] ==
        IF k = 0 THEN f
        ELSE IF k \in F THEN turn[k - 1]
        ELSE Patched(turn[k - 1], Landing(F, lba, k - 1), Part(buf, size, k - 1))
  IN  turn[n]

-----------------------------------------------------------------------------
\* Mutant: lba_max counts the sectors.
CreateOnePast(size, readonly) ==
  /\ drv = NoDrive
  /\ drv' = IF Len(file) % size # 0 THEN NoDrive
            ELSE [sector_size |-> size % SectorWord,
                  lba_max |-> (Len(file) \div size) % LbaWord,
                  readonly |-> readonly]
  /\ reply' = NoReply
  /\ UNCHANGED <<file, unwritten, faults>>

\* Mutant: lba_max is not an unsigned number.
CreateSigned(size, readonly) ==
  /\ drv = NoDrive
  /\ drv' = IF Len(file) % size # 0 THEN NoDrive
            ELSE [sector_size |-> size % SectorWord,
                  lba_max |-> (Len(file) \div size) - 1,
                  readonly |-> readonly]
  /\ reply' = NoReply
  /\ UNCHANGED <<file, unwritten, faults>>

\* ofsl_drive_rawimage_create: a size that does not divide the file's is
\* refused.  The drive keeps the sector size in 16 bits.

Create(size, readonly) ==
  /\ drv = NoDrive
  /\ drv' = IF Len(file) % size # 0 THEN NoDrive
            ELSE [sector_size |-> size % SectorWord,
                  lba_max |-> ((Len(file) \div size) - 1) % LbaWord,
                  readonly |-> readonly]
  /\ reply' = NoReply
  /\ UNCHANGED <<file, unwritten, faults>>

\* Mutant: what fwrite kept is dropped.
DeleteUnwritten ==
  /\ drv # NoDrive
  /\ drv' = NoDrive
  /\ unwritten' = NoData
  /\ reply' = NoReply
  /\ UNCHANGED <<file, faults>>

Counted(F) == faults' = IF F = {} THEN faults ELSE faults + 1

\* fseek or fclose: nothing is kept any longer.
Sought(F) == /\ file' = Start(F)
             /\ unwritten' = NoData
             /\ Counted(F)

\* _delete: fclose writes out what was kept, or fails to.
Delete ==
  /\ drv # NoDrive
  /\ drv' = NoDrive
  /\ \E F \in FailedSeeks(0) : Sought(F)
  /\ reply' = NoReply

\* The process ends without fclose.
Crash ==
  /\ drv # NoDrive
  /\ drv' = NoDrive
  /\ unwritten' = NoData
  /\ reply' = Crashed
  /\ UNCHANGED <<file, faults>>

\* Every turn of either loop begins with fseek; only the first one of a read
\* has something to write out.
Read(lba, size, cnt) ==
  /\ drv # NoDrive
  /\ IF size > drv.sector_size
     THEN /\ reply' = [count |-> 0, data |-> <<>>]
          /\ UNCHANGED <<file, unwritten, faults>>
     ELSE \E F \in FailedSeeks(0) :
            LET n == Turns(Start(F), F, lba, size, cnt)
            IN  /\ reply' = [count |-> n, data |-> Gathered(Start(F), F, lba, size, n)]
                /\ Sought(F)
  /\ UNCHANGED drv

\* The turns that write_sector makes: none on a file opened "rb".
WriteTurns(cnt) == IF drv.readonly THEN {0}
                   ELSE IF WriteFaults THEN 0 .. cnt ELSE {cnt}

\* The fseeks of a loop whose fwrite worked in n of cnt turns.
LoopSeeks(cnt, n) == FailedSeeks(IF n < cnt THEN n ELSE cnt - 1)

\* n turns of the loop.  The last fwrite may stay in the library's buffer,
\* unless a further turn began with fseek and then failed.
WriteLoop(F, lba, size, cnt, n, buf) ==
  \/ /\ file' = Scattered(Start(F), F, lba, size, n, buf)
     /\ unwritten' = NoData
  \/ /\ n = cnt
     /\ file' = Scattered(Start(F), F, lba, size, n - 1, buf)
     /\ unwritten' = [at |-> Landing(F, lba, n - 1), data |-> Part(buf, size, n - 1)]

Write(lba, size, cnt, buf) ==
  /\ drv # NoDrive
  /\ Offset(lba + cnt - 1) + size <= MaxLength
  /\ \/ /\ size > drv.sector_size
        /\ reply' = [count |-> 0, data |-> <<>>]
        /\ UNCHANGED <<file, unwritten, faults>>
     \/ /\ size <= drv.sector_size
        /\ \E n \in WriteTurns(cnt) : \E F \in LoopSeeks(cnt, n) :
             /\ WriteLoop(F, lba, size, cnt, n, buf)
             /\ Counted(F)
             /\ reply' = [count |-> n, data |-> <<>>]
  /\ UNCHANGED drv

Init ==
  /\ file \in Images
  /\ drv = NoDrive
  /\ unwritten = NoData
  /\ faults = 0
  /\ reply = NoReply
=============================================================================
