---------------------------- MODULE SectorDevice ----------------------------
(***************************************************************************)
(* What a drive promises to the file systems and partition tables above    *)
(* it.  A device is an image, a sequence of units cut into sectors; a read *)
(* answers with whole sectors of it, a write replaces whole sectors and    *)
(* nothing else, and both say how many they transferred.  The medium       *)
(* behind the device may lag by one sector: a crash can undo the last      *)
(* sector written, never an earlier one and never another.                 *)
(*                                                                         *)
(* This holds of a call unless the device then fails to bring its medium   *)
(* up to date, which `faults` counts and the caller is not told.  Such a   *)
(* call loses the last sector written; as a read it may answer its first   *)
(* sector with another, as a write it may put its sectors elsewhere.       *)
(***************************************************************************)
EXTENDS Integers, Sequences

CONSTANTS Lbas,         \* the sector numbers a caller asks for
          Sizes,        \* the sizes of a sector, in units
          MaxCount,     \* the most sectors one call asks for
          Buffers,      \* what callers write
          Zero,         \* what a gap is filled with
          NoReply,
          Crashed       \* the answer to a call that never returned

VARIABLES image,        \* the contents of the device
          medium,       \* the contents that survive a crash
          sector,       \* the distance of two sectors, or NoSector
          faults,       \* the calls in which the device failed
          reply         \* the answer to the last call

vars == <<image, medium, sector, faults, reply>>

NoSector == 0

\* The place in the image of the unit at offset o of sector lba + k.
Place(lba, k, o) == (lba + k) * sector + o + 1

\* new is old with the first n sectors of buf written from lba on, size units
\* of each sector; what lies between the old end and the new one is zero.
Written(old, new, lba, size, n, buf) ==
  LET places == {Place(lba, k, o) : k \in 0 .. n - 1, o \in 0 .. size - 1}
  IN  /\ Len(new) = IF n > 0 /\ Place(lba, n - 1, size - 1) > Len(old)
                    THEN Place(lba, n - 1, size - 1) ELSE Len(old)
      /\ \A k \in 0 .. n - 1, o \in 0 .. size - 1 :
           new[Place(lba, k, o)] = buf[k * size + o + 1]
      /\ \A p \in DOMAIN new \ places :
           new[p] = IF p <= Len(old) THEN old[p] ELSE Zero

Init == /\ medium = image
        /\ sector = NoSector
        /\ faults = 0
        /\ reply = NoReply

\* The device is opened or closed, or used without answering a caller here:
\* its contents stay, and what was written may reach the medium.
Settle == /\ UNCHANGED <<image, faults>>
          /\ medium' \in {medium, image}
          /\ reply' = NoReply

Read(lba, size, n) ==
  /\ UNCHANGED <<image, sector, faults>>
  /\ n > 0 => Place(lba, n - 1, size - 1) <= Len(image)
  /\ LET data[i \in 1 .. n * size] ==
            image[Place(lba, (i - 1) \div size, (i - 1) % size)]
     IN  reply' = [count |-> n, data |-> data]
  /\ medium' \in {medium, image}

Write(lba, size, n, buf) ==
  /\ UNCHANGED <<sector, faults>>
  /\ reply' = [count |-> n, data |-> <<>>]
  /\ Written(image, image', lba, size, n, buf)
  /\ \/ medium' = image'
     \/ n = 0 /\ medium' = medium
     \/ n > 0 /\ Written(image, medium', lba, size, n - 1, buf)

Crash == /\ image' = medium
         /\ UNCHANGED <<medium, faults>>
         /\ sector' = NoSector
         /\ reply' = Crashed

-----------------------------------------------------------------------------
\* A call in which the device failed.

\* The last sector written is lost.
SetBack == /\ image' = medium
           /\ UNCHANGED medium
           /\ faults' = faults + 1

SettleFaulty == SetBack /\ reply' = NoReply

ReadFaulty(lba, size, n) ==
  /\ SetBack
  /\ reply' \notin {NoReply, Crashed}
  /\ reply'.count = n /\ Len(reply'.data) = n * size
  /\ n > 1 => Place(lba, n - 1, size - 1) <= Len(image')
  /\ \A i \in size + 1 .. n * size :
       reply'.data[i] = image'[Place(lba, (i - 1) \div size, (i - 1) % size)]
  /\ UNCHANGED sector

\* new is made of the image, the medium and buf, unit by unit.
Patchwork(new, buf) ==
  /\ Len(new) >= Len(medium)
  /\ \A p \in DOMAIN new :
       \/ p \in DOMAIN image /\ new[p] = image[p]
       \/ p \in DOMAIN medium /\ new[p] = medium[p]
       \/ p \notin DOMAIN medium /\ new[p] = Zero
       \/ \E i \in DOMAIN buf : new[p] = buf[i]

WriteFaulty(n, buf) ==
  /\ reply' = [count |-> n, data |-> <<>>]
  /\ faults' = faults + 1
  /\ Patchwork(image', buf) /\ Patchwork(medium', buf)
  /\ UNCHANGED sector

Next ==
  \/ Settle
  \/ Crash
  \/ \E lba \in Lbas, size \in Sizes, n \in 0 .. MaxCount : Read(lba, size, n)
  \/ \E lba \in Lbas, size \in Sizes, n \in 0 .. MaxCount, buf \in Buffers :
       Write(lba, size, n, buf)
  \/ SettleFaulty
  \/ \E lba \in Lbas, size \in Sizes, n \in 0 .. MaxCount : ReadFaulty(lba, size, n)
  \/ \E n \in 0 .. MaxCount, buf \in Buffers : WriteFaulty(n, buf)

Spec == Init /\ [][Next]_vars
=============================================================================
