----------------------------- MODULE BlockStore -----------------------------
(***************************************************************************)
(* What the block cache of a FAT volume promises to the code above it: the *)
(* cache is invisible.  A volume is a store of blocks (single sectors and  *)
(* whole clusters); a read answers with the contents of the block asked    *)
(* for and changes nothing, a write replaces the contents of one block,    *)
(* and mounting or unmounting loses the answer but never the contents.     *)
(***************************************************************************)
CONSTANTS Block,        \* the blocks a caller can ask for
          Lba,          \* the sectors of the volume
          Value,        \* the contents a sector can have
          Span(_),      \* the sector positions of a block, counted from 0
          LbaOf(_, _),  \* the sector at a position of a block
          NoReply

VARIABLES store,        \* the contents of every sector
          reply         \* the answer to the last call

vars == <<store, reply>>

Contents(b) == [o \in Span(b) |-> store[LbaOf(b, o)]]

Init == /\ store \in [Lba -> Value]
        /\ reply = NoReply

Reset == /\ reply' = NoReply
         /\ UNCHANGED store

Read(b) == /\ reply' = [block |-> b, data |-> Contents(b)]
           /\ UNCHANGED store

Write(b, values) ==
  /\ values \in [Span(b) -> Value]
  /\ store' = [l \in Lba |-> IF \E o \in Span(b) : LbaOf(b, o) = l
                             THEN values[CHOOSE o \in Span(b) : LbaOf(b, o) = l]
                             ELSE store[l]]
  /\ reply' = [block |-> b, data |-> values]

Next == \/ Reset
        \/ \E b \in Block : Read(b)
        \/ \E b \in Block : \E values \in [Span(b) -> Value] : Write(b, values)

\* The same volume used by a client that only reads.
ReadNext == Reset \/ \E b \in Block : Read(b)

Spec     == Init /\ [][Next]_vars
ReadSpec == Init /\ [][ReadNext]_vars
=============================================================================
