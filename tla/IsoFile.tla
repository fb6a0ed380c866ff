------------------------------ MODULE IsoFile ------------------------------
(***************************************************************************)
(* An open file of the ISO 9660 driver: file_read, file_seek, file_tell    *)
(* and file_iseof of fs/iso9660/iso9660.c.  A file lies in consecutive     *)
(* sectors; the byte at offset o of sector l is the pair <<l, o>>.         *)
(* Sectors come from the cache, which hands back what is on the drive      *)
(* (IsoDiskbuf), so that no copy of them is kept here.                     *)
(*                                                                         *)
(* The machine's integers wrap: a read that does not end goes round.       *)
(***************************************************************************)
EXTENDS Integers, Sequences, Bitwise

CONSTANTS
  SectorSize,    \* fs->sector_size, a power of two
  Half,          \* 2^16, the range of the uint16_t locals; more than a sector
  Word,          \* 2^32 for sectors, 2^64 for the cursor; one range here,
                 \* larger than any sector of a file, or its end and a block
  LbaData,       \* file->lba_data
  MaxSize,       \* the largest file
  Sizes, Counts, \* arguments of file_read
  Offsets        \* argument of file_seek

VARIABLES
  size,      \* direntry.data_size
  mounted,   \* fs->mounted
  cursor,    \* file->cursor
  call,      \* the locals of a file_read in progress, or NoCall
  answer     \* what the last call returned and delivered

vars == <<size, mounted, cursor, call, answer>>

NoCall == [size |-> 0, count |-> 0, blkcnt |-> 0, lba |-> 0, offs |-> 0,
           data |-> <<>>, at |-> "idle"]
Idle   == call.at = "idle"
Return(op, ret, data) == answer' = [op |-> op, ret |-> ret, data |-> data]

Init ==
  /\ size \in 0 .. MaxSize
  /\ mounted = TRUE /\ cursor = 0 /\ call = NoCall
  /\ answer = [op |-> "open", ret |-> 0, data |-> <<>>]

-----------------------------------------------------------------------------
\* file_read.

ReadUnmounted ==
  /\ Idle /\ ~mounted
  /\ Return("refused", 1, <<>>)
  /\ UNCHANGED <<size, mounted, cursor, call>>

ReadAtEnd ==
  /\ Idle /\ mounted /\ cursor >= size
  /\ Return("read", -1, <<>>)
  /\ UNCHANGED <<size, mounted, cursor, call>>

ReadStart(n, count) ==
  /\ Idle /\ mounted /\ cursor < size
  /\ call' = [NoCall EXCEPT !.size = n, !.count = count, !.at = "block",
                            !.lba = (LbaData + cursor \div SectorSize) % Word]
  /\ UNCHANGED <<size, mounted, cursor, answer>>

ReadDone ==
  /\ call.at = "block"
  /\ call.blkcnt = call.count \/ cursor + call.size > size
  /\ Return("read", call.blkcnt, call.data)
  /\ call' = NoCall
  /\ UNCHANGED <<size, mounted, cursor>>

\* sector_offs is the cursor and-ed with the size of a sector: that size in
\* every other sector of the file, and 0 elsewhere.
ReadBlock ==
  /\ call.at = "block"
  /\ call.blkcnt < call.count /\ cursor + call.size <= size
  /\ call' = [call EXCEPT !.offs = cursor & SectorSize, !.at = "copy"]
  /\ UNCHANGED <<size, mounted, cursor, answer>>

\* block_read_bytes is 0 in every turn: the branch that goes on to the next
\* sector counts in block_max_read, which is set anew.
SectorMaxRead == (SectorSize - call.offs) % Half
BlockMaxRead  == call.size % Half
EndsInside    == SectorMaxRead > BlockMaxRead

\* n bytes from sector_offs on; what does not fit the caller's buffer goes
\* somewhere else in memory.
Copied(n) ==
  LET piece == [k \in 1 .. n |-> <<call.lba, call.offs + k - 1>>]
      all   == call.data \o piece
  IN  SubSeq(all, 1, IF Len(all) < call.size * call.count THEN Len(all)
                     ELSE call.size * call.count)

CopyLast ==
  /\ call.at = "copy" /\ EndsInside
  /\ call' = [call EXCEPT !.blkcnt = @ + 1, !.at = "block", !.data = Copied(BlockMaxRead)]
  /\ cursor' = cursor + BlockMaxRead
  /\ UNCHANGED <<size, mounted, answer>>

\* sector_offs stays as it is.
CopyOn ==
  /\ call.at = "copy" /\ ~EndsInside
  /\ call' = [call EXCEPT !.lba = (@ + 1) % Word, !.data = Copied(SectorMaxRead)]
  /\ cursor' = (cursor + SectorMaxRead) % Word
  /\ UNCHANGED <<size, mounted, answer>>

ReadStep == ReadDone \/ ReadBlock \/ CopyLast \/ CopyOn

-----------------------------------------------------------------------------
\* file_seek, file_tell, file_iseof.

SeekTo(target, allowed) ==
  /\ Idle
  /\ IF allowed THEN cursor' = target /\ Return("seek", 0, <<>>)
     ELSE Return("seek", 1, <<>>) /\ UNCHANGED cursor
  /\ UNCHANGED <<size, mounted, call>>

SeekSet(offset) == SeekTo(offset, offset <= size /\ offset >= 0)
SeekCur(offset) == SeekTo(cursor + offset, offset + cursor <= size /\ offset + cursor >= 0)
SeekEnd(offset) == SeekTo(size + offset, offset <= 0 /\ offset + size >= 0)
SeekInvalid     == SeekTo(cursor, FALSE)

Tell ==
  /\ Idle
  /\ Return("tell", IF cursor > size THEN -1 ELSE cursor, <<>>)
  /\ UNCHANGED <<size, mounted, cursor, call>>

IsEof ==
  /\ Idle
  /\ Return("iseof", IF cursor >= size THEN 1 ELSE 0, <<>>)
  /\ UNCHANGED <<size, mounted, cursor, call>>

Unmount ==
  /\ Idle /\ mounted /\ mounted' = FALSE
  /\ UNCHANGED <<size, cursor, call, answer>>

Next ==
  \/ ReadUnmounted \/ ReadAtEnd
  \/ \E n \in Sizes, count \in Counts : ReadStart(n, count)
  \/ ReadStep
  \/ \E offset \in Offsets : SeekSet(offset) \/ SeekCur(offset) \/ SeekEnd(offset)
  \/ SeekInvalid \/ Tell \/ IsEof
  \/ Unmount

\* The loops of file_read run on the thread of its caller.
Spec == Init /\ [][Next]_vars /\ WF_vars(ReadStep)

-----------------------------------------------------------------------------
\* Properties.

\* A call of file_read returns: the tests read files as one block and expect 1
\* (test_file_read, tests/fs/test_iso9660.c:177).
ReadReturns == ~Idle ~> Idle
=============================================================================
