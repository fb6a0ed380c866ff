----------------------------- MODULE ByteStream -----------------------------
(***************************************************************************)
(* What an open file promises: a fixed sequence of bytes and a cursor into *)
(* it.  A read of count blocks of size bytes delivers as many whole blocks *)
(* as lie between the cursor and the end, in order and in one step.        *)
(***************************************************************************)
EXTENDS Integers, Sequences, FiniteSetsExt

CONSTANTS Sizes, Counts, Offsets   \* the arguments of the calls

VARIABLES bytes, cursor, answer

vars == <<bytes, cursor, answer>>

End == Len(bytes)

\* The whole blocks a read can deliver.
Blocks(size, count) ==
  Max({n \in 0 .. count : cursor + n * size <= End})

Init == /\ cursor = 0
        /\ answer = [op |-> "open", ret |-> 0, data |-> <<>>]

Read(size, count) ==
  /\ LET n == Blocks(size, count) IN
       IF cursor >= End
       THEN /\ answer' = [op |-> "read", ret |-> -1, data |-> <<>>]
            /\ UNCHANGED cursor
       ELSE /\ answer' = [op |-> "read", ret |-> n,
                          data |-> SubSeq(bytes, cursor + 1, cursor + n * size)]
            /\ cursor' = cursor + n * size
  /\ UNCHANGED bytes

\* A read of a file whose file system is not mounted: an error, no data.
ReadRefused ==
  /\ answer' = [op |-> "refused", ret |-> 1, data |-> <<>>]
  /\ UNCHANGED <<bytes, cursor>>

\* A seek lands inside the file or at its end, or does nothing.
Seek(target) ==
  /\ IF target \in 0 .. End
     THEN cursor' = target /\ answer' = [op |-> "seek", ret |-> 0, data |-> <<>>]
     ELSE answer' = [op |-> "seek", ret |-> 1, data |-> <<>>] /\ UNCHANGED cursor
  /\ UNCHANGED bytes

Tell  == /\ answer' = [op |-> "tell", ret |-> cursor, data |-> <<>>]
         /\ UNCHANGED <<bytes, cursor>>
IsEof == /\ answer' = [op |-> "iseof", ret |-> IF cursor >= End THEN 1 ELSE 0,
                       data |-> <<>>]
         /\ UNCHANGED <<bytes, cursor>>

Next ==
  \/ \E size \in Sizes, count \in Counts : Read(size, count)
  \/ ReadRefused
  \/ \E offset \in Offsets : \/ Seek(offset)
                             \/ Seek(cursor + offset)
                             \/ offset <= 0 /\ Seek(End + offset)
  \/ Seek(-1)
  \/ Tell
  \/ IsEof

Spec == Init /\ [][Next]_vars
=============================================================================
