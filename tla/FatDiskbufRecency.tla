-------------------------- MODULE FatDiskbufRecency --------------------------
(***************************************************************************)
(* The block cache with a history of its accesses: recency lists the       *)
(* entries in use from the most to the least recently accessed.  The code  *)
(* has only the saturating usage tags; the history says what they are for. *)
(* Reads suffice: a write allocates its entry exactly as a read does.      *)
(***************************************************************************)
EXTENDS FatDiskbuf, SequencesExt

VARIABLE recency

histVars == <<vars, recency>>

HistInit == Init /\ recency = <<>>

\* The place of entry i in the history, the one behind all others if it is new.
PlaceOf(i) == IF i \in ToSet(recency) THEN CHOOSE p \in DOMAIN recency : recency[p] = i
              ELSE Len(recency) + 1

\* Entry i moves to the front, and those before it move back one place.
Accessed(i) ==
  [p \in 1 .. (IF i \in ToSet(recency) THEN Len(recency) ELSE Len(recency) + 1) |->
     IF p = 1 THEN i ELSE IF p <= PlaceOf(i) THEN recency[p - 1] ELSE recency[p]]

\* Mount reads the boot sector into entry 0 and, on FAT32, FSINFO into entry 1.
HistNext ==
  \/ Mount /\ recency' = IF Fat32 THEN <<1, 0>> ELSE <<0>>
  \/ Unmount /\ recency' = <<>>
  \/ \E b \in Block : Read(b) /\ recency' = Accessed(held')

HistSpec == HistInit /\ [][HistNext]_histVars

\* The tags order the entries by their last access until they saturate at 0:
\* of two entries the one accessed later has the larger tag, or both are 0
\* (the decrement of every passed entry, fat.c:372 and fat.c:511).
TagsFollowRecency ==
  /\ ToSet(recency) = Used
  /\ \A p, q \in DOMAIN recency : p < q =>
       LET hot  == diskbuf[recency[p]].usage_tag
           cold == diskbuf[recency[q]].usage_tag
       IN  hot > cold \/ (hot = 0 /\ cold = 0)

\* The entry replaced is the least recently accessed one, or one whose tag has
\* run out: nothing touched it in the last UsageTagMax accesses.
EvictsLeastRecent ==
  [][held' # NoEntry =>
       \A p \in DOMAIN recency :
         diskbuf'[recency[p]].block # diskbuf[recency[p]].block =>
           p = Len(recency) \/ diskbuf[recency[p]].usage_tag = 0]_histVars
=============================================================================
