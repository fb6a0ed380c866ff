----------------------------- MODULE FatHandles -----------------------------
(***************************************************************************)
(* The life of a FAT volume and of the objects opened on it: mount,        *)
(* unmount, the options, and the directory and file handles of fs/fat/fat.c. *)
(* A directory counts the handles opened below it (child_count) and is not *)
(* closed while there are some; a handle keeps a bare pointer to its       *)
(* parent.                                                                 *)
(*                                                                         *)
(* A handle is a piece of memory: closing frees it and a later malloc may  *)
(* hand it out again.  dir_open leaves child_count as malloc gave it, so a *)
(* directory's count begins at any of FreshCounts.  Callers pass only      *)
(* handles that are open.  Iterators are not counted and not modelled      *)
(* here; where they point is in FatDir.                                    *)
(***************************************************************************)
EXTENDS Integers, FiniteSets

CONSTANTS
  Handle,       \* the memory for OFSL_Directory and OFSL_File objects
  NoParent,     \* the NULL parent of a root directory
  CountWord,    \* 2^32: child_count is a uint32_t
  FreshCounts,  \* what child_count can be in memory fresh from malloc
  BufCounts     \* the values a caller may set options.diskbuf_count to

ASSUME HandleAssumption ==
  /\ IsFiniteSet(Handle) /\ NoParent \notin Handle
  /\ CountWord \in Nat /\ Cardinality(Handle) < CountWord
  /\ FreshCounts # {} /\ FreshCounts \subseteq 0 .. CountWord - 1
  /\ BufCounts # {} /\ BufCounts \subseteq Nat

\* began is history: what child_count was when the object was made.
Free == [kind |-> "free", parent |-> NoParent, child_count |-> 0, began |-> 0]
Object == [kind : {"free", "dir", "file"}, parent : Handle \cup {NoParent},
           child_count : 0 .. CountWord - 1, began : 0 .. CountWord - 1]

VARIABLES
  mounted,        \* fs->mounted
  diskbuf_count,  \* fs->options.diskbuf_count
  capacity,       \* the length of the array fs->diskbuf, 0 if it is freed
  handed_out,     \* TRUE iff a caller holds the pointer to fs->options
  obj,            \* what each piece of memory holds
  answer          \* the last call and whether it succeeded

vars == <<mounted, diskbuf_count, capacity, handed_out, obj, answer>>
volume == <<mounted, diskbuf_count, capacity, handed_out>>

Dirs  == {h \in Handle : obj[h].kind = "dir"}
Files == {h \in Handle : obj[h].kind = "file"}
Unused == {h \in Handle : obj[h].kind = "free"}

\* The handles opened below d and still open.
Children(d) == {h \in Dirs \cup Files : obj[h].parent = d}

Answer(op, ok) == answer' = [op |-> op, ok |-> ok]
Refuse(op) == Answer(op, FALSE) /\ UNCHANGED <<volume, obj>>

\* ofsl_fs_fat_create.
Init ==
  /\ mounted = FALSE /\ diskbuf_count \in BufCounts /\ capacity = 0 /\ handed_out = FALSE
  /\ obj = [h \in Handle |-> Free]
  /\ answer = [op |-> "create", ok |-> TRUE]

-----------------------------------------------------------------------------
\* The volume.

\* Mutant: the array is an entry short.
MountShort ==
  /\ mounted' = TRUE /\ capacity' = diskbuf_count - 1
  /\ Answer("mount", TRUE)
  /\ UNCHANGED <<diskbuf_count, handed_out, obj>>

\* mount allocates an array for the cache, mounted or not.
Mount ==
  /\ mounted' = TRUE /\ capacity' = diskbuf_count
  /\ Answer("mount", TRUE)
  /\ UNCHANGED <<diskbuf_count, handed_out, obj>>

\* unmount frees the array; it does not ask for open handles.
Unmount ==
  IF ~mounted THEN Refuse("unmount")
  ELSE /\ mounted' = FALSE /\ capacity' = 0
       /\ Answer("unmount", TRUE)
       /\ UNCHANGED <<diskbuf_count, handed_out, obj>>

\* ofsl_fs_fat_get_option gives NULL on a mounted volume, else a pointer into
\* the volume.
GetOption ==
  IF mounted THEN Refuse("get_option")
  ELSE /\ handed_out' = TRUE
       /\ Answer("get_option", TRUE)
       /\ UNCHANGED <<mounted, diskbuf_count, capacity, obj>>

\* A caller who has the pointer writes the count through it, without a call and
\* also when the volume has been mounted since.
SetCount(count) ==
  /\ handed_out
  /\ diskbuf_count' = count
  /\ UNCHANGED <<mounted, capacity, handed_out, obj, answer>>

-----------------------------------------------------------------------------
\* Handles.

\* obj after an object was put into the unused memory h.
Placed(h, kind, parent, count) ==
  [obj EXCEPT ![h] = [kind |-> kind, parent |-> parent, child_count |-> count,
                      began |-> count]]

\* child_count++ and child_count--, in 32 bits.
Counted(o, p)   == [o EXCEPT ![p].child_count = (@ + 1) % CountWord]
Uncounted(o, p) == [o EXCEPT ![p].child_count = (@ - 1) % CountWord]

\* The parent after a child closed: a write to a directory that is gone shows
\* nowhere.
LeftBy(p, o) == IF p \in Dirs THEN Uncounted(o, p) ELSE o

RootdirOpen(h) ==
  /\ h \in Unused
  /\ IF ~mounted THEN Refuse("rootdir_open")
     ELSE /\ obj' = Placed(h, "dir", NoParent, 0)
          /\ Answer("rootdir_open", TRUE)
          /\ UNCHANGED volume

\* A name that is not found, or any name on an unmounted volume.
OpenFails(parent) == parent \in Dirs /\ Refuse("open")

\* dir_open does not set the new child_count.
DirOpen(parent, h) ==
  /\ mounted /\ parent \in Dirs /\ h \in Unused
  /\ \E count \in FreshCounts : obj' = Counted(Placed(h, "dir", parent, count), parent)
  /\ Answer("dir_open", TRUE)
  /\ UNCHANGED volume

\* Mutant: the file is not counted.
FileOpenUncounted(parent, h) ==
  /\ mounted /\ parent \in Dirs /\ h \in Unused
  /\ obj' = Placed(h, "file", parent, 0)
  /\ Answer("file_open", TRUE)
  /\ UNCHANGED volume

FileOpen(parent, h) ==
  /\ mounted /\ parent \in Dirs /\ h \in Unused
  /\ obj' = Counted(Placed(h, "file", parent, 0), parent)
  /\ Answer("file_open", TRUE)
  /\ UNCHANGED volume

\* Mutants: the parent keeps counting a closed directory, and one whose
\* children are open is closed.
DirCloseCounted(d) ==
  /\ d \in Dirs
  /\ IF obj[d].child_count > 0 THEN Refuse("dir_close")
     ELSE /\ obj' = [obj EXCEPT ![d] = Free]
          /\ Answer("dir_close", TRUE)
          /\ UNCHANGED volume
DirCloseAlways(d) ==
  /\ d \in Dirs
  /\ obj' = [LeftBy(obj[d].parent, obj) EXCEPT ![d] = Free]
  /\ Answer("dir_close", TRUE)
  /\ UNCHANGED volume

DirClose(d) ==
  /\ d \in Dirs
  /\ IF obj[d].child_count > 0 THEN Refuse("dir_close")
     ELSE /\ obj' = [LeftBy(obj[d].parent, obj) EXCEPT ![d] = Free]
          /\ Answer("dir_close", TRUE)
          /\ UNCHANGED volume

FileClose(f) ==
  /\ f \in Files
  /\ obj' = [LeftBy(obj[f].parent, obj) EXCEPT ![f] = Free]
  /\ Answer("file_close", TRUE)
  /\ UNCHANGED volume

Next ==
  \/ Mount \/ Unmount
  \/ GetOption
  \/ \E count \in BufCounts : SetCount(count)
  \/ \E h \in Handle : RootdirOpen(h) \/ OpenFails(h) \/ DirClose(h) \/ FileClose(h)
  \/ \E parent, h \in Handle : DirOpen(parent, h) \/ FileOpen(parent, h)

Spec == Init /\ [][Next]_vars
-----------------------------------------------------------------------------
\* Properties.

TypeOK ==
  /\ mounted \in BOOLEAN
  /\ diskbuf_count \in BufCounts /\ capacity \in BufCounts \cup {0}
  /\ handed_out \in BOOLEAN
  /\ obj \in [Handle -> Object]

\* No count of FreshCounts is so near the width of child_count that the handles
\* opened below a directory could make it wrap.
NoWrap == \A count \in FreshCounts : count + Cardinality(Handle) < CountWord

\* The directory a handle was opened in is open as long as the handle is:
\* dir_close and file_close of the handle write to it.  For this it does not
\* matter what dir_open's memory held, unless counts can wrap.
ParentsOpen ==
  \A h \in Dirs \cup Files : obj[h].parent \in Dirs \cup {NoParent}

\* dir_close refuses a directory exactly if something opened in it is still
\* open or its count began above 0, however opens, closes, unmounts and reuse
\* of memory were mixed.  The second is what dir_open's unset child_count does
\* (fat.c:1109): such a directory can never be closed, nor can its parents.
ClosesLeavesOnly ==
  [][\A d \in Dirs : DirClose(d) =>
       (answer'.ok <=> obj[d].began = 0 /\ Children(d) = {})]_vars

\* What get_option refuses a mounted volume for: the loops over
\* options.diskbuf_count stay inside the array mount allocated.  It does not
\* hold: a pointer taken before the mount still reaches the count.
ArrayFitsOptions == mounted => capacity = diskbuf_count
=============================================================================
