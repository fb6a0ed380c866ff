------------------------- MODULE FatHandles_proofs -------------------------
(***************************************************************************)
(* Theorems about the handles of the FAT driver, for any number of them.   *)
(* dir_open's memory may hold any count; the theorems about closing need   *)
(* that none is so large that the children make it wrap (NoWrap).          *)
(***************************************************************************)
EXTENDS FatHandles, FiniteSetTheorems, TLAPS

\* child_count is what it began with and the number of children, and has room
\* for as many as there are handles.
CountsExact ==
  \A d \in Dirs : /\ obj[d].child_count = obj[d].began + Cardinality(Children(d))
                  /\ obj[d].began + Cardinality(Handle) < CountWord

HandleInv == TypeOK /\ ParentsOpen /\ CountsExact

\* Free memory is an object.
LEMMA FreeType == Free \in Object /\ Free.kind = "free"
<1>1. CountWord \in Nat /\ 0 \in 0 .. CountWord - 1
  <2>1. Cardinality(Handle) \in Nat
    BY HandleAssumption, FS_CardinalityType
  <2> QED BY <2>1, HandleAssumption, SMT
<1> QED BY <1>1 DEF Free, Object

\* A directory has finitely many children.
LEMMA ChildrenFinite ==
  ASSUME NEW d
  PROVE  /\ IsFiniteSet(Children(d)) /\ Cardinality(Children(d)) \in Nat
         /\ Cardinality(Children(d)) <= Cardinality(Handle)
         /\ Cardinality(Children(d)) < CountWord
<1>1. Children(d) \in SUBSET Handle
  BY DEF Children, Dirs, Files
<1>2. IsFiniteSet(Handle)
  BY HandleAssumption
<1>3. IsFiniteSet(Children(d)) /\ Cardinality(Children(d)) <= Cardinality(Handle)
  BY <1>1, <1>2, FS_Subset
<1>4. Cardinality(Children(d)) \in Nat /\ Cardinality(Handle) \in Nat
  BY <1>2, <1>3, FS_CardinalityType
<1> QED BY <1>3, <1>4, HandleAssumption, SMT

\* A handle that is no directory, or a directory counting 0, has no children.
LEMMA NoChildren ==
  ASSUME HandleInv, NEW h \in Handle, h \in Dirs => obj[h].child_count = 0
  PROVE  Children(h) = {}
<1>1. CASE h \in Dirs
  <2>1. 0 = obj[h].began + Cardinality(Children(h))
    BY <1>1 DEF HandleInv, CountsExact
  <2>2. obj[h].began \in Nat /\ Cardinality(Children(h)) \in Nat
    BY ChildrenFinite DEF HandleInv, TypeOK, Object
  <2>3. Cardinality(Children(h)) = 0
    BY <2>1, <2>2, SMT
  <2> QED BY <2>3, ChildrenFinite, FS_EmptySet
<1>2. CASE h \notin Dirs
  <2>1. h # NoParent
    BY HandleAssumption
  <2> QED BY <1>2, <2>1 DEF HandleInv, ParentsOpen, Children
<1> QED BY <1>1, <1>2

\* An open counts one more child.
LEMMA OpenKeeps ==
  ASSUME HandleInv, NEW parent \in Dirs, NEW h \in Unused, NEW kind \in {"dir", "file"},
         NEW c \in 0 .. CountWord - 1, c + Cardinality(Handle) < CountWord,
         obj' = Counted(Placed(h, kind, parent, c), parent)
  PROVE  /\ obj' \in [Handle -> Object]
         /\ ParentsOpen' /\ CountsExact'
<1>1. h \in Handle /\ parent \in Handle /\ h # parent /\ obj \in [Handle -> Object]
  BY DEF Unused, Dirs, HandleInv, TypeOK
<1> DEFINE n == obj[parent].child_count
           b == obj[parent].began
<1>2. /\ n = b + Cardinality(Children(parent)) /\ b + Cardinality(Handle) < CountWord
      /\ n \in Nat /\ b \in Nat /\ b \in 0 .. CountWord - 1
  <2>1. n \in 0 .. CountWord - 1 /\ b \in 0 .. CountWord - 1
    BY <1>1 DEF Object
  <2> QED BY <2>1 DEF HandleInv, CountsExact
<1>3. Children(h) = {}
  <2>1. h \notin Dirs
    BY DEF Unused, Dirs
  <2> QED BY <1>1, <2>1, NoChildren
<1>4. h \notin Children(parent) /\ h \notin Dirs \cup Files
  BY DEF Children, Unused, Dirs, Files
<1>5. n + 1 < CountWord
  <2>1. Children(parent) \cup {h} \in SUBSET Handle
    BY <1>1 DEF Children, Dirs, Files
  <2>2. Cardinality(Children(parent) \cup {h}) = Cardinality(Children(parent)) + 1
    BY <1>4, ChildrenFinite, FS_AddElement
  <2>3. Cardinality(Children(parent) \cup {h}) <= Cardinality(Handle)
    BY <2>1, HandleAssumption, FS_Subset
  <2>4. Cardinality(Handle) \in Nat /\ Cardinality(Children(parent)) \in Nat
    BY ChildrenFinite, HandleAssumption, FS_CardinalityType
  <2> QED BY <1>2, <2>2, <2>3, <2>4, HandleAssumption, SMT
<1>6. (n + 1) % CountWord = n + 1
  BY <1>2, <1>5, HandleAssumption, SMT
<1>7. /\ obj'[h] = [kind |-> kind, parent |-> parent, child_count |-> c, began |-> c]
      /\ obj'[parent] = [obj[parent] EXCEPT !.child_count = n + 1]
      /\ \A x \in Handle : x # h /\ x # parent => obj'[x] = obj[x]
      /\ DOMAIN obj' = Handle /\ obj' = [x \in Handle |-> obj'[x]]
  BY <1>1, <1>6 DEF Counted, Placed
<1>8. obj' \in [Handle -> Object]
  <2>1. obj'[h] \in Object
    BY <1>1, <1>7, HandleAssumption, SMT DEF Object
  <2>2. n + 1 \in 0 .. CountWord - 1
    BY <1>2, <1>5, HandleAssumption, SMT
  <2>3. obj'[parent] \in Object
    BY <1>1, <1>7, <2>2 DEF Object
  <2> QED BY <1>1, <1>7, <2>1, <2>3
<1>9. /\ \A x \in Handle : x # h => obj'[x].kind = obj[x].kind /\ obj'[x].parent = obj[x].parent
      /\ \A x \in Handle : x # parent /\ x # h => obj'[x].child_count = obj[x].child_count
      /\ \A x \in Handle : x # h => obj'[x].began = obj[x].began
      /\ obj'[h].kind = kind /\ obj'[h].parent = parent /\ obj'[h].child_count = c
      /\ obj'[h].began = c /\ obj'[parent].child_count = n + 1
  BY <1>1, <1>7 DEF Object
<1>10. Dirs \subseteq Dirs' /\ Dirs' \subseteq Dirs \cup {h} /\ Files' \subseteq Files \cup {h}
       /\ Dirs' \cup Files' = Dirs \cup Files \cup {h}
  BY <1>1, <1>4, <1>9 DEF Dirs, Files
<1>11. ParentsOpen'
  BY <1>9, <1>10 DEF HandleInv, ParentsOpen, Dirs, Files
<1>12. /\ Children(parent)' = Children(parent) \cup {h}
       /\ \A d \in Handle : d # parent => Children(d)' = Children(d)
  BY <1>1, <1>4, <1>9, <1>10 DEF Children, Dirs, Files
<1>13. CountsExact'
  <2> SUFFICES ASSUME NEW d \in Dirs'
               PROVE  /\ obj'[d].child_count = obj'[d].began + Cardinality(Children(d)')
                      /\ obj'[d].began + Cardinality(Handle) < CountWord
    BY DEF CountsExact
  <2>1. CASE d = parent
    <3>1. IsFiniteSet(Children(parent)) /\ h \notin Children(parent)
      BY <1>2, <1>4, ChildrenFinite
    <3>2. Cardinality(Children(parent) \cup {h}) = Cardinality(Children(parent)) + 1
      BY <3>1, FS_AddElement
    <3>3. Cardinality(Children(parent)) \in Nat
      BY ChildrenFinite
    <3>4. obj'[d].began = b /\ obj'[d].child_count = n + 1
      BY <2>1, <1>1, <1>9
    <3> QED BY <2>1, <3>2, <3>3, <3>4, <1>2, <1>12
  <2>2. CASE d = h
    <3>1. Cardinality(Children(d)') = 0
      BY <2>2, <1>1, <1>3, <1>12, FS_EmptySet
    <3>2. obj'[d].began = c /\ obj'[d].child_count = c
      BY <2>2, <1>9
    <3> QED BY <3>1, <3>2
  <2>3. CASE d # parent /\ d # h
    <3>1. d \in Dirs /\ d \in Handle
      BY <2>3, <1>10 DEF Dirs
    <3>2. obj'[d].began = obj[d].began /\ obj'[d].child_count = obj[d].child_count
      BY <2>3, <3>1, <1>9
    <3> QED BY <2>3, <3>1, <3>2, <1>12 DEF HandleInv, CountsExact
  <2> QED BY <2>1, <2>2, <2>3
<1> QED BY <1>8, <1>11, <1>13

\* A close counts one less.
LEMMA CloseKeeps ==
  ASSUME HandleInv, NEW h \in Dirs \cup Files, h \in Dirs => obj[h].child_count = 0,
         obj' = [LeftBy(obj[h].parent, obj) EXCEPT ![h] = Free]
  PROVE  /\ obj' \in [Handle -> Object]
         /\ ParentsOpen' /\ CountsExact'
<1> DEFINE p == obj[h].parent
<1>1. h \in Handle /\ obj \in [Handle -> Object] /\ p \in Dirs \cup {NoParent}
  BY DEF Dirs, Files, HandleInv, TypeOK, ParentsOpen
<1>2. Children(h) = {}
  BY <1>1, NoChildren
<1>3. h # p /\ h \notin Children(h)
  BY <1>2 DEF Children
<1>4. Free \in Object /\ Free.kind = "free"
  BY FreeType
<1>5. p \in Dirs => /\ obj[p].child_count = obj[p].began + Cardinality(Children(p))
                    /\ obj[p].child_count - 1 \in 0 .. CountWord - 1
                    /\ (obj[p].child_count - 1) % CountWord = obj[p].child_count - 1
  <2> SUFFICES ASSUME p \in Dirs PROVE
                    /\ obj[p].child_count = obj[p].began + Cardinality(Children(p))
                    /\ obj[p].child_count - 1 \in 0 .. CountWord - 1
                    /\ (obj[p].child_count - 1) % CountWord = obj[p].child_count - 1
    OBVIOUS
  <2>1. obj[p].child_count = obj[p].began + Cardinality(Children(p))
    BY DEF HandleInv, CountsExact
  <2>2. Cardinality(Children(p)) # 0
    <3>1. h \in Children(p)
      BY DEF Children
    <3> QED BY <3>1, ChildrenFinite, FS_EmptySet
  <2>3. Cardinality(Children(p)) \in Nat
    BY ChildrenFinite
  <2>4. obj[p].child_count \in 0 .. CountWord - 1 /\ obj[p].began \in Nat
    <3>1. obj[p] \in Object
      BY <1>1 DEF Dirs
    <3> QED BY <3>1 DEF Object
  <2> HIDE DEF p
  <2> QED BY <2>1, <2>2, <2>3, <2>4, HandleAssumption, SMT
<1>6. /\ obj'[h] = Free
      /\ p \in Dirs => obj'[p] = [obj[p] EXCEPT !.child_count = @ - 1]
      /\ \A x \in Handle : x # h /\ x # p => obj'[x] = obj[x]
      /\ obj' = [x \in Handle |-> obj'[x]]
  <2>1. CASE p \in Dirs
    <3>1. p \in Handle
      BY <2>1 DEF Dirs
    <3>2. obj' = [[obj EXCEPT ![p].child_count = @ - 1] EXCEPT ![h] = Free]
      BY <1>5, <2>1 DEF LeftBy, Uncounted
    <3> HIDE DEF p
    <3> QED BY <1>1, <1>3, <3>1, <3>2
  <2>2. CASE p \notin Dirs
    <3>1. obj' = [obj EXCEPT ![h] = Free]
      BY <2>2 DEF LeftBy
    <3> QED BY <1>1, <2>2, <3>1
  <2> QED BY <2>1, <2>2
<1>7. p \in Dirs => p \in Handle
  BY DEF Dirs
<1>8. obj' \in [Handle -> Object]
  <2>1. p \in Dirs => obj'[p] \in Object
    BY <1>1, <1>5, <1>6, <1>7 DEF Object
  <2>2. \A x \in Handle : obj'[x] \in Object
    BY <1>1, <1>4, <1>6, <2>1, HandleAssumption
  <2> QED BY <1>6, <2>2
<1>9. /\ \A x \in Handle : x # h => obj'[x].kind = obj[x].kind /\ obj'[x].parent = obj[x].parent
      /\ \A x \in Handle : x # h /\ x # p => obj'[x].child_count = obj[x].child_count
      /\ \A x \in Handle : x # h => obj'[x].began = obj[x].began
      /\ obj'[h].kind = "free"
      /\ p \in Dirs => obj'[p].child_count = obj[p].child_count - 1
  BY <1>1, <1>4, <1>6, <1>7, HandleAssumption DEF Object
<1>10. Dirs' = Dirs \ {h} /\ Files' = Files \ {h}
  BY <1>1, <1>9 DEF Dirs, Files
<1>11. ParentsOpen'
  <2> SUFFICES ASSUME NEW x \in Dirs' \cup Files'
               PROVE  obj'[x].parent \in Dirs' \cup {NoParent}
    BY DEF ParentsOpen
  <2>1. x \in Dirs \cup Files /\ x # h /\ x \in Handle
    BY <1>10 DEF Dirs, Files
  <2>2. obj'[x].parent = obj[x].parent /\ obj[x].parent # h
    BY <1>2, <1>9, <2>1 DEF Children
  <2> QED BY <1>10, <2>1, <2>2 DEF HandleInv, ParentsOpen
<1>12. \A d \in Handle : Children(d)' = Children(d) \ {h}
  BY <1>9, <1>10 DEF Children, Dirs, Files
<1>13. CountsExact'
  <2> SUFFICES ASSUME NEW d \in Dirs'
               PROVE  /\ obj'[d].child_count = obj'[d].began + Cardinality(Children(d)')
                      /\ obj'[d].began + Cardinality(Handle) < CountWord
    BY DEF CountsExact
  <2>1. d \in Dirs /\ d # h /\ d \in Handle
    BY <1>10 DEF Dirs
  <2>2. CASE d = p
    <3>1. h \in Children(p)
      BY DEF Children
    <3>2. Cardinality(Children(p) \ {h}) = Cardinality(Children(p)) - 1
      BY <3>1, ChildrenFinite, FS_RemoveElement
    <3>3. Cardinality(Children(p)) \in Nat /\ obj[p].began \in Nat
      <4>1. obj[p] \in Object
        BY <1>1, <2>1, <2>2
      <4> QED BY <4>1, ChildrenFinite DEF Object
    <3>4. obj'[d].began = obj[d].began
      BY <2>1, <1>9
    <3>6. obj'[d].child_count = obj[d].child_count - 1
      BY <2>1, <2>2, <1>9
    <3>7. Children(d)' = Children(d) \ {h}
      BY <2>1, <1>12
    <3>8. Cardinality(Children(d)') = Cardinality(Children(d)) - 1
      BY <2>2, <3>2, <3>7
    <3>9. obj[d].child_count = obj[d].began + Cardinality(Children(d))
      BY <2>1 DEF HandleInv, CountsExact
    <3>5. obj[d].began + Cardinality(Handle) < CountWord
      BY <2>1 DEF HandleInv, CountsExact
    <3> HIDE DEF p
    <3> QED BY <2>2, <3>3, <3>4, <3>5, <3>6, <3>8, <3>9
  <2>3. CASE d # p
    <3>1. h \notin Children(d)
      BY <2>3 DEF Children
    <3>2. Children(d)' = Children(d)
      BY <2>1, <3>1, <1>12
    <3> QED BY <2>1, <2>3, <3>2, <1>9 DEF HandleInv, CountsExact
  <2> QED BY <2>2, <2>3
<1> QED BY <1>8, <1>11, <1>13

\* No call breaks the counts.
LEMMA HandleInvInductive ==
  ASSUME NoWrap
  PROVE  HandleInv /\ [Next]_vars => HandleInv'
<1> SUFFICES ASSUME HandleInv, [Next]_vars PROVE HandleInv'
  OBVIOUS
<1>1. ASSUME UNCHANGED obj PROVE ParentsOpen' /\ CountsExact' /\ obj' \in [Handle -> Object]
  BY <1>1 DEF HandleInv, TypeOK, ParentsOpen, CountsExact, Children, Dirs, Files
<1>2. ASSUME UNCHANGED volume, obj' \in [Handle -> Object]
      PROVE  TypeOK'
  BY <1>2 DEF HandleInv, TypeOK, volume
<1>3. ASSUME NEW op, Refuse(op) PROVE HandleInv'
  BY <1>1, <1>2, <1>3 DEF Refuse, HandleInv
<1>0. Cardinality(Handle) \in Nat /\ 0 \in 0 .. CountWord - 1 /\ 0 + Cardinality(Handle) < CountWord
  BY HandleAssumption, FS_CardinalityType, SMT
<1>4. CASE Mount
  BY <1>1, <1>4 DEF Mount, HandleInv, TypeOK
<1>5. CASE Unmount
  BY <1>1, <1>3, <1>5 DEF Unmount, HandleInv, TypeOK
<1>6. ASSUME NEW count \in BufCounts, SetCount(count) PROVE HandleInv'
  BY <1>1, <1>6 DEF SetCount, HandleInv, TypeOK
<1>14. CASE GetOption
  BY <1>1, <1>3, <1>14 DEF GetOption, HandleInv, TypeOK
<1>7. ASSUME NEW h \in Handle, RootdirOpen(h) PROVE HandleInv'
  <2>1. CASE ~mounted
    BY <1>3, <1>7, <2>1 DEF RootdirOpen
  <2>2. CASE mounted
    <3>1. h \in Unused /\ obj' = Placed(h, "dir", NoParent, 0)
          /\ UNCHANGED volume
      BY <1>7, <2>2 DEF RootdirOpen
    <3>2. obj \in [Handle -> Object]
      BY DEF HandleInv, TypeOK
    <3>3. /\ obj'[h].kind = "dir" /\ obj'[h].parent = NoParent
          /\ obj'[h].child_count = 0 /\ obj'[h].began = 0
          /\ \A x \in Handle : x # h => obj'[x] = obj[x]
          /\ obj'[h] \in Object /\ obj' \in [Handle -> Object]
      BY <1>0, <3>1, <3>2, HandleAssumption DEF Placed, Object
    <3>4. h \notin Dirs /\ h \notin Files
      BY <3>1 DEF Unused, Dirs, Files
    <3>5. Dirs' = Dirs \cup {h} /\ Files' = Files
      BY <3>3, <3>4 DEF Dirs, Files
    <3>6. ParentsOpen'
      BY <3>3, <3>4, <3>5 DEF HandleInv, ParentsOpen, Dirs, Files
    <3>7. \A d \in Handle : Children(d)' = Children(d)
      BY <3>3, <3>4, <3>5, HandleAssumption DEF Children, Dirs, Files
    <3>8. Children(h) = {}
      BY <3>4, NoChildren
    <3>9. CountsExact'
      <4> SUFFICES ASSUME NEW d \in Dirs'
                   PROVE  /\ obj'[d].child_count = obj'[d].began + Cardinality(Children(d)')
                          /\ obj'[d].began + Cardinality(Handle) < CountWord
        BY DEF CountsExact
      <4>1. CASE d = h
        <5>1. Cardinality(Children(d)') = 0
          BY <3>7, <3>8, <4>1, FS_EmptySet
        <5> QED BY <1>0, <3>3, <4>1, <5>1
      <4>2. CASE d # h
        <5>1. d \in Dirs /\ d \in Handle /\ obj'[d] = obj[d] /\ Children(d)' = Children(d)
          BY <3>3, <3>5, <3>7, <4>2 DEF Dirs
        <5> QED BY <5>1 DEF HandleInv, CountsExact
      <4> QED BY <4>1, <4>2
    <3> QED BY <1>2, <3>1, <3>3, <3>6, <3>9 DEF HandleInv
  <2> QED BY <2>1, <2>2
<1>8. ASSUME NEW d \in Handle, DirClose(d) PROVE HandleInv'
  <2>1. CASE obj[d].child_count > 0
    BY <1>3, <1>8, <2>1 DEF DirClose
  <2>2. CASE ~(obj[d].child_count > 0)
    <3>1. obj[d].child_count = 0
      <4>1. obj[d].child_count \in 0 .. CountWord - 1
        BY DEF HandleInv, TypeOK, Object
      <4> QED BY <2>2, <4>1, HandleAssumption, SMT
    <3> QED BY <1>2, <1>8, <2>2, <3>1, CloseKeeps DEF DirClose, HandleInv
  <2> QED BY <2>1, <2>2
<1>9. ASSUME NEW f \in Handle, FileClose(f) PROVE HandleInv'
  <2>1. f \in Files /\ f \notin Dirs
    BY <1>9 DEF FileClose, Files, Dirs
  <2> QED BY <1>2, <1>9, <2>1, CloseKeeps DEF FileClose, HandleInv
<1>10. ASSUME NEW parent \in Handle, NEW h \in Handle, DirOpen(parent, h) PROVE HandleInv'
  <2>1. PICK count \in FreshCounts : obj' = Counted(Placed(h, "dir", parent, count), parent)
    BY <1>10 DEF DirOpen
  <2>2. count \in 0 .. CountWord - 1 /\ count + Cardinality(Handle) < CountWord
    BY HandleAssumption DEF NoWrap
  <2>3. obj' \in [Handle -> Object] /\ ParentsOpen' /\ CountsExact'
    BY <1>10, <2>1, <2>2, OpenKeeps DEF DirOpen
  <2> QED BY <1>2, <1>10, <2>3 DEF DirOpen, HandleInv
<1>11. ASSUME NEW parent \in Handle, NEW h \in Handle, FileOpen(parent, h) PROVE HandleInv'
  <2>1. obj' \in [Handle -> Object] /\ ParentsOpen' /\ CountsExact'
    <3> DEFINE zero == 0
    <3>1. obj' = Counted(Placed(h, "file", parent, zero), parent) /\ zero \in 0 .. CountWord - 1
          /\ zero + Cardinality(Handle) < CountWord
      BY <1>0, <1>11 DEF FileOpen
    <3> HIDE DEF zero
    <3> QED BY <1>11, <3>1, OpenKeeps DEF FileOpen
  <2> QED BY <1>2, <1>11, <2>1 DEF FileOpen, HandleInv
<1>12. CASE UNCHANGED vars
  BY <1>1, <1>2, <1>12 DEF vars, volume, HandleInv
<1>13. ASSUME NEW h \in Handle, OpenFails(h) PROVE HandleInv'
  BY <1>3, <1>13 DEF OpenFails
<1> QED BY <1>4, <1>5, <1>6, <1>7, <1>8, <1>9, <1>10, <1>11, <1>12, <1>13, <1>14 DEF Next

\* They hold throughout.
LEMMA HandleInvCorrect == ASSUME NoWrap PROVE Spec => []HandleInv
<1>1. Init => HandleInv
  <2> SUFFICES ASSUME Init PROVE HandleInv
    OBVIOUS
  <2>1. Dirs = {} /\ Files = {}
    BY DEF Init, Free, Dirs, Files
  <2>2. Free \in Object
    BY FreeType
  <2> QED BY <2>1, <2>2 DEF Init, HandleInv, TypeOK, ParentsOpen, CountsExact
<1>2. HandleInv /\ [Next]_vars => HandleInv'
  BY HandleInvInductive
<1> QED BY <1>1, <1>2, PTL DEF Spec

\* No directory is freed under a handle opened in it (ParentsOpen), for any
\* number of handles and whatever counts dir_open's memory starts with, if none
\* is so large that it can wrap.
THEOREM ParentsStayOpen == ASSUME NoWrap PROVE Spec => []ParentsOpen
<1>1. HandleInv => ParentsOpen
  BY DEF HandleInv
<1> QED BY <1>1, HandleInvCorrect, PTL

\* dir_close refuses exactly the directories something is open in and those
\* whose count began above 0 (ClosesLeavesOnly), under the same condition.
THEOREM LeavesClose == ASSUME NoWrap PROVE Spec => ClosesLeavesOnly
<1> DEFINE Closes(d) == answer'.ok <=> obj[d].began = 0 /\ Children(d) = {}
           Exact == \A d \in Dirs : DirClose(d) => Closes(d)
<1>1. HandleInv => Exact
  <2> SUFFICES ASSUME HandleInv, NEW d \in Dirs, DirClose(d)
               PROVE  Closes(d)
    OBVIOUS
  <2>1. /\ d \in Handle /\ obj[d].child_count \in Nat /\ obj[d].began \in Nat
        /\ Cardinality(Children(d)) \in Nat
        /\ obj[d].child_count = obj[d].began + Cardinality(Children(d))
    BY ChildrenFinite DEF Dirs, HandleInv, CountsExact, TypeOK, Object
  <2>2. answer'.ok <=> ~(obj[d].child_count > 0)
    BY DEF DirClose, Refuse, Answer
  <2>3. Cardinality(Children(d)) = 0 <=> Children(d) = {}
    BY ChildrenFinite, FS_EmptySet
  <2> QED BY <2>1, <2>2, <2>3, SMT
<1>2. Spec => []HandleInv
  BY HandleInvCorrect
<1> QED BY <1>1, <1>2, PTL DEF ClosesLeavesOnly

\* child_count stays in its width.
LEMMA CountsStayWords ==
  ASSUME NEW o \in [Handle -> Object], NEW p \in Handle
  PROVE  Counted(o, p) \in [Handle -> Object] /\ Uncounted(o, p) \in [Handle -> Object]
<1>1. CountWord \in Nat \ {0}
  <2>1. Cardinality(Handle) \in Nat
    BY HandleAssumption, FS_CardinalityType
  <2> QED BY <2>1, HandleAssumption, SMT
<1>2. o[p].child_count \in 0 .. CountWord - 1
  BY DEF Object
<1>3. /\ (o[p].child_count + 1) % CountWord \in 0 .. CountWord - 1
      /\ (o[p].child_count - 1) % CountWord \in 0 .. CountWord - 1
  BY <1>1, <1>2, SMT
<1>4. ASSUME NEW n \in 0 .. CountWord - 1
      PROVE  [o EXCEPT ![p].child_count = n] \in [Handle -> Object]
  <2>1. [o[p] EXCEPT !.child_count = n] \in Object
    BY DEF Object
  <2> QED BY <2>1
<1> QED BY <1>3, <1>4 DEF Counted, Uncounted

\* A placed object leaves the memory typed.
LEMMA PlacedType ==
  ASSUME obj \in [Handle -> Object], NEW h \in Handle, NEW kind \in {"dir", "file"},
         NEW parent \in Handle \cup {NoParent}, NEW n \in 0 .. CountWord - 1
  PROVE  Placed(h, kind, parent, n) \in [Handle -> Object]
<1>1. [kind |-> kind, parent |-> parent, child_count |-> n, began |-> n] \in Object
  BY DEF Object
<1> QED BY <1>1 DEF Placed

\* The state of the handles keeps its type (TypeOK) whatever memory holds: also
\* when counts start at random and wrap, child_count stays a uint32_t.
THEOREM HandlesTyped == Spec => []TypeOK
<1>1. Init => TypeOK
  BY FreeType DEF Init, TypeOK
<1>2. TypeOK /\ [Next]_vars => TypeOK'
  <2> SUFFICES ASSUME TypeOK, [Next]_vars PROVE TypeOK'
    OBVIOUS
  <2> USE DEF TypeOK, volume
  <2>1. ASSUME NEW op, Refuse(op) PROVE TypeOK'
    BY <2>1 DEF Refuse
  <2>2. ASSUME UNCHANGED volume, obj' \in [Handle -> Object]
        PROVE  TypeOK'
    BY <2>2
  <2>3. 0 \in 0 .. CountWord - 1
    BY FreeType DEF Free, Object
  <2>4. CASE Mount
    BY <2>4 DEF Mount
  <2>5. CASE Unmount
    BY <2>1, <2>5 DEF Unmount
  <2>6. ASSUME NEW count \in BufCounts, SetCount(count) PROVE TypeOK'
    BY <2>6 DEF SetCount
  <2>15. CASE GetOption
    BY <2>1, <2>15 DEF GetOption
  <2>7. ASSUME NEW h \in Handle, RootdirOpen(h) PROVE TypeOK'
    <3>1. CASE ~mounted
      BY <2>1, <2>7, <3>1 DEF RootdirOpen
    <3>2. CASE mounted
      <4>1. obj' = Placed(h, "dir", NoParent, 0) /\ UNCHANGED volume
        BY <2>7, <3>2 DEF RootdirOpen
      <4>2. obj' \in [Handle -> Object]
        BY <2>3, <4>1, PlacedType
      <4> QED BY <2>2, <4>1, <4>2
    <3> QED BY <3>1, <3>2
  <2>8. ASSUME NEW h \in Handle, OpenFails(h) PROVE TypeOK'
    BY <2>1, <2>8 DEF OpenFails
  <2>9. ASSUME NEW h \in Handle, obj' = [LeftBy(obj[h].parent, obj) EXCEPT ![h] = Free],
               UNCHANGED volume
        PROVE  TypeOK'
    <3>1. LeftBy(obj[h].parent, obj) \in [Handle -> Object]
      BY CountsStayWords DEF LeftBy, Dirs
    <3> QED BY <2>2, <2>9, <3>1, FreeType
  <2>10. ASSUME NEW d \in Handle, DirClose(d) PROVE TypeOK'
    BY <2>1, <2>9, <2>10 DEF DirClose
  <2>11. ASSUME NEW f \in Handle, FileClose(f) PROVE TypeOK'
    BY <2>9, <2>11 DEF FileClose
  <2>12. ASSUME NEW parent \in Handle, NEW h \in Handle, DirOpen(parent, h) PROVE TypeOK'
    <3>1. PICK count \in FreshCounts : obj' = Counted(Placed(h, "dir", parent, count), parent)
      BY <2>12 DEF DirOpen
    <3>2. count \in 0 .. CountWord - 1
      BY HandleAssumption
    <3>3. obj' \in [Handle -> Object]
      BY <3>1, <3>2, PlacedType, CountsStayWords
    <3> QED BY <2>2, <2>12, <3>3 DEF DirOpen
  <2>13. ASSUME NEW parent \in Handle, NEW h \in Handle, FileOpen(parent, h) PROVE TypeOK'
    <3>1. obj' \in [Handle -> Object]
      BY <2>3, <2>13, PlacedType, CountsStayWords DEF FileOpen
    <3> QED BY <2>2, <2>13, <3>1 DEF FileOpen
  <2>14. CASE UNCHANGED vars
    BY <2>14 DEF vars
  <2> QED BY <2>4, <2>5, <2>6, <2>7, <2>8, <2>10, <2>11, <2>12, <2>13, <2>14, <2>15 DEF Next
<1> QED BY <1>1, <1>2, PTL DEF Spec
=============================================================================
