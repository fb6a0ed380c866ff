------------------------------- MODULE CText -------------------------------
(***************************************************************************)
(* Text in arrays of bytes: C strings, and fields filled up with spaces as *)
(* both file systems store their labels.  A C string is the sequence of    *)
(* its bytes before the 0; Undef is memory nothing wrote.                  *)
(***************************************************************************)
EXTENDS Integers, Sequences, FiniteSetsExt

CONSTANT Undef

ASSUME UndefAssumption == Undef \notin Int

Space == 32

\* The C string at the start of an array.
CString(array) ==
  LET end == Min({i \in DOMAIN array : array[i] = 0} \cup {Len(array) + 1})
  IN  SubSeq(array, 1, end - 1)

\* remove_right_padding: the array dest with the label in it.  The caller's
\* array is as long as destLen says and longer than the label.

RemoveRightPaddingUnended(dest, orig, destLen) ==        \* Mutant: no 0 is written
  LET used == {i \in DOMAIN orig : orig[i] # Space}
  IN  [i \in DOMAIN dest |-> IF used # {} /\ i <= Max(used) THEN orig[i] ELSE dest[i]]

RemoveRightPadding(dest, orig, destLen) ==
  LET used == {i \in DOMAIN orig : orig[i] # Space} IN
  [i \in DOMAIN dest |->
     IF used # {} /\ i <= Max(used) THEN orig[i]
     ELSE IF used # {} /\ i = Max(used) + 1 /\ Max(used) <= destLen THEN 0
     ELSE dest[i]]
=============================================================================
