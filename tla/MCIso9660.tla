----------------------------- MODULE MCIso9660 -----------------------------
(***************************************************************************)
(* Small volumes: two primary descriptors after another one, no primary    *)
(* one, and no terminator; directories of one sector, and of two sectors   *)
(* where the first is full.                                                *)
(***************************************************************************)
EXTENDS Iso9660

MCLba == 16 .. 23

R(pos, owner, size, ext) == [pos |-> pos, owner |-> owner, size |-> size, ext |-> ext]

MCDescSets == {<<"boot", "primary", "primary", "terminator">>,
               <<"boot", "terminator">>, <<"primary", "other">>}

MCDirectories ==
  {<< <<>> >>,
   << <<R(0, "a", 1, FALSE), R(1, "b", 2, TRUE)>> >>,
   << <<R(0, "b", 2, TRUE), R(2, "a", 2, FALSE)>>, <<R(0, "c", 1, TRUE)>> >>,
   << <<R(0, "a", 1, TRUE), R(1, "b", 3, TRUE)>>, <<R(0, "c", 2, FALSE)>> >>}

MCWanted == {Short("a"), <<"LONG", "b">>, Long("c")}
MCFold(name) == IF name[1] = "LONG" THEN Long(name[2]) ELSE name
=============================================================================
