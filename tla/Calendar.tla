------------------------------ MODULE Calendar ------------------------------
(***************************************************************************)
(* The calendar of the C library, as src/time.c uses it: the time a struct *)
(* tm stands for.                                                          *)
(***************************************************************************)
EXTENDS Integers, Sequences

\* timegm, as <<days since 1970, second of the day>>; months above 11 and
\* seconds above 59 carry.
IsLeap(y) == y % 4 = 0 /\ (y % 100 # 0 \/ y % 400 = 0)
DaysBeforeMonth(y, mon) ==
  <<0, 31, 59, 90, 120, 151, 181, 212, 243, 273, 304, 334>>[mon + 1]
    + (IF mon > 1 /\ IsLeap(y) THEN 1 ELSE 0)
DaysBeforeYear(y) ==
  365 * (y - 1970) + ((y - 1969) \div 4) - ((y - 1901) \div 100) + ((y - 1601) \div 400)
Timegm(tm) ==
  LET y   == 1900 + tm.year + (tm.mon \div 12)
      sec == tm.sec + 60 * (tm.min + 60 * tm.hour)
  IN  <<DaysBeforeYear(y) + DaysBeforeMonth(y, tm.mon % 12) + tm.mday - 1 + (sec \div 86400),
        sec % 86400>>
=============================================================================
