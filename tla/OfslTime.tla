------------------------------ MODULE OfslTime ------------------------------
(***************************************************************************)
(* Differences of times (src/time.c).  An OFSL_Time is a second and an     *)
(* unsigned nsec of 32 bits, an OFSL_TimeDelta a second and a signed dnsec *)
(* of as many.                                                             *)
(***************************************************************************)
EXTENDS Integers

CONSTANTS Billion,      \* nanoseconds in a second
          NsecWord      \* the number of values of nsec, 2^32

ASSUME TimeAssumption ==
  /\ Billion \in Nat \ {0}
  /\ NsecWord \in Nat /\ NsecWord >= 4 * Billion

\* The instant a time stands for, whether or not its nsec is below a second.
Instant(t) == t.second * Billion + t.nsec

\* verify_timespec: what ofsl_time_getutc and ofsl_time_getlocal let through.
IsNormal(t) == t \in [second : Nat, nsec : 0 .. Billion - 1]

\* The conversions the C compiler makes between int32_t and uint32_t.
AsUnsigned(n) == n % NsecWord
AsSigned(n)   == IF n % NsecWord < NsecWord \div 2 THEN n % NsecWord
                 ELSE (n % NsecWord) - NsecWord

\* -tdelta->dnsec > fstm->nsec compares as unsigned: any positive dnsec borrows.
Borrows(t, d) == AsUnsigned(-d.dnsec) > t.nsec

\* Mutant: the second borrowed is lost.
CalcDiffLost(t, d) ==
  [second |-> t.second + d.dsecond - (IF Borrows(t, d) THEN 1 ELSE 0),
   nsec   |-> AsUnsigned(t.nsec + d.dnsec)]

\* ofsl_time_calcdiff: t moved by d.
CalcDiff(t, d) ==
  LET borrow == IF Borrows(t, d) THEN 1 ELSE 0
  IN  [second |-> t.second + d.dsecond - borrow,
       nsec   |-> AsUnsigned(t.nsec + (borrow * Billion) + d.dnsec)]

\* ofsl_time_getdiff: what moves ref to tm.
GetDiff(ref, tm) == [dsecond |-> tm.second - ref.second,
                     dnsec   |-> AsSigned(tm.nsec - ref.nsec)]

-----------------------------------------------------------------------------
\* A difference applied to the time it was taken from gives the other time
\* (time.c:71-89), although the result's nsec may be that of up to three seconds.
GivesBack(ref, tm) ==
  IsNormal(ref) /\ IsNormal(tm) =>
    Instant(CalcDiff(ref, GetDiff(ref, tm))) = Instant(tm)

\* Moving a normal time moves its instant exactly, and a move back in the same
\* second gives a normal time again (time.c:76-81).
MovesExactly(t, d) ==
  IsNormal(t) /\ d.dnsec \in 1 - Billion .. Billion - 1 =>
    /\ Instant(CalcDiff(t, d)) = Instant(t) + (d.dsecond * Billion) + d.dnsec
    /\ d.dnsec <= 0 => CalcDiff(t, d).nsec \in 0 .. Billion - 1
=============================================================================
