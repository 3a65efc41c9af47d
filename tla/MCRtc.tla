------------------------------- MODULE MCRtc --------------------------------
(***************************************************************************)
(* Days of 8 seconds, and integers of which half are 200000, so that the   *)
(* product with the years overflows from 69 years on, as that of the code  *)
(* does.  The machine is switched on at the beginning of the first day of  *)
(* all months of a hundred years, of the days around the end of each       *)
(* February, and of each last day of the year; and in the last second of   *)
(* some days.  An alarm is set for more than a day later, with a carry in  *)
(* each field for some times of the day.                                   *)
(***************************************************************************)
EXTENDS Rtc

CONSTANT none

Dates == {d \in [year : 0 .. 99, mon : 1 .. 12, mday : {1, 2, 28, 29, 30, 31}] :
             d.mday <= MonthDays(d.mon, FullYear(d.year))}

At(date, second) ==
    [sec |-> second % SecPerMin, min |-> (second \div MINUTE) % MinPerHour,
     hour |-> second \div HOUR,
     mday |-> date.mday, mon |-> date.mon, year |-> date.year]

MCBoots ==
    {At(d, 0) : d \in {e \in Dates : \/ e.mday = 1
                                     \/ e.mon = 2 /\ e.mday > 27
                                     \/ e.mon = 12 /\ e.mday = 31}}
    \cup {At(d, DAY - 1) : d \in {e \in Dates : e.year \in {69, 72, 99}
                                                 /\ e.mday > 27 /\ e.mon \in {2, 12}}}

LongRunDate == [year |-> 0, mon |-> 2, mday |-> 29]
MCLongRun == SecondNumber(At(LongRunDate, 0))
MCDelays == {DAY + 3}
=============================================================================
