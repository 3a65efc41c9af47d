-------------------------------- MODULE Rtc ---------------------------------
(***************************************************************************)
(* The CMOS clock, kernel/time.c and kernel/rtc.c, with interrupts,        *)
(* kernel/interrupt.c and kernel/handler.asm, and the beeper.  time_init   *)
(* reads the clock at boot with interrupts off; then rtc_init allows its   *)
(* interrupt, and a thread sets alarms with interrupts on.                 *)
(*                                                                         *)
(* The clock is external: once a second it updates its registers and       *)
(* compares them with those of the alarm; during an update a register      *)
(* reads as before or as after it.  Each access to it is two: of its index *)
(* register, and of the register that this selects, with the handler of    *)
(* its interrupt perhaps between them.                                     *)
(* External are also the two interrupt controllers:                        *)
(* an edge makes a request, and a request waits while one of the same or a *)
(* higher priority is in service.                                          *)
(***************************************************************************)
EXTENDS Calendar, Beeper, Sequences, FiniteSetsExt

CONSTANTS
    Boots,         \* the times at which the machine may be switched on
    LongRun,       \* the startup_time after which the machine is followed on
    Delays,        \* the arguments of set_alarm
    OtherFlags,    \* of register C, those of interrupts that are not allowed
    Idle           \* no alarm is expected

IRQ_CLOCK == 0
IRQ_CASCADE == 2
IRQ_RTC == 8
IRQ_MASTER_NR == 32
Irqs == 0 .. 15

\* The times that the registers can hold.
Times ==
    {t \in [sec : 0 .. SecPerMin - 1, min : 0 .. MinPerHour - 1, hour : 0 .. HourPerDay - 1,
            mday : 1 .. 31, mon : 1 .. 12, year : 0 .. 99] :
        t.mday <= MonthDays(t.mon, FullYear(t.year))}

\* A register holds two decimal digits.
ASSUME RtcAssumption ==
    /\ {SecPerMin, MinPerHour, HourPerDay} \subseteq 1 .. 100
    /\ Boots \subseteq Times
    /\ Delays \subseteq Nat /\ Idle \notin Int
    /\ OtherFlags \subseteq {0, 16, 64, 80}

\* The registers in the order in which they are read.
Registers == <<"sec", "min", "hour", "mday", "mon", "year">>
AlarmRegisters == <<"hour", "min", "sec">>

VARIABLES
    now, updating,       \* the time, and whether an update is in progress
    alarm, AF, AIE,      \* the alarm, its flag, and whether it may interrupt
    handler_table,       \* the handlers of the interrupts from IRQ_MASTER_NR on
    masked,              \* the lines masked in either controller
    pending, service,    \* requests, and levels in service of both controllers
    pc, caller,          \* where the only thread is, and in which function
    at,                  \* the place in Registers or AlarmRegisters of the next one
    index,               \* of an access under way: the register that is selected,
                         \* the one of the thread's access or "C"
    tm, secs,            \* the local variables of both functions
    startup_time,
    clean,               \* the pass over the registers has met no update
    ticks,               \* updates since the reading began
    taken,               \* the time at which the reading was accepted
    torn,                \* an access of set_alarm has gone to another register
    due                  \* seconds to the next alarm, or Idle

clock == <<now, updating, alarm, AF, AIE>>
controllers == <<handler_table, masked, pending, service>>
thread == <<pc, caller, at, index, tm, secs, startup_time>>
ghosts == <<clean, ticks, taken, torn, due>>
vars == <<clock, controllers, thread, ghosts, beeper>>

TimeOfDay(t) == t.hour * HOUR + t.min * MINUTE + t.sec
Midnight == [sec |-> 0, min |-> 0, hour |-> 0, mday |-> 1, mon |-> 1, year |-> 0]
NoTime == Midnight

\* Requests are edges, the slave's go through the cascade, and all lines are
\* masked.
pic_init == Irqs

idt_init == [irq \in Irqs |-> "default_handler"]

\* interrupt_init, and a clock that may have left its flag set.
Init ==
    /\ now \in Boots /\ updating = FALSE
    /\ alarm = [hour |-> 0, min |-> 0, sec |-> 0]
    /\ AF \in BOOLEAN /\ AIE = FALSE
    /\ handler_table = idt_init
    /\ masked = pic_init
    /\ pending = {} /\ service = [master |-> {}, slave |-> {}]
    /\ pc = "boot" /\ caller = "time_init" /\ at = 1 /\ index = "none"
    /\ tm = NoTime /\ secs = 0 /\ startup_time = 0
    /\ clean = TRUE /\ ticks = 0 /\ taken = NoTime
    /\ torn = FALSE /\ due = Idle
    /\ BeeperInit

(***************************************************************************)
(* The interrupt controllers.                                              *)
(***************************************************************************)

\* The line of the clock is up while both bits are set.  A request that goes
\* down before it is taken is withdrawn.
Requests(af, aie) ==
    CASE af /\ aie /\ ~(AF /\ AIE) -> pending \cup {IRQ_RTC}
      [] ~(af /\ aie) -> pending \ {IRQ_RTC}
      [] OTHER -> pending

Level(irq) == IF irq >= 8 THEN IRQ_CASCADE ELSE irq

Deliverable(irq) ==
    /\ pc \notin {"boot", "started"} /\ caller # "time_init"
    /\ irq \in pending \cup {IRQ_CLOCK} /\ irq \notin masked
    /\ Level(irq) \notin masked
    /\ \A l \in service.master : l > Level(irq)
    /\ irq >= 8 => \A l \in service.slave : l > irq - 8

Acknowledged(irq) ==
    [master |-> service.master \cup {Level(irq)},
     slave |-> service.slave \cup (IF irq >= 8 THEN {irq - 8} ELSE {})]

\* The end of interrupt goes to the highest priority in service.
Ended(levels) == IF levels = {} THEN {} ELSE levels \ {Min(levels)}

\* Mutant: of the slave's interrupts, only the master hears.
send_eoi_MasterOnly(vector, s) ==
    IF vector \in 32 .. 47 THEN [s EXCEPT !.master = Ended(@)] ELSE s

send_eoi(vector, s) ==
    CASE vector \in 32 .. 39 -> [s EXCEPT !.master = Ended(@)]
      [] vector \in 40 .. 47 -> [master |-> Ended(s.master), slave |-> Ended(s.slave)]
      [] OTHER -> s

set_interrupt_handler(irq, handler, table) == [table EXCEPT ![irq] = handler]

set_interrupt_mask(irq, enable, lines) ==
    IF enable THEN lines \ {irq} ELSE lines \cup {irq}

(***************************************************************************)
(* The clock.                                                              *)
(***************************************************************************)

\* Bound: once the machine is up, midnight leaves the date alone, which is
\* nothing to an alarm.
NextSecond(t) ==
    LET s == (TimeOfDay(t) + 1) % DAY
        day == IF s = 0 /\ caller = "time_init" THEN NextDay(t) ELSE t
    IN  [day EXCEPT !.sec = s % SecPerMin, !.min = (s \div MINUTE) % MinPerHour,
                    !.hour = s \div HOUR]

Bcd(n) == 16 * (n \div 10) + (n % 10)

\* Assumption: the processor takes an interrupt within the second, and a
\* reading takes less than a minute.  Bound: no time passes between time_init
\* and rtc_init.
BeginUpdate ==
    /\ ~updating /\ pc \notin {"boot", "started"}
    /\ ~Deliverable(IRQ_RTC)
    /\ ticks < SecPerMin - 1
    /\ updating' = TRUE
    /\ UNCHANGED <<now, alarm, AF, AIE, controllers, thread, ghosts, beeper>>

EndUpdate ==
    /\ updating /\ updating' = FALSE
    /\ now' = NextSecond(now)
    /\ AF' = (AF \/ \A f \in {"hour", "min", "sec"} : alarm[f] = Bcd(now'[f]))
    /\ pending' = Requests(AF', AIE)
    /\ ticks' = IF pc = "read" THEN ticks + 1 ELSE 0
    /\ due' = IF due = Idle THEN Idle ELSE due - 1
    /\ UNCHANGED <<alarm, AIE, handler_table, masked, service, thread,
                   clean, taken, torn, beeper>>

(***************************************************************************)
(* cmos_read and cmos_write: an access to the index, and one to the data.  *)
(***************************************************************************)

SelectRegister ==
    /\ pc \in {"read", "write", "clear"}
    /\ index = "none" /\ index' = "own"
    /\ UNCHANGED <<clock, controllers, pc, caller, at, tm, secs, startup_time,
                   ghosts, beeper>>

\* rtc_handler has selected register C since.
Diverted == index = "C"

\* Register C: the flag of the alarm, that of the line, and the others.
Flags ==
    {other + (IF AF THEN 32 ELSE 0) + (IF AF /\ AIE THEN 128 ELSE 0) :
        other \in OtherFlags}

\* Reading register C clears the flags.
AccessData(reads) ==
    /\ index # "none" /\ index' = "none"
    /\ AF' = (AF /\ ~(Diverted /\ reads))

(***************************************************************************)
(* time_read_bcd: all registers, and the seconds again.  The weekday and   *)
(* the century are read as well, and used for nothing.                     *)
(***************************************************************************)

Seen(register) ==
    IF Diverted THEN Flags
    ELSE {Bcd(now[register])} \cup
             (IF updating THEN {Bcd(NextSecond(now)[register])} ELSE {})

\* Bound: a register is read during an update only in time_init.
Reading == pc = "read" /\ (caller = "time_init" \/ ~updating)

ReadRegister ==
    /\ Reading /\ at <= Len(Registers)
    /\ AccessData(TRUE)
    /\ pending' = Requests(AF', AIE)
    /\ \E value \in Seen(Registers[at]) : tm' = [tm EXCEPT ![Registers[at]] = value]
    /\ at' = at + 1
    /\ clean' = ((at = 1 \/ clean) /\ ~updating)
    /\ torn' = (torn \/ Diverted)
    /\ UNCHANGED <<now, updating, alarm, AIE, handler_table, masked, service, pc,
                   caller, secs, startup_time, ticks, taken, due, beeper>>

\* Mutant: the minutes are compared.
Compared_Minute == "min"

\* The register that the loop compares at its end.
Compared == "sec"

\* time_read.
Binary(time) == [r \in DOMAIN time |-> bcd_to_bin(time[r])]

\* Mutant: the hour is not reduced at midnight.
AlarmTime_NextDay(time, delay) ==
    LET sec == time.sec + (delay % SecPerMin)
        min == time.min + (IF sec >= SecPerMin THEN 1 ELSE 0)
                   + ((delay \div SecPerMin) % MinPerHour)
        hour == time.hour + (IF min >= MinPerHour THEN 1 ELSE 0)
                    + delay \div (SecPerMin * MinPerHour)
    IN  [time EXCEPT !.sec = sec % SecPerMin, !.min = min % MinPerHour, !.hour = hour]

\* set_alarm: the seconds are added field by field with a carry each.
AlarmTime(time, delay) ==
    LET sec == time.sec + (delay % SecPerMin)
        min == time.min + (IF sec >= SecPerMin THEN 1 ELSE 0)
                   + ((delay \div SecPerMin) % MinPerHour)
        hour == time.hour + (IF min >= MinPerHour THEN 1 ELSE 0)
                    + delay \div (SecPerMin * MinPerHour)
    IN  [time EXCEPT !.sec = sec % SecPerMin, !.min = min % MinPerHour,
                     !.hour = hour % HourPerDay]

Repeat ==
    /\ at' = 1 /\ clean' = TRUE /\ torn' = FALSE
    /\ UNCHANGED <<pc, tm, startup_time, ticks, taken>>

\* What the caller of time_read does with the time, up to its next access to
\* the clock.  set_alarm does not use the date.
Accept ==
    LET time == Binary(tm)
    IN  /\ at' = 1 /\ ticks' = 0 /\ clean' = (clean /\ ~updating)
        /\ torn' = (torn \/ Diverted)
        /\ taken' = IF torn' THEN NoTime ELSE now
        /\ \/ /\ caller = "time_init" /\ pc' = "started"
              /\ tm' = time
              /\ startup_time' = mktime(time)
           \/ /\ caller = "set_alarm" /\ pc' = "write"
              /\ LET set == AlarmTime(time, secs)
                 IN  tm' = [NoTime EXCEPT !.sec = set.sec, !.min = set.min,
                                          !.hour = set.hour]
              /\ UNCHANGED startup_time

CompareSeconds ==
    /\ Reading /\ at > Len(Registers)
    /\ AccessData(TRUE)
    /\ pending' = Requests(AF', AIE)
    /\ \E value \in Seen(Compared) : IF tm[Compared] = value THEN Accept ELSE Repeat
    /\ UNCHANGED <<now, updating, alarm, AIE, handler_table, masked, service, caller,
                   secs, due, beeper>>

(***************************************************************************)
(* set_alarm after the reading: the registers of the alarm one by one, the *)
(* bit that allows its interrupt, and the register that holds its flag.    *)
(* What is written to register C instead is lost.                          *)
(***************************************************************************)

WriteAlarm ==
    /\ pc = "write" /\ at <= Len(AlarmRegisters)
    /\ AccessData(FALSE)
    /\ alarm' = IF Diverted THEN alarm
                ELSE [alarm EXCEPT ![AlarmRegisters[at]]
                                     = bin_to_bcd(tm[AlarmRegisters[at]])]
    /\ at' = at + 1
    /\ torn' = (torn \/ Diverted)
    /\ UNCHANGED <<now, updating, AIE, controllers, pc, caller, tm, secs,
                   startup_time, clean, ticks, taken, due, beeper>>

AllowAlarm ==
    /\ pc = "write" /\ at > Len(AlarmRegisters)
    /\ AccessData(FALSE)
    /\ AIE' = (AIE \/ ~Diverted)
    /\ pending' = Requests(AF, AIE')
    /\ pc' = "clear"
    /\ torn' = (torn \/ Diverted)
    /\ UNCHANGED <<now, updating, alarm, handler_table, masked, service, caller,
                   at, tm, secs, startup_time, clean, ticks, taken, due, beeper>>

\* From here on an alarm is due when the time of day is as many seconds
\* after the reading as was asked for.  Of one that was set with an access to
\* another register nothing is expected.
ClearFlag ==
    /\ pc = "clear"
    /\ index # "none" /\ index' = "none"
    /\ AF' = FALSE
    /\ pending' = Requests(FALSE, AIE)
    /\ LET wait == (TimeOfDay(taken) + secs - TimeOfDay(now)) % DAY
       IN  due' = IF torn THEN Idle ELSE IF wait = 0 THEN DAY ELSE wait
    /\ torn' = FALSE
    /\ pc' = "up" /\ at' = 1
    /\ tm' = NoTime /\ secs' = 0 /\ taken' = NoTime
    /\ UNCHANGED <<now, updating, alarm, AIE, handler_table, masked, service, caller,
                   startup_time, clean, ticks, beeper>>

set_alarm(delay) ==
    /\ pc = "up" /\ pc' = "read"
    /\ secs' = delay /\ at' = 1 /\ due' = Idle
    /\ UNCHANGED <<clock, controllers, caller, index, tm, startup_time, clean, ticks,
                   taken, torn, beeper>>

(***************************************************************************)
(* The boot: clock_init, then time_init begins; and rtc_init, after which  *)
(* interrupts are enabled.                                                 *)
(***************************************************************************)

clock_init ==
    /\ pc = "boot" /\ pc' = "read"
    /\ handler_table' = set_interrupt_handler(IRQ_CLOCK, "clock_handler", handler_table)
    /\ masked' = set_interrupt_mask(IRQ_CLOCK, TRUE, masked)
    /\ UNCHANGED <<clock, pending, service, caller, at, index, tm, secs, startup_time,
                   ghosts, beeper>>

rtc_init ==
    /\ pc = "started" /\ startup_time = LongRun /\ clean
    /\ pc' = "up" /\ caller' = "set_alarm"
    /\ handler_table' = set_interrupt_handler(IRQ_RTC, "rtc_handler", handler_table)
    /\ masked' = set_interrupt_mask(IRQ_CASCADE, TRUE,
                                    set_interrupt_mask(IRQ_RTC, TRUE, masked))
    /\ tm' = NoTime /\ taken' = NoTime
    /\ UNCHANGED <<clock, pending, service, at, index, secs, startup_time, clean,
                   ticks, torn, due, beeper>>

\* Bound: after any other time the machine is not followed on.
Stop == pc = "started" /\ ~(startup_time = LongRun /\ clean) /\ UNCHANGED vars

(***************************************************************************)
(* An interrupt is one step: its handler runs with interrupts off.  Of     *)
(* clock_handler only what concerns the beeper is left.  The timer's       *)
(* request comes at any time and does not wait.                            *)
(***************************************************************************)

interrupt_entry(irq, handler) ==
    /\ Deliverable(irq)
    /\ handler_table[irq] = handler
    /\ service' = send_eoi(IRQ_MASTER_NR + irq, Acknowledged(irq))

clock_handler ==
    /\ interrupt_entry(IRQ_CLOCK, "clock_handler")
    /\ Tick
    /\ UNCHANGED <<clock, handler_table, masked, pending, thread, ghosts>>

\* The handler selects and reads register C.  The next alarm is due in a day.
rtc_handler ==
    /\ interrupt_entry(IRQ_RTC, "rtc_handler")
    /\ AF' = FALSE
    /\ pending' = pending \ {IRQ_RTC}
    /\ index' = IF index = "none" THEN "none" ELSE "C"
    /\ StartBeep
    /\ due' = IF due = Idle THEN Idle ELSE DAY
    /\ UNCHANGED <<now, updating, alarm, AIE, handler_table, masked, pc, caller, at,
                   tm, secs, startup_time, clean, ticks, taken, torn>>

Next ==
    \/ BeginUpdate \/ EndUpdate
    \/ SelectRegister \/ ReadRegister \/ CompareSeconds
    \/ WriteAlarm \/ AllowAlarm \/ ClearFlag
    \/ \E delay \in Delays : set_alarm(delay)
    \/ clock_init \/ rtc_init \/ Stop
    \/ clock_handler \/ rtc_handler

\* The timer keeps going, and the processor takes its interrupts.
Spec == Init /\ [][Next]_vars /\ WF_vars(clock_handler)

(***************************************************************************)
(* Properties.                                                             *)
(***************************************************************************)

Started == pc = "started" /\ clean

TypeOK ==
    /\ BeeperTypeOK
    /\ now.sec \in 0 .. SecPerMin - 1 /\ now.min \in 0 .. MinPerHour - 1
    /\ now.hour \in 0 .. HourPerDay - 1
    /\ \A r \in DOMAIN tm : tm[r] \in 0 .. 255
    /\ pc = "write" => TimeOfDay(tm) \in 0 .. DAY - 1
    /\ index \in {"none", "own", "C"}
    /\ pending \subseteq {IRQ_RTC}
    /\ service.master \subseteq 0 .. 7 /\ service.slave \subseteq 0 .. 7
    /\ ticks \in 0 .. SecPerMin
    /\ due \in 0 .. DAY \cup {Idle}

\* A reading that met no update is the time of one instant: no field is from
\* before a carry and another one from after it, and each is the number that
\* its register stands for.
ReadingWhole ==
    Started => tm = taken /\ \A r \in DOMAIN tm : bin_to_bcd(tm[r]) = Bcd(taken[r])

\* startup_time is the number of seconds since 1970 of the time that was
\* taken, for all years of two digits: also for those from which on the
\* product of mktime is more than an int can hold.
StartupTimeRight == Started => startup_time = SecondNumber(taken)

\* localtime gives back the date that mktime was given, on the dates from March
\* on of years without a leap day, without the last days of the year.
LocaltimeConverts ==
    Started /\ Converted(taken) =>
        localtime(startup_time) = [taken EXCEPT !.year = FullYear(@) - 1900]

\* An alarm that was set without the handler of an old one between the two
\* halves of an access rings when the time that was asked for is reached, no
\* second earlier and no second later, and so on every day after, unless it is
\* being set again: also when the old one rings while it is being set, and when
\* the time passes meanwhile.
AlarmOnTime == [][ /\ rtc_handler => due \in {0, Idle}
                   /\ EndUpdate => due # 0 ]_vars
=============================================================================
