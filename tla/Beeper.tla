------------------------------- MODULE Beeper -------------------------------
(***************************************************************************)
(* The beeper of kernel/clock.c: the console and the handler of the CMOS   *)
(* clock start a beep, the clock interrupt ends it.                        *)
(*                                                                         *)
(* beeping is a bool, which keeps of jiffies + 5 only whether it is zero.  *)
(***************************************************************************)
EXTENDS Integers

CONSTANT Word     \* values of jiffies: 2^32 in the code

ASSUME BeeperAssumption == Word \in Nat /\ Word > 6

VARIABLES
    jiffies,
    beeping,
    speaker       \* the two bits of the speaker register are set

beeper == <<jiffies, beeping, speaker>>

BeeperTypeOK ==
    /\ jiffies \in 0 .. Word - 1
    /\ beeping \in BOOLEAN
    /\ speaker \in BOOLEAN

BeeperInit == jiffies = 0 /\ beeping = FALSE /\ speaker = FALSE

\* The tick in which a beep that is started is not recorded: jiffies + 5 is
\* zero.
Unrecorded == Word - 5

(***************************************************************************)
(* start_beep: the speaker is switched on unless it is on already.         *)
(***************************************************************************)

StartBeep ==
    /\ speaker' = (speaker \/ ~beeping)
    /\ beeping' = ((jiffies + 5) % Word # 0)
    /\ UNCHANGED jiffies

(***************************************************************************)
(* The clock interrupt as far as the beeper goes: stop_beep sees jiffies   *)
(* before it is counted up, and compares it with beeping, which is 1.      *)
(***************************************************************************)

\* Mutant: the speaker is left on.
StopBeep_SpeakerOn ==
    IF beeping /\ jiffies > 1
    THEN beeping' = FALSE /\ UNCHANGED speaker
    ELSE UNCHANGED <<speaker, beeping>>

StopBeep ==
    IF beeping /\ jiffies > 1
    THEN speaker' = FALSE /\ beeping' = FALSE
    ELSE UNCHANGED <<speaker, beeping>>

Tick == StopBeep /\ jiffies' = (jiffies + 1) % Word

(***************************************************************************)
(* Properties.                                                             *)
(***************************************************************************)

\* A beep that is recorded in beeping comes to an end, however often it is
\* started again and also when jiffies starts over; and the record is lost
\* only if a beep is started in the one tick of all that makes it zero.
BeepEnds ==
    /\ (speaker /\ beeping) ~> (~speaker \/ ~beeping)
    /\ [][speaker' /\ ~beeping' => (speaker /\ ~beeping) \/ jiffies = Unrecorded]_beeper
=============================================================================
