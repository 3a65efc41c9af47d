------------------------------ MODULE Keyboard ------------------------------
(***************************************************************************)
(* The keyboard driver, kernel/keyboard.c, with the keyboard and its       *)
(* controller.  Scan codes raise an interrupt each; the handler keeps in   *)
(* keymap which keys are pressed, keeps the lock states, and types         *)
(* characters.  For a lock key it sets the LEDs, polling the controller    *)
(* with interrupts off.                                                    *)
(*                                                                         *)
(* The keyboard is modelled from how the driver uses it: a queue of bytes, *)
(* one of them in the data register, a register for the bytes it is sent,  *)
(* and an acknowledgement for each of these, before or after the scan      *)
(* codes that are queued.  The data register keeps its last byte.          *)
(***************************************************************************)
EXTENDS Integers, Sequences, SequencesExt

CONSTANTS
    Keys,        \* each key as the places of keymap it presses, in order
    NoByte,      \* an empty register
    MaxEvents,   \* bound on presses (and repeats) and releases
    MaxQueue     \* the bytes the keyboard can queue

PREFIX == 224                 \* 0xE0
KEYBOARD_CMD_LED == 237
KEYBOARD_CMD_ACK == 250
CODE_PRINT_SCREEN_DOWN == 183

KEY_CAPSLOCK == 58
KEY_NUMLOCK == 69
KEY_SCRLOCK == 70
KEY_SLASH == 53
KEY_PRINT_SCREEN == 95
KEY_SHIFT == {42, 54}
LockKeys == {KEY_CAPSLOCK, KEY_NUMLOCK, KEY_SCRLOCK}

\* Rows of keymap: those with a letter, with a character in both columns, and
\* with one in the first.
Letters == (16 .. 25) \cup (30 .. 38) \cup (44 .. 50)
Both == (1 .. 28) \cup (30 .. 41) \cup (43 .. 53) \cup {55, 57, 74, 78, 83}
PlainOnly == (71 .. 82) \ {74, 78}

Visible(code, column) == code \in Both \/ (code \in PlainOnly /\ column = 0)

ASSUME KeysAssumption ==
    /\ MaxEvents \in Nat /\ MaxQueue \in Nat
    /\ NoByte \notin Nat
    /\ \A k \in Keys : k \in Seq((0 .. KEY_PRINT_SCREEN) \X {2, 3})

VARIABLES
    at,          \* "idle", or where keyboard_init or the handler is in set_leds
    key,         \* makecode and ext of the handler in set_leds, or NoByte
    extcode_state,
    pressed,     \* the places of keymap, <<makecode, ext>>, that are true
    locks,       \* the lock states that are true, by the codes of their keys
    input,       \* what the last interrupt typed: nothing or a place of keymap
    queue,       \* the bytes that the keyboard has yet to send
    data, full,  \* the data register, and whether its byte is unread
    irq,         \* an interrupt is pending
    command,     \* the byte that the keyboard was sent and has not read
    argument,    \* the keyboard waits for the state of the LEDs
    leds,        \* the LEDs that are lit
    sent,        \* keys held and locks, by the codes sent
    seen,        \* keys held and locks, by the codes handled
    disturbed,   \* codes were discarded, or an answer came between two
    events

driver == <<at, key, extcode_state, pressed, locks, input>>
device == <<queue, command, argument, leds, sent>>
port == <<data, full, irq>>
vars == <<driver, device, port, seen, disturbed, events>>

\* A byte goes with the keys that are held and the locks that are on after it.
Byte(byte, now) == [byte |-> byte, now |-> now]
Nothing == [keys |-> {}, locks |-> {}]

\* keyboard_init has no handler yet; it begins with set_leds.
Init ==
    /\ at = "command" /\ key = NoByte
    /\ extcode_state = FALSE /\ pressed = {} /\ locks = {} /\ input = {}
    /\ queue = <<>>
    /\ \E byte \in {0, KEYBOARD_CMD_ACK} : data = Byte(byte, Nothing)
    /\ full = FALSE /\ irq = FALSE
    /\ command = NoByte /\ argument = FALSE /\ leds = {}
    /\ sent = Nothing /\ seen = Nothing /\ disturbed = FALSE
    /\ events = 0

(***************************************************************************)
(* The keyboard and its controller                                         *)
(***************************************************************************)

Toggle(S, code) == (S \ {code}) \cup ({code} \ S)

After(now, place, up) ==
    [keys |-> IF up THEN now.keys \ {place} ELSE now.keys \cup {place},
     locks |-> IF ~up /\ place[1] \in LockKeys THEN Toggle(now.locks, place[1])
               ELSE now.locks]

\* The codes of a key, from what was sent before.
Codes(now, place, up) ==
    LET code == IF up THEN place[1] + 128 ELSE place[1]
    IN  (IF place[2] = 3 THEN <<Byte(PREFIX, now)>> ELSE <<>>)
          \o <<Byte(code, After(now, place, up))>>

\* What a place adds to the codes, and to what was sent before.
Sending(done, place, up) ==
    [codes |-> done.codes \o Codes(done.now, place, up),
     now |-> After(done.now, place, up)]

\* The codes of all places of k.
AllCodes(k, up) ==
    LET upTo[i \in 0 .. Len(k)] ==
            IF i = 0 THEN [codes |-> <<>>, now |-> sent]
            ELSE Sending(upTo[i - 1], k[i], up)
    IN  upTo[Len(k)]

Event(k, up) ==
    LET all == AllCodes(IF up THEN Reverse(k) ELSE k, up)
    IN  /\ events < MaxEvents
        /\ Len(queue) + Len(all.codes) <= MaxQueue
        /\ events' = events + 1
        /\ queue' = queue \o all.codes
        /\ sent' = all.now
        /\ UNCHANGED <<driver, port, command, argument, leds, seen, disturbed>>

\* A key that is held repeats its codes.
Press(k) == Event(k, FALSE)
Release(k) == Range(k) \subseteq sent.keys /\ Event(k, TRUE)

Deliver ==
    /\ ~full /\ queue # <<>>
    /\ data' = Head(queue) /\ queue' = Tail(queue)
    /\ full' = TRUE /\ irq' = TRUE
    /\ UNCHANGED <<driver, command, argument, leds, sent, seen, disturbed, events>>

\* What the bits of the LED byte light.
Lit(byte) ==
    {k \in LockKeys :
        (byte \div (IF k = KEY_CAPSLOCK THEN 4 ELSE IF k = KEY_NUMLOCK THEN 2 ELSE 1))
            % 2 = 1}

\* The keyboard reads what it was sent, and acknowledges it.
Consume ==
    LET ack == Byte(KEYBOARD_CMD_ACK, Nothing)
    IN  /\ command # NoByte
        /\ command' = NoByte
        /\ argument' = (command = KEYBOARD_CMD_LED)
        /\ leds' = IF argument /\ command # KEYBOARD_CMD_LED THEN Lit(command)
                   ELSE leds
        /\ queue' \in {<<ack>> \o queue, Append(queue, ack)}
        /\ UNCHANGED <<driver, port, sent, seen, disturbed, events>>

(***************************************************************************)
(* The interrupt handler                                                   *)
(***************************************************************************)

\* Mutant: keys with a prefix shift too, and so do the codes that Print
\* Screen begins with.
shift_state_Both(down) == \E p \in down : p[1] \in KEY_SHIFT

shift_state(down) == \E p \in down : p[1] \in KEY_SHIFT /\ p[2] = 2

\* The comparison comes after the mask and so is never true.
Makecode(byte) ==
    LET code == byte % 128
    IN  IF code = CODE_PRINT_SCREEN_DOWN THEN KEY_PRINT_SCREEN ELSE code

\* What the handler types: row, kind and column of keymap, or nothing.
Typed(code, ext, down, on) ==
    LET capital == KEY_CAPSLOCK \in on /\ code \in Letters
        column == IF ext = 3 /\ code # KEY_SLASH THEN 1
                  ELSE IF capital # shift_state(down) THEN 1 ELSE 0
    IN  IF Visible(code, column) THEN {<<code, ext, column>>} ELSE {}

ext == IF extcode_state THEN 3 ELSE 2
code == Makecode(data.byte)

\* The interrupt and the first inb.
Interrupt ==
    /\ at = "idle" /\ irq
    /\ irq' = FALSE
    /\ full' = FALSE
    /\ seen' = IF data.byte = KEYBOARD_CMD_ACK THEN seen ELSE data.now
    /\ disturbed' = (disturbed \/ (data.byte = KEYBOARD_CMD_ACK /\ extcode_state))
    /\ UNCHANGED <<data, device, events>>

HandlePrefix ==
    /\ Interrupt
    /\ data.byte = PREFIX
    /\ extcode_state' = TRUE
    /\ input' = {}
    /\ UNCHANGED <<at, key, pressed, locks>>

\* A code of no key: an acknowledgement is one.
HandleOther ==
    /\ Interrupt
    /\ data.byte # PREFIX /\ code > KEY_PRINT_SCREEN
    /\ extcode_state' = FALSE
    /\ input' = {}
    /\ UNCHANGED <<at, key, pressed, locks>>

\* Mutant: a release is looked up in the first of the two columns.
HandleRelease_FirstColumn ==
    /\ Interrupt
    /\ data.byte # PREFIX /\ code <= KEY_PRINT_SCREEN /\ data.byte >= 128
    /\ extcode_state' = FALSE
    /\ pressed' = pressed \ {<<code, 2>>}
    /\ input' = {}
    /\ UNCHANGED <<at, key, locks>>

HandleRelease ==
    /\ Interrupt
    /\ data.byte # PREFIX /\ code <= KEY_PRINT_SCREEN /\ data.byte >= 128
    /\ extcode_state' = FALSE
    /\ pressed' = pressed \ {<<code, ext>>}
    /\ input' = {}
    /\ UNCHANGED <<at, key, locks>>

\* On a lock key the handler goes on to set_leds.
HandlePress ==
    /\ Interrupt
    /\ data.byte # PREFIX /\ code <= KEY_PRINT_SCREEN /\ data.byte < 128
    /\ extcode_state' = FALSE
    /\ pressed' = pressed \cup {<<code, ext>>}
    /\ IF code \in LockKeys
       THEN /\ locks' = Toggle(locks, code)
            /\ at' = "command" /\ key' = <<code, ext>> /\ input' = {}
       ELSE /\ input' = Typed(code, ext, pressed', locks)
            /\ UNCHANGED <<at, key, locks>>

(***************************************************************************)
(* set_leds                                                                *)
(***************************************************************************)

\* Mutant: the byte is written without waiting for the controller.
Send_NoWait(byte) == command' = byte

\* keyboard_wait until the controller has read the last byte, then outb.
Send(byte) == command = NoByte /\ command' = byte

\* Mutant: the bit of Caps Lock is one too high.
LedByte_High ==
    (IF KEY_CAPSLOCK \in locks THEN 8 ELSE 0)
      + (IF KEY_NUMLOCK \in locks THEN 2 ELSE 0)
      + (IF KEY_SCRLOCK \in locks THEN 1 ELSE 0)

LedByte ==
    (IF KEY_CAPSLOCK \in locks THEN 4 ELSE 0)
      + (IF KEY_NUMLOCK \in locks THEN 2 ELSE 0)
      + (IF KEY_SCRLOCK \in locks THEN 1 ELSE 0)

SendCommand ==
    /\ at = "command"
    /\ Send(KEYBOARD_CMD_LED)
    /\ at' = "ack_command"
    /\ UNCHANGED <<key, extcode_state, pressed, locks, input, queue, argument,
                   leds, sent, port, seen, disturbed, events>>

SendLeds ==
    /\ at = "argument"
    /\ Send(LedByte)
    /\ at' = "ack_argument"
    /\ UNCHANGED <<key, extcode_state, pressed, locks, input, queue, argument,
                   leds, sent, port, seen, disturbed, events>>

\* Mutant: the answer is masked like a scan code before it is compared.
IsAck_Masked(byte) == byte % 128 = KEYBOARD_CMD_ACK

IsAck(byte) == byte = KEYBOARD_CMD_ACK

\* An inb of keyboard_ack: of a new byte, or of the old one again, when that
\* ends the loop.  Nothing tells the two apart, and a scan code is dropped.
Acknowledge(now, next) ==
    LET done == IsAck(data.byte)
    IN  /\ at = now
        /\ full \/ done
        /\ full' = FALSE
        /\ disturbed' = (disturbed \/ (full /\ data.byte # KEYBOARD_CMD_ACK))
        /\ at' = IF done THEN next ELSE now
        /\ UNCHANGED <<extcode_state, pressed, locks, data, irq, device, seen,
                       events>>

AckCommand ==
    /\ Acknowledge("ack_command", "argument")
    /\ UNCHANGED <<key, input>>

\* After the second one keyboard_init or the handler ends.
AckLeds ==
    /\ Acknowledge("ack_argument", "idle")
    /\ IF at' = "idle" /\ key # NoByte
       THEN key' = NoByte /\ input' = Typed(key[1], key[2], pressed, locks)
       ELSE UNCHANGED <<key, input>>

set_leds == SendCommand \/ AckCommand \/ SendLeds \/ AckLeds

Next ==
    \/ \E k \in Keys : Press(k) \/ Release(k)
    \/ Deliver \/ Consume
    \/ HandlePrefix \/ HandleOther \/ HandleRelease \/ HandlePress
    \/ set_leds

\* The keyboard sends what it has queued and reads what it is sent, and the
\* processor runs the handler.
Fairness == WF_vars(Deliver) /\ WF_vars(Consume) /\ WF_vars(set_leds)

Spec == Init /\ [][Next]_vars /\ Fairness

(***************************************************************************)
(* Properties                                                              *)
(***************************************************************************)

Places == (0 .. KEY_PRINT_SCREEN) \X {2, 3}

\* The variables have their types.
TypeOK ==
    /\ at \in {"idle", "command", "ack_command", "argument", "ack_argument"}
    /\ key \in Places \cup {NoByte}
    /\ {extcode_state, full, irq, argument, disturbed} \subseteq BOOLEAN
    /\ pressed \subseteq Places
    /\ {locks, leds} \subseteq SUBSET LockKeys
    /\ input \subseteq (0 .. KEY_PRINT_SCREEN) \X {2, 3} \X {0, 1}
    /\ data.byte \in 0 .. 255 /\ \A i \in DOMAIN queue : queue[i].byte \in 0 .. 255
    /\ command \in (0 .. 7) \cup {KEYBOARD_CMD_LED, NoByte}
    /\ events \in 0 .. MaxEvents

\* The states of keys and locks are those that the handled codes say, however
\* presses, releases, repeats, prefixes, fake shift codes and the answers of
\* the keyboard interleave.  Two things can make them wrong: codes that
\* keyboard_ack drops, and an answer between a prefix and its code.
KeysAgree == ~disturbed => pressed = seen.keys /\ locks = seen.locks

\* What is typed is a capital if Caps Lock or a shift key is on but not both,
\* by the keys of the keyboard, not by the driver's states.
CapitalsAgree ==
    \A place \in input :
        ~disturbed /\ place[1] \in Letters /\ place[2] = 2
          => LET shifted == <<42, 2>> \in seen.keys \/ <<54, 2>> \in seen.keys
             IN  place[3] = 1 <=> (KEY_CAPSLOCK \in seen.locks) # shifted

\* When no handler runs and the keyboard has read all it was sent, the LEDs
\* show the lock states: each command reaches it with its argument, although
\* the handler may return before it has been answered.
LedsShowLocks ==
    at = "idle" /\ command = NoByte => ~argument /\ leds = locks

\* The loops of keyboard_wait and keyboard_ack, which run with interrupts off,
\* come to an end.
HandlerReturns == at # "idle" ~> at = "idle"

\* keymap says of each key whether it is pressed, as the comment above it says
\* (keyboard.c:121): when all codes have been handled, no key counts as pressed
\* that is not held.
NoKeySticks ==
    at = "idle" /\ ~full /\ ~irq /\ queue = <<>> => pressed \subseteq sent.keys
=============================================================================
