------------------------------- MODULE Numbers -------------------------------
(***************************************************************************)
(* Numbers as text and time as a date: cg_utoa and cg_itoa                 *)
(* (src/src/arch/x86_64/cg_util.asm), the digits of a timestamp            *)
(* (src/include/util/cg_util.h), the calendar of cg_datetime_str_get       *)
(* (src/src/platform/cg_time.c) and the number in a session cookie         *)
(* (src/src/services/cg_router.c).                                         *)
(*                                                                         *)
(* The divisions by a multiplication and a shift are taken as the exact    *)
(* quotients they stand for.                                               *)
(***************************************************************************)
EXTENDS Integers, Sequences

CONSTANTS WordSize    \* one more than a uint64_t holds

ASSUME NumbersAssumption == WordSize \in Nat \ {0}

(* A digit stands for itself, any other character for a number above 9.     *)
Minus == 45

(* The digits come out last one first; zero has one.                        *)
Utoa(n) ==
    LET digits[v \in 0 .. n] ==
          IF v < 10 THEN <<v>> ELSE Append(digits[v \div 10], v % 10)
    IN  digits[n]

Itoa(n) == IF n < 0 THEN <<Minus>> \o Utoa(-n) ELSE Utoa(n)

(* get_session_id reads digits up to the first other character.             *)
GetSessionId(text) ==
    LET upto[i \in 0 .. Len(text)] ==
          IF i = 0 THEN [sid |-> 0, on |-> TRUE]
          ELSE IF upto[i - 1].on /\ text[i] \in 0 .. 9
            THEN [upto[i - 1] EXCEPT !.sid = (@ * 10 + text[i]) % WordSize]
            ELSE [upto[i - 1] EXCEPT !.on = FALSE]
    IN  upto[Len(text)].sid

(* cg_write_digits2 and cg_write_digits4                                    *)
Digits2(v) == <<v \div 10, v % 10>>
Digits4(v) == <<v \div 1000, (v \div 100) % 10, (v \div 10) % 10, v % 10>>

-----------------------------------------------------------------------------
(* The date of a day since 1 January 1970: years begin in March, in eras of *)
(* 400 years.                                                               *)

(* Slip: the year is not moved on for January and February.                 *)
DateSlip(days) ==
    LET z   == days + 719468
        era == z \div 146097
        doe == z - era * 146097
        yoe == (doe - doe \div 1460 + doe \div 36524 - doe \div 146096) \div 365
        doy == doe - (365 * yoe + yoe \div 4 - yoe \div 100)
        mp  == (5 * doy + 2) \div 153
    IN  [year |-> yoe + era * 400, month |-> mp + (IF mp < 10 THEN 3 ELSE -9),
         day |-> doy - (153 * mp + 2) \div 5 + 1]

Date(days) ==
    LET z   == days + 719468
        era == z \div 146097
        doe == z - era * 146097
        yoe == (doe - doe \div 1460 + doe \div 36524 - doe \div 146096) \div 365
        doy == doe - (365 * yoe + yoe \div 4 - yoe \div 100)
        mp  == (5 * doy + 2) \div 153
        m   == mp + (IF mp < 10 THEN 3 ELSE -9)
    IN  [year  |-> yoe + era * 400 + (IF m <= 2 THEN 1 ELSE 0),
         month |-> m,
         day   |-> doy - (153 * mp + 2) \div 5 + 1]

Clock(secs) ==
    LET rest == secs - (secs \div 3600) * 3600
    IN  [hours |-> secs \div 3600, minutes |-> rest \div 60,
         secs |-> rest - (rest \div 60) * 60]

(* cg_datetime_str_get for a time in seconds, given as days and the rest.   *)
DatetimeStr(days, secs) ==
    LET date == Date(days)
        time == Clock(secs)
    IN  Digits4(date.year) \o Digits2(date.month) \o Digits2(date.day)
        \o Digits2(time.hours) \o Digits2(time.minutes) \o Digits2(time.secs)
=============================================================================
