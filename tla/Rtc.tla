-------------------------------- MODULE Rtc ---------------------------------
(***************************************************************************)
(* rtc_read_datetime (kernel/drivers/platform/rtc.c): the registers of the *)
(* CMOS clock read one by one while the clock goes on, and their           *)
(* conversion.  The clock counts in binary or BCD and in 24 or 12 hours,   *)
(* as status register B says; the date is converted like the minute and    *)
(* left out.                                                               *)
(***************************************************************************)
EXTENDS Naturals

CONSTANTS Starts,      \* seconds and minutes at which a read may start
          MaxTicks     \* bound: updates of the clock during a read

PM == 128

VARIABLES bcd, h24,                    \* the format of the clock
          clock,                       \* [hour, minute, second]: the external clock
          begun,                       \* history: the clock at the start of the read
          ticks,                       \* history: the updates since then
          pc, second, minute, hour     \* locals of rtc_read_datetime
vars == <<bcd, h24, clock, begun, ticks, pc, second, minute, hour>>

(* The registers. *)
Coded(n) == IF bcd THEN 16 * (n \div 10) + (n % 10) ELSE n
HourRegister(h) ==
  IF h24 THEN Coded(h)
  ELSE Coded(IF h % 12 = 0 THEN 12 ELSE h % 12) + (IF h >= 12 THEN PM ELSE 0)

(* The clock one second later. *)
Later(c) ==
  LET s == (c.second + 1) % 60
      m == IF s = 0 THEN (c.minute + 1) % 60 ELSE c.minute
  IN  [second |-> s, minute |-> m, hour |-> IF s = 0 /\ m = 0 THEN (c.hour + 1) % 24 ELSE c.hour]

Init ==
  /\ bcd \in BOOLEAN /\ h24 \in BOOLEAN
  /\ clock \in [hour : 0 .. 23, minute : Starts, second : Starts] /\ begun = clock
  /\ ticks = 0 /\ pc = "second" /\ second = 0 /\ minute = 0 /\ hour = 0

Tick ==
  /\ ticks < MaxTicks /\ pc # "done" /\ ticks' = ticks + 1 /\ clock' = Later(clock)
  /\ UNCHANGED <<bcd, h24, begun, pc, second, minute, hour>>

ReadSecond ==
  /\ pc = "second" /\ pc' = "minute" /\ second' = Coded(clock.second)
  /\ begun' = clock /\ ticks' = 0
  /\ UNCHANGED <<bcd, h24, clock, minute, hour>>
ReadMinute ==
  /\ pc = "minute" /\ pc' = "hour" /\ minute' = Coded(clock.minute)
  /\ UNCHANGED <<bcd, h24, clock, begun, ticks, second, hour>>
ReadHour ==
  /\ pc = "hour" /\ pc' = "convert" /\ hour' = HourRegister(clock.hour)
  /\ UNCHANGED <<bcd, h24, clock, begun, ticks, second, minute>>

BcdToBin(value) == (value % 16) + (value \div 16) * 10

(* Mutant: the PM bit is taken for a digit. *)
ConvertHourUnmasked(h) ==
  LET bin == IF bcd THEN BcdToBin(h) ELSE h
  IN  IF ~ h24 /\ bin >= PM THEN (bin - PM + 12) % 24 ELSE bin

(* The hour: the PM bit is kept out of the BCD conversion, then applied. *)
ConvertHour(h) ==
  LET bin == IF bcd THEN (h \div PM) * PM + BcdToBin(h % PM) ELSE h
  IN  IF ~ h24 /\ bin >= PM THEN (bin - PM + 12) % 24 ELSE bin

Convert ==
  /\ pc = "convert" /\ pc' = "done"
  /\ second' = IF bcd THEN BcdToBin(second) ELSE second
  /\ minute' = IF bcd THEN BcdToBin(minute) ELSE minute
  /\ hour' = ConvertHour(hour)
  /\ UNCHANGED <<bcd, h24, clock, begun, ticks>>

Next == Tick \/ ReadSecond \/ ReadMinute \/ ReadHour \/ Convert

Spec == Init /\ [][Next]_vars

-----------------------------------------------------------------------------
Read == [hour |-> hour, minute |-> minute, second |-> second]

(* A read gives the time at which it began, in every format, also when    *)
(* the clock goes on in between, as long as the seconds do not wrap; in 12 *)
(* hours, outside the hours that noon and midnight begin.                  *)
ReadsTheTime ==
  pc = "done" /\ begun.second + ticks < 60 /\ (h24 \/ begun.hour \notin {0, 12}) => Read = begun
=============================================================================
