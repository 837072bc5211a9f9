---------------------------- MODULE UartDisplay ----------------------------
(***************************************************************************)
(* Three tasks tell the display what to show: the clock every 10 seconds,  *)
(* the battery every minute, and the weather once. An instruction is three *)
(* strings - "month.val=", the number, "\xff\xff\xff" - and every string   *)
(* is a call of its own: uart_write_bytes keeps a string together, nothing *)
(* keeps the three strings of an instruction together. The clock and the   *)
(* weather share a core, the battery task runs on the other one.           *)
(*                                                                         *)
(* The display collects strings until one with the terminator arrives.     *)
(***************************************************************************)
EXTENDS Integers, Sequences, FiniteSets

CONSTANTS
  Senders,     (* the tasks that send, a subset of DOMAIN Instructions      *)
  Voltages,    (* voltages the ADC may measure, in mV                       *)
  Numbers      (* numbers of the calendar and temperatures                  *)

(* What a task sends in one round, in this order.                          *)
Instructions ==
  [rtc     |-> <<"month", "day", "hour", "minute">>,
   adc     |-> <<"bat">>,
   weather |-> <<"weather", "temperature">>]

ASSUME DisplayAssumption ==
  /\ Senders \subseteq DOMAIN Instructions /\ Senders # {}
  /\ Voltages \subseteq 0 .. 3300 /\ Voltages # {}
  /\ Numbers \subseteq -99 .. 99 /\ Numbers # {}

VARIABLES
  round,   (* how many instructions of its round a task has sent            *)
  part,    (* the string it sends next: "prefix", "num" or "end"; "deleted" *)
  num,     (* the number of its instruction                                 *)
  line,    (* what the display has collected                                *)
  shown,   (* the instruction the display has taken last, or Nothing        *)
  torn     (* the tasks whose last instruction met one of another task      *)

vars == <<round, part, num, line, shown, torn>>

Current(t) == Instructions[t][round[t] + 1]
InInstruction == {t \in Senders : part[t] \in {"num", "end"}}

Prefix(c) == [prefix |-> c]
Number(n) == [num |-> n]
Nothing == [component |-> "none", numbers |-> <<>>]

-----------------------------------------------------------------------------
(* Task_ADCGetVoltage: the divider halves the voltage of the battery, and  *)
(* a table gives the charge.                                               *)
BatVoltage(voltage) == 2 * voltage

Thresholds == {3650, 3710, 3730, 3760, 3790, 3840, 3900, 3970, 4080, 4150}

(* Ten percent for every voltage of the table that is reached.             *)
BatPercent(v) == 10 * Cardinality({v0 \in Thresholds : v >= v0})

(* The numbers a task may have to send.                                    *)
NumbersOf(t) ==
  IF t = "adc" THEN {BatPercent(BatVoltage(v)) : v \in Voltages} ELSE Numbers

(* uart_send_num: what itoa writes, sign and NUL included, into an array   *)
(* of three.                                                               *)
NUM_STRING == 3

ItoaLength(n) ==
  LET m == IF n < 0 THEN -n ELSE n IN
  (IF n < 0 THEN 1 ELSE 0) + 1
    + (IF m >= 100 THEN 3 ELSE IF m >= 10 THEN 2 ELSE 1)

-----------------------------------------------------------------------------
(* The range of every variable; a display never collects more than the     *)
(* prefix and the number of one instruction of every task.                 *)
TypeOK ==
  /\ \A t \in Senders :
       /\ round[t] \in 0 .. Len(Instructions[t]) - 1
       /\ part[t] \in {"prefix", "num", "end", "deleted"}
       /\ num[t] \in NumbersOf(t) \cup {0}
  /\ Len(line) <= 6
  /\ DOMAIN shown = {"component", "numbers"}
  /\ torn \subseteq Senders

Init ==
  /\ round = [t \in Senders |-> 0]
  /\ part = [t \in Senders |-> "prefix"]
  /\ num = [t \in Senders |-> 0]
  /\ line = <<>>
  /\ shown = Nothing
  /\ torn = {}

(* A string of t is sent amid the instructions of other tasks.             *)
Tear(t) ==
  LET others == InInstruction \ {t} IN
  torn' = IF others = {} THEN torn ELSE torn \cup others \cup {t}

SendPrefix(t) ==
  /\ part[t] = "prefix"
  /\ \E n \in NumbersOf(t) : num' = [num EXCEPT ![t] = n]
  /\ line' = Append(line, Prefix(Current(t)))
  /\ part' = [part EXCEPT ![t] = "num"]
  /\ LET others == InInstruction \ {t} IN
     torn' = IF others = {} THEN torn \ {t} ELSE torn \cup others \cup {t}
  /\ UNCHANGED <<round, shown>>

(* Variant: the month is sent as tm_mon counts it, from 0.                  *)
SendNumFromZero(t) ==
  /\ part[t] = "num"
  /\ LET n == IF Current(t) = "month" THEN num[t] - 1 ELSE num[t] IN
     line' = Append(line, Number(n))
  /\ part' = [part EXCEPT ![t] = "end"]
  /\ Tear(t)
  /\ UNCHANGED <<round, num, shown>>

SendNum(t) ==
  /\ part[t] = "num"
  /\ line' = Append(line, Number(num[t]))
  /\ part' = [part EXCEPT ![t] = "end"]
  /\ Tear(t)
  /\ UNCHANGED <<round, num, shown>>

(* The display understands one prefix with digits behind it; the           *)
(* terminator of the weather text begins with a quotation mark.            *)
Understood(terminator) ==
  /\ Len(line) >= 2
  /\ "prefix" \in DOMAIN line[1]
  /\ \A i \in 2 .. Len(line) : "num" \in DOMAIN line[i]
  /\ line[1] = Prefix("weather") <=> terminator = "weather"

Taken == [component |-> line[1].prefix,
          numbers |-> [i \in 1 .. Len(line) - 1 |-> line[i + 1].num]]

(* Where a task goes after an instruction: the clock and the battery begin *)
(* again after a pause, the weather task deletes itself.                   *)
NextInstruction(t) ==
  LET last == round[t] + 1 = Len(Instructions[t]) IN
  /\ round' = [round EXCEPT ![t] = IF last THEN 0 ELSE @ + 1]
  /\ part' = [part EXCEPT ![t] =
       IF last /\ t = "weather" THEN "deleted" ELSE "prefix"]

(* Variant: the battery's instruction has no terminator.                   *)
SendEndNotBat(t) ==
  /\ part[t] = "end"
  /\ IF t = "adc"
       THEN UNCHANGED <<line, shown>>
       ELSE /\ shown' = IF Understood(Current(t)) THEN Taken ELSE Nothing
            /\ line' = <<>>
  /\ NextInstruction(t)
  /\ Tear(t)
  /\ UNCHANGED num

SendEnd(t) ==
  /\ part[t] = "end"
  /\ shown' = IF Understood(Current(t)) THEN Taken ELSE Nothing
  /\ line' = <<>>
  /\ NextInstruction(t)
  /\ Tear(t)
  /\ UNCHANGED num

Next == \E t \in Senders : SendPrefix(t) \/ SendNum(t) \/ SendEnd(t)

Spec == Init /\ [][Next]_vars

-----------------------------------------------------------------------------
(* Properties.                                                             *)

(* The display recovers: when no task is amid an instruction nothing is    *)
(* left of torn ones that could damage the next.                           *)
Recovers == InInstruction = {} => line = <<>>

(* t has sent its terminator and the display shows just what t has sent.   *)
Shows(t) == shown'.component = Current(t) /\ shown'.numbers = <<num[t]>>

Ends(t) == part[t] = "end" /\ part'[t] # "end"

(* Only an instruction that has met one of another task gets lost.         *)
OnlyTornLost == [][\A t \in Senders : Ends(t) /\ t \notin torn' => Shows(t)]_vars

(* The text of a number fits into num_string, with its terminator.         *)
NumFits ==
  \A t \in Senders :
    part[t] \in {"num", "end"} /\ Current(t) # "weather" =>
      ItoaLength(num[t]) <= NUM_STRING
=============================================================================
