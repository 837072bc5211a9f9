------------------------- MODULE UartDisplayProofs -------------------------
(***************************************************************************)
(* Proofs about UartDisplay for every set of senders, of voltages and of   *)
(* numbers, and about the table of the battery for every voltage.          *)
(***************************************************************************)
EXTENDS UartDisplay, FiniteSetTheorems, TLAPS

Components == {"month", "day", "hour", "minute", "bat", "weather", "temperature"}
AllNumbers == (UNION {NumbersOf(t) : t \in Senders}) \cup {0}
Strings == {Prefix(c) : c \in Components} \cup {Number(n) : n \in AllNumbers}

(* How many of the strings the display has collected can be those of t.    *)
Sent(t) ==
  IF t \notin Senders \/ part[t] \in {"prefix", "deleted"} THEN 0
  ELSE IF part[t] = "num" THEN 1 ELSE 2

ShapeInv ==
  /\ TypeOK
  /\ DOMAIN round = Senders /\ DOMAIN part = Senders /\ DOMAIN num = Senders
  /\ line \in Seq(Strings)
  /\ Len(line) <= Sent("rtc") + Sent("adc") + Sent("weather")

(* A task whose instruction has met no other is alone, and the display has *)
(* collected what that task has sent.                                      *)
WholeInv ==
  \A t \in InInstruction \ torn :
    /\ InInstruction = {t}
    /\ part[t] = "num" => Len(line) = 1 /\ line[1] = Prefix(Current(t))
    /\ part[t] = "end" => /\ Len(line) = 2
                         /\ line[1] = Prefix(Current(t)) /\ line[2] = Number(num[t])

DisplayInv == ShapeInv /\ Recovers /\ WholeInv

-----------------------------------------------------------------------------
USE DisplayAssumption

LEMMA SenderNames == Senders \subseteq {"rtc", "adc", "weather"}
  BY DEF DisplayAssumption, Instructions

LEMMA InstructionFacts ==
  ASSUME NEW t \in Senders
  PROVE  /\ Len(Instructions[t]) \in Nat \ {0}
         /\ \A i \in 1 .. Len(Instructions[t]) : Instructions[t][i] \in Components
<1>1. CASE t = "rtc"
  BY <1>1 DEF Instructions, Components
<1>2. CASE t = "adc"
  BY <1>2 DEF Instructions, Components
<1>3. CASE t = "weather"
  BY <1>3 DEF Instructions, Components
<1> QED BY <1>1, <1>2, <1>3, SenderNames

LEMMA CurrentFacts ==
  ASSUME TypeOK, NEW t \in Senders
  PROVE  Prefix(Current(t)) \in Strings /\ Number(num[t]) \in Strings
<1>1. round[t] \in 0 .. Len(Instructions[t]) - 1 /\ num[t] \in AllNumbers
  BY DEF TypeOK, AllNumbers
<1>2. Current(t) \in Components
  BY <1>1, InstructionFacts DEF Current
<1> QED BY <1>1, <1>2 DEF Strings

LEMMA ShapeInit == Init => ShapeInv
<1> SUFFICES ASSUME Init PROVE ShapeInv
    OBVIOUS
<1>1. /\ \A t \in Senders : round[t] = 0 /\ part[t] = "prefix" /\ num[t] = 0
      /\ line = <<>> /\ torn = {} /\ shown = Nothing
      /\ DOMAIN round = Senders /\ DOMAIN part = Senders /\ DOMAIN num = Senders
  BY DEF Init
<1>2. DOMAIN shown = {"component", "numbers"}
  BY <1>1 DEF Nothing
<1>3. TypeOK
  BY <1>1, <1>2, InstructionFacts DEF TypeOK
<1>4. Sent("rtc") = 0 /\ Sent("adc") = 0 /\ Sent("weather") = 0
  BY <1>1 DEF Sent
<1> QED BY <1>1, <1>3, <1>4 DEF ShapeInv

(* One of three numbers grows by one, the others stay.                     *)
LEMMA SumGrows ==
  ASSUME NEW a \in Nat, NEW b \in Nat, NEW c \in Nat,
         NEW a1 \in Nat, NEW b1 \in Nat, NEW c1 \in Nat, NEW n \in Nat,
         n <= a + b + c,
         \/ a1 = a + 1 /\ b1 = b /\ c1 = c
         \/ a1 = a /\ b1 = b + 1 /\ c1 = c
         \/ a1 = a /\ b1 = b /\ c1 = c + 1
  PROVE  n + 1 <= a1 + b1 + c1
  OBVIOUS

(* What the three steps of a task have in common.                          *)
LEMMA StepOf ==
  ASSUME ShapeInv, NEW t \in Senders,
         SendPrefix(t) \/ SendNum(t) \/ SendEnd(t)
  PROVE  /\ \A u \in Senders \ {t} :
              round'[u] = round[u] /\ part'[u] = part[u] /\ num'[u] = num[u]
         /\ DOMAIN round' = Senders /\ DOMAIN part' = Senders
         /\ DOMAIN num' = Senders
  BY DEF ShapeInv, SendPrefix, SendNum, SendEnd, NextInstruction

(* The place a task goes to and what the display has then.                 *)
LEMMA PrefixStep ==
  ASSUME ShapeInv, NEW t \in Senders, SendPrefix(t)
  PROVE  /\ part[t] = "prefix" /\ part'[t] = "num"
         /\ num'[t] \in NumbersOf(t) /\ UNCHANGED <<round, shown>>
         /\ line' = Append(line, Prefix(Current(t)))
         /\ torn' = IF InInstruction \ {t} = {} THEN torn \ {t}
                    ELSE torn \cup (InInstruction \ {t}) \cup {t}
  BY DEF ShapeInv, SendPrefix

LEMMA NumStep ==
  ASSUME ShapeInv, NEW t \in Senders, SendNum(t)
  PROVE  /\ part[t] = "num" /\ part'[t] = "end"
         /\ UNCHANGED <<round, num, shown>>
         /\ line' = Append(line, Number(num[t]))
         /\ torn' = IF InInstruction \ {t} = {} THEN torn
                    ELSE torn \cup (InInstruction \ {t}) \cup {t}
  BY DEF ShapeInv, SendNum, Tear

LEMMA EndStep ==
  ASSUME ShapeInv, NEW t \in Senders, SendEnd(t)
  PROVE  /\ part[t] = "end" /\ part'[t] \in {"prefix", "deleted"}
         /\ round'[t] \in 0 .. Len(Instructions[t]) - 1
         /\ UNCHANGED num /\ line' = <<>>
         /\ shown' = IF Understood(Current(t)) THEN Taken ELSE Nothing
         /\ torn' = IF InInstruction \ {t} = {} THEN torn
                    ELSE torn \cup (InInstruction \ {t}) \cup {t}
<1>1. round[t] \in 0 .. Len(Instructions[t]) - 1
      /\ Len(Instructions[t]) \in Nat \ {0}
  BY InstructionFacts DEF ShapeInv, TypeOK
<1>2. round' = [round EXCEPT ![t] =
        IF round[t] + 1 = Len(Instructions[t]) THEN 0 ELSE @ + 1]
  BY DEF SendEnd, NextInstruction
<1>3. round'[t] \in 0 .. Len(Instructions[t]) - 1
  BY <1>1, <1>2 DEF ShapeInv
<1>4. part'[t] \in {"prefix", "deleted"}
  BY DEF SendEnd, NextInstruction, ShapeInv
<1> QED BY <1>3, <1>4 DEF SendEnd, Tear

LEMMA ShapeStep == ShapeInv /\ [Next]_vars => ShapeInv'
<1> SUFFICES ASSUME ShapeInv, [Next]_vars PROVE ShapeInv'
    OBVIOUS
<1>1. CASE UNCHANGED vars
  BY <1>1 DEF vars, ShapeInv, TypeOK, Sent
<1>2. ASSUME NEW t \in Senders, SendPrefix(t) \/ SendNum(t) \/ SendEnd(t)
      PROVE  ShapeInv'
  <2>1. TypeOK /\ line \in Seq(Strings) /\ Len(line) \in Nat
        /\ Len(line) <= Sent("rtc") + Sent("adc") + Sent("weather")
    BY DEF ShapeInv
  <2>2. /\ \A u \in Senders \ {t} : /\ round'[u] = round[u]
                                    /\ part'[u] = part[u] /\ num'[u] = num[u]
        /\ DOMAIN round' = Senders /\ DOMAIN part' = Senders
        /\ DOMAIN num' = Senders
    BY <1>2, StepOf
  <2>3. /\ \A u : Sent(u) \in 0 .. 2
        /\ \A u : Sent(u)' \in 0 .. 2
        /\ \A u : u # t => Sent(u)' = Sent(u)
    BY <2>2 DEF Sent
  <2>4. t \in {"rtc", "adc", "weather"}
    BY SenderNames
  <2>5. /\ round'[t] \in 0 .. Len(Instructions[t]) - 1
        /\ part'[t] \in {"prefix", "num", "end", "deleted"}
        /\ num'[t] \in NumbersOf(t) \cup {0}
        /\ line' \in Seq(Strings)
        /\ Len(line') <= Sent("rtc")' + Sent("adc")' + Sent("weather")'
        /\ torn' \subseteq Senders
        /\ DOMAIN shown' = {"component", "numbers"}
    <3>1. InInstruction \subseteq Senders
      BY DEF InInstruction
    <3>2. CASE SendPrefix(t)
      <4>1. /\ line' = Append(line, Prefix(Current(t)))
            /\ Prefix(Current(t)) \in Strings
        BY <3>2, <2>1, PrefixStep, CurrentFacts
      <4>2. line' \in Seq(Strings) /\ Len(line') = Len(line) + 1
        BY <2>1, <4>1
      <4>3. Sent(t) = 0 /\ Sent(t)' = 1
        BY <3>2, PrefixStep DEF Sent
      <4>4. Len(line') <= Sent("rtc")' + Sent("adc")' + Sent("weather")'
        <5>1. Sent(t)' = Sent(t) + 1
          BY <4>3
        <5>2. \/ /\ Sent("rtc")' = Sent("rtc") + 1
                 /\ Sent("adc")' = Sent("adc") /\ Sent("weather")' = Sent("weather")
              \/ /\ Sent("adc")' = Sent("adc") + 1
                 /\ Sent("rtc")' = Sent("rtc") /\ Sent("weather")' = Sent("weather")
              \/ /\ Sent("weather")' = Sent("weather") + 1
                 /\ Sent("rtc")' = Sent("rtc") /\ Sent("adc")' = Sent("adc")
          BY <2>3, <2>4, <5>1
        <5>3. Len(line) + 1 <= Sent("rtc")' + Sent("adc")' + Sent("weather")'
          BY <2>1, <2>3, <5>2, SumGrows
        <5> QED BY <4>2, <5>3
      <4>5. /\ round[t] \in 0 .. Len(Instructions[t]) - 1
            /\ num[t] \in NumbersOf(t) \cup {0}
            /\ torn \subseteq Senders /\ DOMAIN shown = {"component", "numbers"}
        BY <2>1 DEF TypeOK
      <4>6. torn' \subseteq Senders
        BY <3>1, <3>2, <4>5, PrefixStep
      <4>7. /\ round'[t] \in 0 .. Len(Instructions[t]) - 1
            /\ part'[t] \in {"prefix", "num", "end", "deleted"}
            /\ num'[t] \in NumbersOf(t) \cup {0}
            /\ DOMAIN shown' = {"component", "numbers"}
        BY <3>2, <4>5, PrefixStep
      <4> QED BY <4>2, <4>4, <4>6, <4>7
    <3>3. CASE SendNum(t)
      <4>1. /\ line' = Append(line, Number(num[t]))
            /\ Number(num[t]) \in Strings
        BY <3>3, <2>1, NumStep, CurrentFacts
      <4>2. line' \in Seq(Strings) /\ Len(line') = Len(line) + 1
        BY <2>1, <4>1
      <4>3. Sent(t) = 1 /\ Sent(t)' = 2
        BY <3>3, NumStep DEF Sent
      <4>4. Len(line') <= Sent("rtc")' + Sent("adc")' + Sent("weather")'
        <5>1. Sent(t)' = Sent(t) + 1
          BY <4>3
        <5>2. \/ /\ Sent("rtc")' = Sent("rtc") + 1
                 /\ Sent("adc")' = Sent("adc") /\ Sent("weather")' = Sent("weather")
              \/ /\ Sent("adc")' = Sent("adc") + 1
                 /\ Sent("rtc")' = Sent("rtc") /\ Sent("weather")' = Sent("weather")
              \/ /\ Sent("weather")' = Sent("weather") + 1
                 /\ Sent("rtc")' = Sent("rtc") /\ Sent("adc")' = Sent("adc")
          BY <2>3, <2>4, <5>1
        <5>3. Len(line) + 1 <= Sent("rtc")' + Sent("adc")' + Sent("weather")'
          BY <2>1, <2>3, <5>2, SumGrows
        <5> QED BY <4>2, <5>3
      <4>5. /\ round[t] \in 0 .. Len(Instructions[t]) - 1
            /\ num[t] \in NumbersOf(t) \cup {0}
            /\ torn \subseteq Senders /\ DOMAIN shown = {"component", "numbers"}
        BY <2>1 DEF TypeOK
      <4>6. torn' \subseteq Senders
        BY <3>1, <3>3, <4>5, NumStep
      <4>7. /\ round'[t] \in 0 .. Len(Instructions[t]) - 1
            /\ part'[t] \in {"prefix", "num", "end", "deleted"}
            /\ num'[t] \in NumbersOf(t) \cup {0}
            /\ DOMAIN shown' = {"component", "numbers"}
        BY <3>3, <4>5, NumStep
      <4> QED BY <4>2, <4>4, <4>6, <4>7
    <3>4. CASE SendEnd(t)
      <4>1. line' = <<>>
        BY <3>4, EndStep
      <4>2. DOMAIN shown' = {"component", "numbers"}
        BY <3>4, EndStep DEF Taken, Nothing
      <4>3. line' \in Seq(Strings) /\ Len(line') = 0
        BY <4>1
      <4>4. /\ round'[t] \in 0 .. Len(Instructions[t]) - 1
            /\ part'[t] \in {"prefix", "num", "end", "deleted"}
            /\ num'[t] \in NumbersOf(t) \cup {0}
        BY <3>4, <2>1, EndStep DEF TypeOK
      <4>5. Len(line') <= Sent("rtc")' + Sent("adc")' + Sent("weather")'
        <5>1. /\ Sent("rtc")' \in Nat /\ Sent("adc")' \in Nat
              /\ Sent("weather")' \in Nat
          BY <2>3
        <5> QED BY <4>3, <5>1
      <4>6. torn' \subseteq Senders
        BY <3>1, <3>4, <2>1, EndStep DEF TypeOK
      <4> QED BY <4>2, <4>3, <4>4, <4>5, <4>6
    <3> QED BY <1>2, <3>2, <3>3, <3>4
  <2>6. Len(line') <= 6
    BY <2>3, <2>5
  <2>7. TypeOK'
    <3>1. ASSUME NEW u \in Senders
          PROVE  /\ round'[u] \in 0 .. Len(Instructions[u]) - 1
                 /\ part'[u] \in {"prefix", "num", "end", "deleted"}
                 /\ num'[u] \in NumbersOf(u) \cup {0}
      <4>1. CASE u = t
        BY <2>5, <4>1
      <4>2. CASE u # t
        <5>1. /\ round[u] \in 0 .. Len(Instructions[u]) - 1
              /\ part[u] \in {"prefix", "num", "end", "deleted"}
              /\ num[u] \in NumbersOf(u) \cup {0}
          BY <2>1 DEF TypeOK
        <5>2. round'[u] = round[u] /\ part'[u] = part[u] /\ num'[u] = num[u]
          BY <2>2, <4>2
        <5> QED BY <5>1, <5>2
      <4> QED BY <4>1, <4>2
    <3> QED BY <2>5, <2>6, <3>1 DEF TypeOK
  <2> QED BY <2>2, <2>5, <2>7 DEF ShapeInv
<1> QED BY <1>1, <1>2 DEF Next

(* The range of every variable; the display never collects more than six   *)
(* strings.                                                                *)
THEOREM TypeCorrect == Spec => []TypeOK
<1>1. ShapeInv => TypeOK
  BY DEF ShapeInv
<1> QED BY <1>1, ShapeInit, ShapeStep, PTL DEF Spec

-----------------------------------------------------------------------------
LEMMA WholeStep == DisplayInv /\ [Next]_vars => Recovers' /\ WholeInv'
<1> SUFFICES ASSUME DisplayInv, [Next]_vars PROVE Recovers' /\ WholeInv'
    OBVIOUS
<1>1. ShapeInv /\ Recovers /\ WholeInv
  BY DEF DisplayInv
<1>2. CASE UNCHANGED vars
  BY <1>1, <1>2 DEF vars, Recovers, WholeInv, InInstruction, Current
<1>3. ASSUME NEW t \in Senders, SendPrefix(t) \/ SendNum(t) \/ SendEnd(t)
      PROVE  Recovers' /\ WholeInv'
  <2>1. \A u \in Senders \ {t} :
          round'[u] = round[u] /\ part'[u] = part[u] /\ num'[u] = num[u]
    BY <1>1, <1>3, StepOf
  <2>2. InInstruction' \ {t} = InInstruction \ {t}
    BY <2>1 DEF InInstruction
  <2>3. /\ t \in Senders /\ InInstruction \subseteq Senders
        /\ t \in InInstruction <=> part[t] \in {"num", "end"}
        /\ t \in InInstruction' <=> part'[t] \in {"num", "end"}
    BY DEF InInstruction
  <2>4. CASE SendPrefix(t)
    <3>1. /\ part'[t] = "num" /\ round'[t] = round[t] /\ t \notin InInstruction
          /\ line' = Append(line, Prefix(Current(t)))
          /\ torn' = IF InInstruction \ {t} = {} THEN torn \ {t}
                     ELSE torn \cup (InInstruction \ {t}) \cup {t}
      BY <1>1, <2>3, <2>4, PrefixStep
    <3>2. t \in InInstruction'
      BY <2>3, <3>1
    <3>3. CASE InInstruction = {}
      <4>1. InInstruction' = {t} /\ line = <<>>
        BY <1>1, <2>2, <3>2, <3>3 DEF Recovers
      <4>2. Prefix(Current(t))' = Prefix(Current(t))
        BY <3>1, <2>4, <1>1, PrefixStep DEF Current
      <4>3. Len(line') = 1 /\ line'[1] = Prefix(Current(t))'
        BY <3>1, <4>1, <4>2
      <4> QED BY <3>1, <4>1, <4>3 DEF Recovers, WholeInv
    <3>4. CASE InInstruction # {}
      <4>1. InInstruction' \subseteq torn'
        BY <2>2, <3>1, <3>4
      <4> QED BY <3>2, <4>1 DEF Recovers, WholeInv
    <3> QED BY <3>3, <3>4
  <2>5. CASE SendNum(t)
    <3>1. /\ part[t] = "num" /\ part'[t] = "end"
          /\ UNCHANGED <<round, num>>
          /\ line' = Append(line, Number(num[t]))
          /\ torn' = IF InInstruction \ {t} = {} THEN torn
                     ELSE torn \cup (InInstruction \ {t}) \cup {t}
      BY <1>1, <2>5, NumStep
    <3>2. InInstruction' = InInstruction /\ t \in InInstruction
      <4>1. t \in InInstruction /\ t \in InInstruction'
        BY <2>3, <3>1
      <4>2. \A u : u \in InInstruction' <=> u \in InInstruction
        BY <2>2, <4>1
      <4> QED BY <4>1, <4>2
    <3>3. CASE InInstruction = {t} /\ t \notin torn
      <4>1. line \in Seq(Strings) /\ Len(line) = 1 /\ line[1] = Prefix(Current(t))
        BY <1>1, <3>1, <3>2, <3>3 DEF WholeInv, ShapeInv
      <4>2. /\ Len(line') = 2
            /\ line'[1] = Prefix(Current(t)) /\ line'[2] = Number(num[t])
        <5>1. Number(num[t]) \in Strings
          BY <1>1, CurrentFacts DEF ShapeInv
        <5>2. PICK n \in Strings : n = Number(num[t]) /\ line' = Append(line, n)
          BY <3>1, <5>1
        <5>3. /\ Len(line') = Len(line) + 1
              /\ \A i \in 1 .. Len(line) : line'[i] = line[i]
              /\ line'[Len(line) + 1] = n
          <6>1. line \in Seq(Strings)
            BY <4>1
          <6>2. /\ Len(Append(line, n)) = Len(line) + 1
                /\ \A i \in 1 .. Len(line) : Append(line, n)[i] = line[i]
                /\ Append(line, n)[Len(line) + 1] = n
            <7>1. Len(Append(line, n)) = Len(line) + 1
              BY <6>1
            <7>2. \A i \in 1 .. Len(line) : Append(line, n)[i] = line[i]
              BY <6>1
            <7>3. Append(line, n)[Len(line) + 1] = n
              BY <6>1
            <7> QED BY <7>1, <7>2, <7>3
          <6>3. line' = Append(line, n)
            BY <5>2
          <6> QED BY <6>2, <6>3
        <5>4. Len(line) = 1 /\ line[1] = Prefix(Current(t))
          BY <4>1
        <5>5. line'[1] = line[1]
          BY <5>3, <5>4
        <5>6. line'[2] = Number(num[t])
          BY <5>2, <5>3, <5>4
        <5>7. Len(line') = 2
          BY <5>3, <5>4
        <5> QED BY <5>4, <5>5, <5>6, <5>7
      <4>3. Prefix(Current(t))' = Prefix(Current(t)) /\ num'[t] = num[t]
        BY <3>1 DEF Current
      <4> QED BY <3>1, <3>2, <3>3, <4>2, <4>3 DEF Recovers, WholeInv
    <3>4. CASE ~(InInstruction = {t} /\ t \notin torn)
      <4>1. InInstruction' \subseteq torn'
        BY <3>1, <3>2, <3>4
      <4> QED BY <3>2, <4>1 DEF Recovers, WholeInv
    <3> QED BY <3>3, <3>4
  <2>6. CASE SendEnd(t)
    <3>1. /\ part'[t] \in {"prefix", "deleted"} /\ part[t] = "end"
          /\ line' = <<>>
          /\ torn' = IF InInstruction \ {t} = {} THEN torn
                     ELSE torn \cup (InInstruction \ {t}) \cup {t}
      BY <1>1, <2>6, EndStep
    <3>2. InInstruction' = InInstruction \ {t}
      BY <2>2, <2>3, <3>1
    <3>3. InInstruction' \subseteq torn'
      BY <3>1, <3>2
    <3> QED BY <3>1, <3>3 DEF Recovers, WholeInv
  <2> QED BY <1>3, <2>4, <2>5, <2>6
<1> QED BY <1>2, <1>3 DEF Next

LEMMA DisplayInvariant == Spec => []DisplayInv
<1>1. Init => DisplayInv
  <2> SUFFICES ASSUME Init PROVE DisplayInv
      OBVIOUS
  <2>1. line = <<>> /\ InInstruction = {}
    BY DEF Init, InInstruction
  <2> QED BY <2>1, ShapeInit DEF DisplayInv, Recovers, WholeInv
<1>2. DisplayInv /\ [Next]_vars => DisplayInv'
  BY ShapeStep, WholeStep DEF DisplayInv
<1> QED BY <1>1, <1>2, PTL DEF Spec

(* Torn instructions leave nothing behind: when no task is amid one the    *)
(* display has nothing collected.                                          *)
THEOREM LineRecovers == Spec => []Recovers
<1>1. DisplayInv => Recovers
  BY DEF DisplayInv
<1> QED BY <1>1, DisplayInvariant, PTL

(* An instruction that has met no other is shown just as it was sent.      *)
THEOREM WholeUnlessTorn == Spec => OnlyTornLost
<1>1. DisplayInv /\ [Next]_vars =>
        [\A t \in Senders : Ends(t) /\ t \notin torn' => Shows(t)]_vars
  <2> SUFFICES ASSUME DisplayInv, Next, NEW t \in Senders,
                      Ends(t), t \notin torn'
               PROVE  Shows(t)
      OBVIOUS
  <2>1. ShapeInv /\ WholeInv
    BY DEF DisplayInv
  <2>2. SendEnd(t)
    <3>1. PICK u \in Senders : SendPrefix(u) \/ SendNum(u) \/ SendEnd(u)
      BY DEF Next
    <3>2. u = t
      BY <2>1, <3>1, StepOf DEF Ends
    <3> QED BY <2>1, <3>1, <3>2, PrefixStep, NumStep DEF Ends
  <2>3. /\ part[t] = "end"
        /\ shown' = IF Understood(Current(t)) THEN Taken ELSE Nothing
        /\ t \notin torn
    BY <2>1, <2>2, EndStep
  <2>4. /\ Len(line) = 2
        /\ line[1] = Prefix(Current(t)) /\ line[2] = Number(num[t])
    BY <2>1, <2>3 DEF WholeInv, InInstruction
  <2>5. /\ DOMAIN line[1] = {"prefix"} /\ line[1].prefix = Current(t)
        /\ DOMAIN line[2] = {"num"} /\ line[2].num = num[t]
    BY <2>4 DEF Prefix, Number
  <2>6. line[1] = Prefix("weather") <=> Current(t) = "weather"
    <3>1. Prefix("weather").prefix = "weather"
      BY DEF Prefix
    <3> QED BY <2>4, <2>5, <3>1
  <2>7. Understood(Current(t))
    BY <2>4, <2>5, <2>6 DEF Understood
  <2>8. [i \in 1 .. Len(line) - 1 |-> line[i + 1].num] = <<num[t]>>
    BY <2>4, <2>5
  <2>9. shown' = Taken
    BY <2>3, <2>7
  <2>10. Taken.component = Current(t)
    BY <2>5 DEF Taken
  <2>11. Taken.numbers = <<num[t]>>
    <3>1. Taken.numbers = [i \in 1 .. Len(line) - 1 |-> line[i + 1].num]
      BY DEF Taken
    <3> QED BY <2>8, <3>1
  <2> QED BY <2>9, <2>10, <2>11 DEF Shows
<1> QED BY <1>1, DisplayInvariant, PTL DEF Spec, OnlyTornLost

-----------------------------------------------------------------------------
(* The numbers on the line.                                                *)

(* The chain of comparisons in Task_ADCGetVoltage.                         *)
Chain(v) ==
  IF v >= 4150 THEN 100
  ELSE IF v >= 4080 THEN 90
  ELSE IF v >= 3970 THEN 80
  ELSE IF v >= 3900 THEN 70
  ELSE IF v >= 3840 THEN 60
  ELSE IF v >= 3790 THEN 50
  ELSE IF v >= 3760 THEN 40
  ELSE IF v >= 3730 THEN 30
  ELSE IF v >= 3710 THEN 20
  ELSE IF v >= 3650 THEN 10 ELSE 0

(* A voltage that has reached one entry of the table more.                 *)
LEMMA OneMore ==
  ASSUME NEW u \in Int, NEW v \in Int, NEW w \in Thresholds,
         u < w, w <= v, \A t \in Thresholds : u < t /\ t <= v => t = w
  PROVE  BatPercent(v) = BatPercent(u) + 10
<1> DEFINE S == {v0 \in Thresholds : u >= v0}
           T == {v0 \in Thresholds : v >= v0}
           I == 0 .. u
<1>1. S \in SUBSET I
  BY DEF Thresholds
<1>2. \A t \in Thresholds : t \in Int
  BY DEF Thresholds
<1>3. w \notin S /\ T = S \cup {w}
  BY <1>2
<1> HIDE DEF S, T, I
<1>4. IsFiniteSet(S)
  <2>1. \A a, b \in Int : IsFiniteSet(a .. b)
    BY FS_Interval
  <2>2. IsFiniteSet(I)
    BY <2>1 DEF I
  <2> QED BY <1>1, <2>2, FS_Subset
<1>5. Cardinality(T) = Cardinality(S) + 1 /\ Cardinality(S) \in Nat
  BY <1>3, <1>4, FS_AddElement, FS_CardinalityType
<1> QED BY <1>5 DEF BatPercent, S, T

(* What BatPercent counts is what the chain of comparisons in              *)
(* Task_ADCGetVoltage finds, for every voltage.                            *)
THEOREM ChargeTable == \A v \in Int : BatPercent(v) = Chain(v)
<1>0. \A v \in Int : v < 3650 => BatPercent(v) = 0
  <2> SUFFICES ASSUME NEW v \in Int, v < 3650 PROVE BatPercent(v) = 0
      OBVIOUS
  <2> DEFINE S == {v0 \in Thresholds : v >= v0}
  <2>1. S = {}
    BY DEF Thresholds
  <2> HIDE DEF S
  <2>2. Cardinality(S) = 0
    BY <2>1, FS_EmptySet
  <2> QED BY <2>2 DEF BatPercent, S
<1>1. \A v \in Int : v >= 3650 /\ v < 3710 => BatPercent(v) = 10
  <2>1. BatPercent(3649) = 0
    BY <1>0
  <2> QED BY <2>1, OneMore DEF Thresholds
<1>2. \A v \in Int : v >= 3710 /\ v < 3730 => BatPercent(v) = 20
  <2>1. BatPercent(3709) = 10
    BY <1>1
  <2> QED BY <2>1, OneMore DEF Thresholds
<1>3. \A v \in Int : v >= 3730 /\ v < 3760 => BatPercent(v) = 30
  <2>1. BatPercent(3729) = 20
    BY <1>2
  <2> QED BY <2>1, OneMore DEF Thresholds
<1>4. \A v \in Int : v >= 3760 /\ v < 3790 => BatPercent(v) = 40
  <2>1. BatPercent(3759) = 30
    BY <1>3
  <2> QED BY <2>1, OneMore DEF Thresholds
<1>5. \A v \in Int : v >= 3790 /\ v < 3840 => BatPercent(v) = 50
  <2>1. BatPercent(3789) = 40
    BY <1>4
  <2> QED BY <2>1, OneMore DEF Thresholds
<1>6. \A v \in Int : v >= 3840 /\ v < 3900 => BatPercent(v) = 60
  <2>1. BatPercent(3839) = 50
    BY <1>5
  <2> QED BY <2>1, OneMore DEF Thresholds
<1>7. \A v \in Int : v >= 3900 /\ v < 3970 => BatPercent(v) = 70
  <2>1. BatPercent(3899) = 60
    BY <1>6
  <2> QED BY <2>1, OneMore DEF Thresholds
<1>8. \A v \in Int : v >= 3970 /\ v < 4080 => BatPercent(v) = 80
  <2>1. BatPercent(3969) = 70
    BY <1>7
  <2> QED BY <2>1, OneMore DEF Thresholds
<1>9. \A v \in Int : v >= 4080 /\ v < 4150 => BatPercent(v) = 90
  <2>1. BatPercent(4079) = 80
    BY <1>8
  <2> QED BY <2>1, OneMore DEF Thresholds
<1>10. \A v \in Int : v >= 4150 => BatPercent(v) = 100
  <2>1. BatPercent(4149) = 90
    BY <1>9
  <2> QED BY <2>1, OneMore DEF Thresholds
<1> QED BY <1>0, <1>1, <1>2, <1>3, <1>4, <1>5,
          <1>6, <1>7, <1>8, <1>9, <1>10 DEF Chain

(* uart_send_num has room for the numbers from -9 to 99, and for no other. *)
LEMMA RoomFor == \A n \in Int : ItoaLength(n) <= NUM_STRING <=> n \in -9 .. 99
  BY DEF ItoaLength, NUM_STRING

(* Only a full battery and numbers out of -9 to 99 overrun num_string: with *)
(* every other charge, date and temperature it holds what itoa writes.     *)
THEOREM OverrunNeedsFullOrCold ==
  ASSUME \A v \in Voltages : BatVoltage(v) < 4150, Numbers \subseteq -9 .. 99
  PROVE  Spec => []NumFits
<1>1. ASSUME NEW t \in Senders, NEW n \in NumbersOf(t) \cup {0}
      PROVE  n \in -9 .. 99
  <2>1. CASE t = "adc" /\ n # 0
    <3>1. PICK v \in Voltages : n = BatPercent(BatVoltage(v))
      BY <1>1, <2>1 DEF NumbersOf
    <3>2. BatVoltage(v) \in Int /\ BatVoltage(v) < 4150
      BY DEF BatVoltage, DisplayAssumption
    <3> QED BY <3>1, <3>2, ChargeTable DEF Chain
  <2>2. CASE t # "adc" \/ n = 0
    <3>1. n \in Numbers \cup {0}
      BY <1>1, <2>2 DEF NumbersOf
    <3> QED BY <3>1
  <2> QED BY <2>1, <2>2
<1>2. TypeOK => NumFits
  <2> SUFFICES ASSUME TypeOK, NEW t \in Senders
               PROVE  ItoaLength(num[t]) <= NUM_STRING
      BY DEF NumFits
  <2>1. num[t] \in NumbersOf(t) \cup {0}
    BY DEF TypeOK
  <2>2. num[t] \in -9 .. 99
    BY <1>1, <2>1
  <2> QED BY <2>2, RoomFor
<1> QED BY <1>2, TypeCorrect, PTL
=============================================================================
