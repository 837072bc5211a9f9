----------------------------- MODULE BootProofs -----------------------------
(***************************************************************************)
(* Proofs about HttpFetch, and about Boot, which extends it, for every     *)
(* size of the buffer, every set of lengths of responses and every size of *)
(* the pieces they arrive in.                                              *)
(***************************************************************************)
EXTENDS Boot, TLAPS

Waiting == {"absent", "missing", "delay"}

(* What a handler that is under way knows of its event; a task that waits  *)
(* has read nothing, and the first request is the time's.                  *)
HandlerInv ==
  /\ TypeOK
  /\ LastByteKept
  /\ \A t \in Tasks :
       /\ pc[t] \in Waiting => got[t] = 0
       /\ pc[t] \in {"copy", "store"} =>
            data_len[t] >= 1 /\ got[t] + data_len[t] <= body[t]
       /\ pc[t] = "store" => start[t] <= MAX_HTTP_OUTPUT_BUFFER
  /\ pc["time"] = "absent" => pc["weather"] = "absent"
  /\ pc["time"] = "delay" => pc["weather"] \in Waiting
  /\ pc["weather"] \in Waiting => overlap = FALSE

(* The first n bytes of a response, and NUL.                               *)
Filled(n) == [i \in Offsets |-> IF i < n THEN i + 1 ELSE 0]

(* The request of t is the only one: output_len and the buffer say how     *)
(* much of the response has arrived.                                       *)
Sound(t) ==
  /\ pc[t] \in Waiting \cup {"parse", "cleanup", "done"} => output_len = 0
  /\ pc[t] \in Waiting => buffer[t] = Empty
  /\ pc[t] \in {"perform", "copy", "store"} =>
       output_len = IF chunked[t] THEN 0
                    ELSE Min2(got[t], MAX_HTTP_OUTPUT_BUFFER)
  /\ pc[t] \in {"perform", "copy"} => buffer[t] = Filled(output_len)
  /\ pc[t] = "store" =>
       /\ ~chunked[t] /\ start[t] = output_len
       /\ buffer[t] =
            Filled(Min2(got[t] + data_len[t], MAX_HTTP_OUTPUT_BUFFER))
  /\ pc[t] = "parse" /\ got[t] = body[t] /\ ~chunked[t] =>
       buffer[t] = Filled(Min2(body[t], MAX_HTTP_OUTPUT_BUFFER))

(* Unless the requests have overlapped, one of them has not begun or the   *)
(* other one is over.                                                      *)
AloneInv ==
  overlap = FALSE =>
    \/ /\ pc["weather"] \in Waiting
       /\ buffer["weather"] = Empty /\ Sound("time")
    \/ /\ pc["weather"] \notin Waiting
       /\ pc["time"] \in {"done", "missing"} /\ Sound("weather")

FetchInv == HandlerInv /\ AloneInv

-----------------------------------------------------------------------------
USE FetchAssumption DEF FetchAssumption, Waiting

LEMMA LengthsAreNat == Lengths \cup {0} \subseteq Nat
  OBVIOUS

LEMMA EmptyIsBuffer ==
  /\ Empty \in [Offsets -> Nat]
  /\ Empty[MAX_HTTP_OUTPUT_BUFFER] = 0
  BY DEF Empty, Offsets

(* memset leaves a buffer, with its last byte.                             *)
LEMMA ClearedIsBuffer ==
  ASSUME NEW buf \in [Offsets -> Nat]
  PROVE  /\ Cleared(buf) \in [Offsets -> Nat]
         /\ Cleared(buf)[MAX_HTTP_OUTPUT_BUFFER] = buf[MAX_HTTP_OUTPUT_BUFFER]
  BY DEF Cleared, Offsets

(* memcpy within the length that CopyLen allows leaves the last byte.      *)
LEMMA CopiedIsBuffer ==
  ASSUME NEW buf \in [Offsets -> Nat],
         NEW len \in Nat, NEW n \in Nat, NEW first \in Nat,
         n <= MAX_HTTP_OUTPUT_BUFFER - len
  PROVE  /\ Copied(buf, len, n, first) \in [Offsets -> Nat]
         /\ Copied(buf, len, n, first)[MAX_HTTP_OUTPUT_BUFFER]
              = buf[MAX_HTTP_OUTPUT_BUFFER]
<1>1. \A i \in Offsets : i \in Nat /\ buf[i] \in Nat
  BY DEF Offsets
<1>2. \A i \in Offsets : i \in len .. len + n - 1 => first + i - len \in Nat
  BY <1>1
<1>3. MAX_HTTP_OUTPUT_BUFFER \in Offsets
  BY DEF Offsets
<1>4. MAX_HTTP_OUTPUT_BUFFER \notin len .. len + n - 1
  OBVIOUS
<1> QED BY <1>1, <1>2, <1>3, <1>4 DEF Copied

LEMMA CopyLenRange ==
  ASSUME TypeOK, NEW t \in Tasks, NEW len \in Nat,
         len <= MAX_HTTP_OUTPUT_BUFFER
  PROVE  CopyLen(t, len) \in Nat
         /\ CopyLen(t, len) <= MAX_HTTP_OUTPUT_BUFFER - len
  BY DEF TypeOK, CopyLen, Min2

LEMMA HandlerInit == Init => HandlerInv
<1> SUFFICES ASSUME Init PROVE HandlerInv
    OBVIOUS
<1>1. overlap \in BOOLEAN /\ chunked \in [Tasks -> BOOLEAN]
  BY Zenon DEF Init
<1>2. TypeOK
  BY <1>1, EmptyIsBuffer DEF Init, TypeOK
<1>3. LastByteKept
  BY EmptyIsBuffer DEF Init, LastByteKept
<1> QED BY <1>2, <1>3 DEF Init, HandlerInv, Tasks

LEMMA HandlerRestart == Restart => HandlerInv'
<1> SUFFICES ASSUME Restart PROVE HandlerInv'
    OBVIOUS
<1>1. overlap' \in BOOLEAN /\ chunked' \in [Tasks -> BOOLEAN]
  BY Zenon DEF Restart
<1>2. TypeOK'
  BY <1>1, EmptyIsBuffer DEF Restart, TypeOK
<1>3. LastByteKept'
  BY EmptyIsBuffer DEF Restart, LastByteKept
<1> QED BY <1>2, <1>3 DEF Restart, HandlerInv, Tasks

LEMMA HandlerStep == HandlerInv /\ [Next]_vars => HandlerInv'
<1> SUFFICES ASSUME HandlerInv, [Next]_vars PROVE HandlerInv'
    OBVIOUS
<1>1. TypeOK
  BY DEF HandlerInv
<1>2. CASE UNCHANGED vars
  BY <1>2 DEF vars, HandlerInv, TypeOK, LastByteKept
<1>14. CASE ChipRestarts
  BY <1>14, HandlerRestart DEF ChipRestarts
<1> SUFFICES ASSUME NEW t \in Tasks,
                    \/ Create(t) \/ Begin(t) \/ OnData(t) \/ OnDataCopy(t)
                    \/ OnDataChunked(t) \/ OnDataPanic(t) \/ OnDataStore(t)
                    \/ OnFinish(t) \/ Fail(t) \/ Parse(t) \/ ParsePanic(t)
                    \/ Cleanup(t)
             PROVE  HandlerInv'
    BY <1>2, <1>14 DEF Next
<1> USE DEF HandlerInv, TypeOK, LastByteKept, At, Goto, Tasks, Min2
<1>15. CASE Create(t)
  BY <1>1, <1>15 DEF Create
<1>3. CASE Begin(t)
  <2>1. overlap' \in BOOLEAN /\ chunked' \in [Tasks -> BOOLEAN]
    <3>1. overlap' \in BOOLEAN
      BY <1>3, Zenon DEF Begin
    <3>2. chunked' \in [Tasks -> BOOLEAN]
      BY <1>1, <1>3 DEF Begin
    <3> QED BY <3>1, <3>2
  <2>2. body' \in [Tasks -> Lengths \cup {0}]
        /\ \A u \in Tasks : got'[u] <= body'[u]
    BY <1>1, <1>3 DEF Begin
  <2>3. t = "weather" => pc["time"] # "delay"
    BY <1>3 DEF Begin
  <2>4. t = "time" => overlap' = FALSE
    BY <1>3 DEF Begin
  <2>5. pc' = [pc EXCEPT ![t] = "perform"]
    BY <1>3 DEF Begin
  <2> QED BY <1>1, <1>3, <2>1, <2>2, <2>3, <2>4, <2>5 DEF Begin
<1>4. CASE OnData(t)
  <2>1. /\ buffer' \in [Tasks -> [Offsets -> Nat]]
        /\ \A u \in Tasks : buffer'[u][MAX_HTTP_OUTPUT_BUFFER] = 0
    BY <1>1, <1>4, ClearedIsBuffer DEF OnData
  <2>2. PICK n \in 1 .. Min2(MaxData, body[t] - got[t]) :
              data_len' = [data_len EXCEPT ![t] = n]
    BY <1>4 DEF OnData
  <2>3. n \in 0 .. MaxData /\ n >= 1 /\ got[t] + n <= body[t]
    <3>1. body[t] \in Lengths \cup {0} /\ got[t] \in Nat
      BY <1>1
    <3> HIDE DEF HandlerInv, TypeOK, LastByteKept
    <3>2. body[t] \in Nat
      BY <3>1, LengthsAreNat
    <3> QED BY <3>1, <3>2
  <2>4. data_len' \in [Tasks -> 0 .. MaxData] /\ data_len'[t] = n
    BY <1>1, <2>2, <2>3
  <2>5. \A u \in Tasks : u # t => data_len'[u] = data_len[u]
    BY <1>1, <2>2
  <2>6. /\ pc' = [pc EXCEPT ![t] = "copy"]
        /\ UNCHANGED <<output_len, body, chunked, got, start, overlap>>
        /\ pc[t] = "perform"
    BY <1>4 DEF OnData
  <2> QED BY <1>1, <2>1, <2>3, <2>4, <2>5, <2>6
<1>5. CASE OnDataCopy(t)
  <2>1. CopyLen(t, output_len) \in Nat
        /\ CopyLen(t, output_len) <= MAX_HTTP_OUTPUT_BUFFER - output_len
    BY <1>1, <1>5, CopyLenRange DEF OnDataCopy
  <2> DEFINE b == Copied(buffer[t], output_len, CopyLen(t, output_len),
                         got[t] + 1)
  <2>2. b \in [Offsets -> Nat] /\ b[MAX_HTTP_OUTPUT_BUFFER] = 0
    <3>1. /\ buffer[t] \in [Offsets -> Nat] /\ output_len \in Nat
          /\ got[t] + 1 \in Nat /\ buffer[t][MAX_HTTP_OUTPUT_BUFFER] = 0
      BY <1>1
    <3> HIDE DEF HandlerInv, TypeOK, LastByteKept, Min2
    <3> QED BY <2>1, <3>1, CopiedIsBuffer
  <2>3. buffer' = [buffer EXCEPT ![t] = b]
    BY <1>5 DEF OnDataCopy
  <2> HIDE DEF b
  <2>4. /\ buffer' \in [Tasks -> [Offsets -> Nat]]
        /\ \A u \in Tasks : buffer'[u][MAX_HTTP_OUTPUT_BUFFER] = 0
    BY <1>1, <2>2, <2>3
  <2> QED BY <1>1, <1>5, <2>4 DEF OnDataCopy
<1>6. CASE OnDataChunked(t)
  BY <1>1, <1>6 DEF OnDataChunked
<1>7. CASE OnDataPanic(t)
  BY <1>7, HandlerRestart DEF OnDataPanic
<1>8. CASE OnDataStore(t)
  <2>1. CopyLen(t, start[t]) \in Nat
    BY <1>1, <1>8, CopyLenRange DEF OnDataStore
  <2>2. output_len' \in Nat
    BY <1>1, <1>8, <2>1 DEF OnDataStore
  <2> QED BY <1>1, <1>8, <2>2 DEF OnDataStore
<1>9. CASE OnFinish(t)
  BY <1>1, <1>9 DEF OnFinish
<1>10. CASE Fail(t)
  BY <1>1, <1>10 DEF Fail
<1>11. CASE Parse(t)
  BY <1>1, <1>11 DEF Parse
<1>12. CASE ParsePanic(t)
  BY <1>12, HandlerRestart DEF ParsePanic
<1>13. CASE Cleanup(t)
  BY <1>1, <1>13 DEF Cleanup
<1> QED BY <1>3, <1>4, <1>5, <1>6, <1>7, <1>8, <1>9, <1>10, <1>11, <1>12,
           <1>13, <1>15

(* The range of every variable, even with overlapping requests.            *)
THEOREM TypeCorrect == Spec => []TypeOK
<1> HandlerInv => TypeOK
    BY DEF HandlerInv
<1> QED BY HandlerInit, HandlerStep, PTL DEF Spec

(* No copy reaches the byte that is kept for the NUL, whatever overlapping *)
(* requests do to output_len.                                              *)
THEOREM NulStays == Spec => []LastByteKept
<1> HandlerInv => LastByteKept
    BY DEF HandlerInv
<1> QED BY HandlerInit, HandlerStep, PTL DEF Spec

-----------------------------------------------------------------------------
(* A request that is alone.                                                *)

LEMMA FilledZero == Filled(0) = Empty /\ Cleared(Filled(0)) = Filled(0)
  BY DEF Filled, Empty, Cleared, Offsets

(* What is copied continues what is there.                                 *)
LEMMA CopiedFills ==
  ASSUME NEW m \in Nat, NEW d \in Nat \ {0}
  PROVE  LET len == Min2(m, MAX_HTTP_OUTPUT_BUFFER)
             n == Min2(d, MAX_HTTP_OUTPUT_BUFFER - len)
         IN  /\ Copied(Filled(len), len, n, m + 1)
                  = Filled(Min2(m + d, MAX_HTTP_OUTPUT_BUFFER))
             /\ len + n = Min2(m + d, MAX_HTTP_OUTPUT_BUFFER)
<1> DEFINE len == Min2(m, MAX_HTTP_OUTPUT_BUFFER)
           n == Min2(d, MAX_HTTP_OUTPUT_BUFFER - len)
           whole == Min2(m + d, MAX_HTTP_OUTPUT_BUFFER)
<1>1. len + n = whole /\ len \in Nat /\ n \in Nat /\ whole \in Nat
  BY DEF Min2
<1>2. n # 0 => len = m
  BY DEF Min2
<1> HIDE DEF len, n, whole
<1>3. \A i \in Offsets :
        (IF i \in len .. len + n - 1 THEN m + 1 + i - len
         ELSE IF i < len THEN i + 1 ELSE 0)
          = IF i < whole THEN i + 1 ELSE 0
  BY <1>1, <1>2 DEF Offsets
<1>4. Copied(Filled(len), len, n, m + 1) = Filled(whole)
  BY <1>3 DEF Copied, Filled
<1> QED BY <1>1, <1>4 DEF len, n, whole

(* A step of the request keeps it sound.                                   *)
LEMMA SoundStep ==
  ASSUME HandlerInv, NEW t \in Tasks, Sound(t),
         \/ Create(t) \/ Begin(t)
         \/ OnData(t) \/ OnDataCopy(t) \/ OnDataChunked(t)
         \/ OnDataStore(t) \/ OnFinish(t) \/ Fail(t) \/ Parse(t) \/ Cleanup(t)
  PROVE  Sound(t)'
<1>1. /\ buffer \in [Tasks -> [Offsets -> Nat]] /\ DOMAIN pc = Tasks
      /\ got \in [Tasks -> Nat] /\ start \in [Tasks -> Nat]
      /\ data_len \in [Tasks -> 0 .. MaxData]
      /\ body \in [Tasks -> Lengths \cup {0}]
      /\ DOMAIN chunked = Tasks
  BY DEF HandlerInv, TypeOK
<1>2. got[t] \in Nat /\ body[t] \in Nat /\ data_len[t] \in Nat
  <2>1. /\ got[t] \in Nat /\ data_len[t] \in 0 .. MaxData
        /\ body[t] \in Lengths \cup {0}
    BY <1>1
  <2>2. body[t] \in Nat
    BY <2>1, LengthsAreNat, Zenon
  <2> QED BY <2>1, <2>2
<1>3. /\ pc[t] \in Waiting => got[t] = 0
      /\ pc[t] \in {"copy", "store"} => data_len[t] \in Nat \ {0}
  BY <1>2 DEF HandlerInv
<1>4. Min2(0, MAX_HTTP_OUTPUT_BUFFER) = 0
  BY DEF Min2
<1>5. CASE Begin(t)
  <2>1. /\ pc[t] = "delay" /\ pc'[t] = "perform"
        /\ UNCHANGED <<output_len, buffer, got>>
    BY <1>1, <1>5 DEF Begin, At, Goto
  <2>2. output_len = 0 /\ got[t] = 0 /\ buffer[t] = Filled(0)
    BY <2>1, <1>3, FilledZero DEF Sound
  <2> QED BY <2>1, <2>2, <1>4 DEF Sound
<1>6. CASE OnData(t)
  <2>1. /\ pc[t] = "perform" /\ pc'[t] = "copy"
        /\ UNCHANGED <<output_len, body, chunked, got>>
        /\ buffer'[t] = IF output_len = 0 THEN Cleared(buffer[t])
                        ELSE buffer[t]
    BY <1>1, <1>6 DEF OnData, At, Goto
  <2>2. buffer[t] = Filled(output_len)
    BY <2>1 DEF Sound
  <2>3. buffer'[t] = Filled(output_len)
    BY <2>1, <2>2, FilledZero
  <2> QED BY <2>1, <2>3 DEF Sound
<1>7. CASE OnDataCopy(t)
  <2>1. /\ pc[t] = "copy" /\ pc'[t] = "store" /\ ~chunked[t]
        /\ UNCHANGED <<output_len, body, chunked, got, data_len>>
        /\ start'[t] = output_len
        /\ buffer'[t] =
             Copied(buffer[t], output_len, CopyLen(t, output_len), got[t] + 1)
    BY <1>1, <1>7 DEF OnDataCopy, At, Goto
  <2>2. /\ output_len = Min2(got[t], MAX_HTTP_OUTPUT_BUFFER)
        /\ buffer[t] = Filled(output_len)
    BY <2>1 DEF Sound
  <2>3. buffer'[t] =
          Filled(Min2(got[t] + data_len[t], MAX_HTTP_OUTPUT_BUFFER))
    <3>1. got[t] \in Nat /\ data_len[t] \in Nat \ {0}
      BY <2>1, <1>2, <1>3
    <3>2. Copied(Filled(output_len), output_len,
                 Min2(data_len[t], MAX_HTTP_OUTPUT_BUFFER - output_len),
                 got[t] + 1)
            = Filled(Min2(got[t] + data_len[t], MAX_HTTP_OUTPUT_BUFFER))
      BY <2>2, <3>1, CopiedFills
    <3> QED BY <2>1, <2>2, <3>2 DEF CopyLen
  <2> QED BY <2>1, <2>2, <2>3 DEF Sound
<1>8. CASE OnDataChunked(t)
  <2>1. /\ pc[t] = "copy" /\ pc'[t] = "perform" /\ chunked[t]
        /\ UNCHANGED <<output_len, buffer, chunked>>
    BY <1>1, <1>8 DEF OnDataChunked, At, Goto
  <2> QED BY <2>1 DEF Sound
<1>9. CASE OnDataStore(t)
  <2>1. /\ pc[t] = "store" /\ pc'[t] = "perform"
        /\ UNCHANGED <<buffer, chunked>>
        /\ got'[t] = got[t] + data_len[t]
        /\ output_len' \in
             {len + CopyLen(t, start[t]) : len \in {output_len, start[t]}}
    BY <1>1, <1>9 DEF OnDataStore, At, Goto
  <2>2. /\ ~chunked[t] /\ start[t] = output_len
        /\ output_len = Min2(got[t], MAX_HTTP_OUTPUT_BUFFER)
        /\ buffer[t] =
             Filled(Min2(got[t] + data_len[t], MAX_HTTP_OUTPUT_BUFFER))
    BY <2>1 DEF Sound
  <2>3. output_len' = output_len + CopyLen(t, output_len)
    BY <2>1, <2>2
  <2>4. output_len' = Min2(got[t] + data_len[t], MAX_HTTP_OUTPUT_BUFFER)
    BY <2>1, <2>2, <2>3, <1>2, <1>3, CopiedFills DEF CopyLen
  <2> QED BY <2>1, <2>2, <2>4 DEF Sound
<1>10. CASE OnFinish(t)
  <2>1. /\ pc[t] = "perform" /\ pc'[t] = "parse" /\ output_len' = 0
        /\ got[t] = body[t] /\ UNCHANGED <<buffer, body, chunked, got>>
    BY <1>1, <1>10 DEF OnFinish, At, Goto
  <2> QED BY <2>1 DEF Sound
<1>11. CASE Fail(t)
  <2>1. /\ pc[t] = "perform" /\ pc'[t] = "parse" /\ got[t] < body[t]
        /\ UNCHANGED <<buffer, body, chunked, got>>
        /\ \/ got[t] = 0 /\ UNCHANGED output_len
           \/ output_len' = 0
    BY <1>1, <1>11 DEF Fail, At, Goto
  <2>2. output_len' = 0
    BY <2>1, <1>4 DEF Sound
  <2>3. got'[t] # body'[t]
    BY <2>1, <1>2
  <2> QED BY <2>1, <2>2, <2>3 DEF Sound
<1>12. CASE Parse(t)
  <2>1. pc[t] = "parse" /\ pc'[t] = "cleanup" /\ UNCHANGED output_len
    BY <1>1, <1>12 DEF Parse, At, Goto
  <2> QED BY <2>1 DEF Sound
<1>13. CASE Cleanup(t)
  <2>1. /\ pc[t] = "cleanup" /\ pc'[t] = "done"
        /\ output_len' \in {0, output_len}
    BY <1>1, <1>13 DEF Cleanup, At, Goto
  <2> QED BY <2>1 DEF Sound
<1>14. CASE Create(t)
  <2>1. /\ pc[t] = "absent" /\ pc'[t] \in {"delay", "missing"}
        /\ UNCHANGED <<output_len, buffer>>
    BY <1>1, <1>14 DEF Create, Goto
  <2> QED BY <2>1 DEF Sound
<1> QED BY <1>5, <1>6, <1>7, <1>8, <1>9, <1>10, <1>11, <1>12, <1>13, <1>14

(* A request touches the buffer and the place of no other one.             *)
LEMMA OthersStay ==
  ASSUME HandlerInv, NEW t \in Tasks, NEW u \in Tasks, u # t,
         \/ Create(t) \/ Begin(t)
         \/ OnData(t) \/ OnDataCopy(t) \/ OnDataChunked(t)
         \/ OnDataStore(t) \/ OnFinish(t) \/ Fail(t) \/ Parse(t) \/ Cleanup(t)
  PROVE  pc'[u] = pc[u] /\ buffer'[u] = buffer[u]
<1>1. buffer \in [Tasks -> [Offsets -> Nat]] /\ DOMAIN pc = Tasks
  BY DEF HandlerInv, TypeOK
<1> QED BY <1>1 DEF Create, Begin, OnData, OnDataCopy, OnDataChunked,
                    OnDataStore, OnFinish, Fail, Parse, Cleanup, Goto

LEMMA AloneInit == Init => AloneInv
  BY DEF Init, AloneInv, Sound, Tasks

LEMMA AloneRestart == Restart => AloneInv'
  BY DEF Restart, AloneInv, Sound, Tasks

LEMMA AloneStep == HandlerInv /\ AloneInv /\ [Next]_vars => AloneInv'
<1> SUFFICES ASSUME HandlerInv, AloneInv, [Next]_vars PROVE AloneInv'
    OBVIOUS
<1>1. CASE UNCHANGED vars
  BY <1>1 DEF vars, AloneInv, Sound
<1>2. CASE Restart
  BY <1>2, AloneRestart
<1>3. ASSUME NEW t \in Tasks,
             \/ Create(t) \/ Begin(t)
             \/ OnData(t) \/ OnDataCopy(t) \/ OnDataChunked(t)
             \/ OnDataStore(t) \/ OnFinish(t) \/ Fail(t) \/ Parse(t)
             \/ Cleanup(t)
      PROVE  AloneInv'
  <2> SUFFICES ASSUME overlap' = FALSE
               PROVE  \/ /\ pc'["weather"] \in Waiting
                         /\ buffer'["weather"] = Empty /\ Sound("time")'
                      \/ /\ pc'["weather"] \notin Waiting
                         /\ pc'["time"] \in {"done", "missing"}
                         /\ Sound("weather")'
      BY DEF AloneInv
  <2>1. DOMAIN pc = Tasks
    BY DEF HandlerInv, TypeOK
  <2>2. /\ pc[t] \notin {"done", "missing"}
        /\ pc'[t] \in Waiting <=> Create(t)
    BY <1>3, <2>1 DEF Create, Begin, OnData, OnDataCopy, OnDataChunked,
                      OnDataStore, OnFinish, Fail, Parse, Cleanup, At, Goto
  <2>3. \/ Begin(t) \/ overlap = FALSE
    BY <1>3 DEF Create, OnData, OnDataCopy, OnDataChunked, OnDataStore,
                OnFinish, Fail, Parse, Cleanup
  <2>4. Begin(t) => /\ pc[t] = "delay"
                    /\ t = "weather" => pc["time"] \in {"done", "missing"}
    BY DEF Begin, At
  <2>5. overlap = FALSE
    BY <2>3, <2>4 DEF HandlerInv, Tasks
  <2>6. \/ /\ pc["weather"] \in Waiting
           /\ buffer["weather"] = Empty /\ Sound("time")
        \/ /\ pc["weather"] \notin Waiting
           /\ pc["time"] \in {"done", "missing"} /\ Sound("weather")
    BY <2>5 DEF AloneInv
  <2>7. CASE t = "time"
    <3>1. /\ pc["weather"] \in Waiting
          /\ buffer["weather"] = Empty /\ Sound("time")
      BY <2>2, <2>6, <2>7
    <3>2. Sound("time")'
      BY <1>3, <2>7, <3>1, SoundStep
    <3>3. pc'["weather"] = pc["weather"] /\ buffer'["weather"] = buffer["weather"]
      BY <1>3, <2>7, OthersStay DEF Tasks
    <3> QED BY <3>1, <3>2, <3>3
  <2>8. CASE t = "weather" /\ Create(t)
    <3>1. pc["weather"] = "absent" /\ UNCHANGED <<output_len, buffer, start>>
          /\ UNCHANGED <<body, chunked, got, data_len>>
          /\ pc'["weather"] \in Waiting /\ pc'["time"] = pc["time"]
      BY <2>1, <2>8 DEF Create, Goto, Tasks
    <3>2. buffer["weather"] = Empty /\ Sound("time")
      BY <2>6, <3>1
    <3> QED BY <3>1, <3>2 DEF Sound
  <2>9. CASE t = "weather" /\ ~Create(t)
    <3>1. pc["time"] \in {"done", "missing"} /\ Sound("weather")
      <4>1. CASE pc["weather"] \in Waiting
        <5>1. Begin(t)
          BY <1>3, <2>9, <4>1 DEF OnData, OnDataCopy, OnDataChunked,
             OnDataStore, OnFinish, Fail, Parse, Cleanup, At
        <5>2. /\ pc["time"] \in {"done", "missing"}
              /\ buffer["weather"] = Empty /\ Sound("time")
          BY <2>4, <2>6, <2>9, <4>1, <5>1
        <5>3. output_len = 0
          BY <5>2 DEF Sound
        <5> QED BY <4>1, <5>2, <5>3 DEF Sound
      <4>2. CASE pc["weather"] \notin Waiting
        BY <2>6, <4>2
      <4> QED BY <4>1, <4>2
    <3>2. Sound("weather")'
      BY <1>3, <2>9, <3>1, SoundStep
    <3>3. pc'["time"] = pc["time"]
      BY <1>3, <2>9, OthersStay DEF Tasks
    <3> QED BY <2>2, <2>9, <3>1, <3>2, <3>3
  <2> QED BY <2>7, <2>8, <2>9 DEF Tasks
<1> QED BY <1>1, <1>2, <1>3 DEF Next, ChipRestarts, OnDataPanic, ParsePanic

(* Unless the two requests have been under way at the same time, a request *)
(* that succeeds finds its response in its buffer, for every size of the   *)
(* buffer and every way the response comes in pieces.                      *)
THEOREM ResponseKept == Spec => []IntactUnlessOverlap
<1>1. Init => FetchInv
  BY HandlerInit, AloneInit DEF FetchInv
<1>2. FetchInv /\ [Next]_vars => FetchInv'
  BY HandlerStep, AloneStep DEF FetchInv
<1>3. FetchInv => IntactUnlessOverlap
  <2> SUFFICES ASSUME FetchInv, overlap = FALSE, NEW t \in Tasks,
                      pc[t] = "parse", got[t] = body[t], ~chunked[t],
                      NEW i \in Offsets
               PROVE  buffer[t][i] =
                        IF i < Min2(body[t], MAX_HTTP_OUTPUT_BUFFER)
                        THEN i + 1 ELSE 0
      BY Zenon DEF IntactUnlessOverlap, ResponseIntact, FetchInv, HandlerInv,
                   TypeOK
  <2>1. Sound(t)
    BY DEF FetchInv, AloneInv, Tasks
  <2>2. buffer[t] = Filled(Min2(body[t], MAX_HTTP_OUTPUT_BUFFER))
    BY <2>1 DEF Sound
  <2> QED BY <2>2 DEF Filled
<1> QED BY <1>1, <1>2, <1>3, PTL DEF Spec

-----------------------------------------------------------------------------
(* The start of the device.                                                *)

LEMMA BootStepFetches == [BootNext]_allVars => [Next]_vars
<1> SUFFICES ASSUME [BootNext]_allVars PROVE [Next]_vars
    OBVIOUS
<1>1. CASE UNCHANGED allVars
  BY <1>1 DEF allVars
<1>2. CASE Main
  BY <1>2 DEF Main, MainCall, NvsUnusable, MainAborts, MainGivesUp, AppStartUp,
              CreateHttp, CreateRtc, CreateAdc, Abort, Next
<1>3. CASE App
  BY <1>3 DEF App, AppReceives, AppStage, AppAborts, Abort, Next
<1>4. CASE PhoneAsks \/ GapConfirms \/ PhoneGivesUp
  BY <1>4 DEF PhoneAsks, GapConfirms, PhoneGivesUp, PairingEnds
<1>5. CASE AdcCalibrates \/ AdcAborts \/ PowerFails
  BY <1>5 DEF AdcCalibrates, AdcAborts, PowerFails, Abort, Next
<1>6. ASSUME NEW t \in Tasks, HttpTask(t) \/ HttpPanics(t)
      PROVE  Next
  BY <1>6 DEF HttpTask, HttpPanics, Next
<1> QED BY <1>1, <1>2, <1>3, <1>4, <1>5, <1>6 DEF BootNext, Main, App

(* The requests of a device that starts, and starts again after every      *)
(* failure of any of its parts, are those of HttpFetch.                    *)
THEOREM BootImplementsFetch == BootSpec => Spec
<1>1. BootInit => Init
  BY DEF BootInit
<1> QED BY <1>1, BootStepFetches, PTL DEF BootSpec, Spec

(* What is proved of them holds from every start on.                       *)
THEOREM BootFetchCorrect ==
  BootSpec => [](TypeOK /\ IntactUnlessOverlap /\ LastByteKept)
  BY BootImplementsFetch, TypeCorrect, ResponseKept, NulStays, PTL

(* What app_main has reached says what is set up, and the stage of the     *)
(* handler which callbacks are known.                                      *)
ProgressInv ==
  /\ "queue" \in ready =>
       main_pc \in {"dispatch", "netif", "connect", "uart", "time", "weather",
                   "rtc", "adc", "amplifier", "returned"}
  /\ "queue" \in ready \/ main_pc = "start_up" => "stack" \in ready
  /\ main_pc \in {"uart", "time", "weather", "rtc", "adc"} => "network" \in ready
  /\ main_pc \in {"time", "weather", "rtc", "adc"} => "uart" \in ready
  /\ app \in Stages \cup {"done"} => "message" \in ready
  /\ app \in {"ct", "tg", "caps", "a2d", "scan", "done"} =>
       {"dev", "gap"} \subseteq registered
  /\ app \in {"tg", "caps", "a2d", "scan", "done"} => "ct" \in registered
  /\ app \in {"caps", "a2d", "scan", "done"} => "tg" \in registered
  /\ app \in {"scan", "done"} => {"a2d", "data"} \subseteq registered
  /\ discoverable => app = "done"

BootInv == BootTypeOK /\ SetUpBeforeUse /\ ProgressInv

LEMMA BootInvInit == BootInit => BootInv
  BY DEF BootInit, Init, BootInv, BootTypeOK, SetUpBeforeUse, ProgressInv,
         Stages, StageAfter, Calls, After, Tasks

LEMMA BootInvRestart == ChipRestarts /\ BootRestart => BootInv'
  BY DEF ChipRestarts, Restart, BootRestart, BootInv, BootTypeOK,
         SetUpBeforeUse, ProgressInv, Stages, StageAfter, Calls, After, Tasks

LEMMA CallsAre ==
  /\ Calls = {"nvs", "erase", "nvs_again", "release", "controller",
              "bluedroid", "start_up", "dispatch", "netif", "connect", "uart",
              "time", "weather", "rtc", "adc", "amplifier"}
  /\ \A c \in Calls : After[c] \in Calls \cup {"returned"}
  BY DEF Calls, After

LEMMA StagesAre ==
  /\ Stages = {"gap", "ct", "tg", "caps", "a2d", "scan"}
  /\ \A s \in Stages : StageAfter[s] \in Stages \cup {"done"}
  /\ \A s \in Stages : Registers[s] \subseteq Callbacks
  BY DEF Stages, StageAfter, Registers, Callbacks

LEMMA SetsUpIs ==
  ASSUME NEW c \in Calls
  PROVE  /\ SetsUp(c) \subseteq Resources
         /\ "queue" \in SetsUp(c) <=> c = "start_up"
         /\ c = "bluedroid" => "stack" \in SetsUp(c)
         /\ c = "connect" => "network" \in SetsUp(c)
         /\ c = "uart" => "uart" \in SetsUp(c)
<1>1. SetsUp(c) \subseteq Resources
  BY DEF Resources
<1> QED BY <1>1 DEF SetsUp

(* app_main goes on: what is set up grows in the right order.              *)
LEMMA MainKeeps ==
  ASSUME BootInv, main_pc \in Calls, MainGoesOn,
         UNCHANGED <<registered, discoverable, pairing>>,
         \/ main_pc # "start_up" /\ UNCHANGED app
         \/ main_pc = "start_up" /\ app' \in {"wait", "missing"}
  PROVE  /\ app' # "absent" <=> "queue" \in ready'
         /\ ready' \subseteq Resources /\ ready \subseteq ready'
         /\ main_pc' \in Calls \cup {"returned"}
         /\ app' \in Stages \cup {"absent", "missing", "wait", "done"}
         /\ app' \in Stages \cup {"done"} =>
              {"stack", "queue", "message"} \subseteq ready'
         /\ ProgressInv'
<1>1. /\ main_pc' = After[main_pc]
      /\ ready' = ready \cup SetsUp(main_pc)
  BY DEF MainGoesOn
<1>2. /\ ready' \subseteq Resources /\ ready \subseteq ready'
      /\ main_pc' \in Calls \cup {"returned"}
      /\ app' \in Stages \cup {"absent", "missing", "wait", "done"}
  BY <1>1, SetsUpIs, CallsAre DEF BootInv, BootTypeOK
<1>3. app' # "absent" <=> "queue" \in ready'
  BY <1>1, SetsUpIs DEF BootInv, BootTypeOK
<1>4. app' \in Stages \cup {"done"} =>
        {"stack", "queue", "message"} \subseteq ready'
  BY <1>2, StagesAre DEF BootInv, SetUpBeforeUse
<1>5. "queue" \in ready' \/ main_pc' = "start_up" => "stack" \in ready'
  <2>1. main_pc' = "start_up" => main_pc = "bluedroid"
    BY <1>1, CallsAre DEF After
  <2> QED BY <1>1, <2>1, SetsUpIs DEF BootInv, ProgressInv
<1>6. main_pc' \in {"uart", "time", "weather", "rtc", "adc"} =>
        "network" \in ready'
  <2>1. main_pc' \in {"uart", "time", "weather", "rtc", "adc"} =>
          main_pc \in {"connect", "uart", "time", "weather", "rtc", "adc"}
    BY <1>1, CallsAre DEF After
  <2> QED BY <1>1, <2>1, SetsUpIs DEF BootInv, ProgressInv
<1>7. main_pc' \in {"time", "weather", "rtc", "adc"} => "uart" \in ready'
  <2>1. main_pc' \in {"time", "weather", "rtc", "adc"} =>
          main_pc \in {"uart", "time", "weather", "rtc", "adc"}
    BY <1>1, CallsAre DEF After
  <2> QED BY <1>1, <2>1, SetsUpIs DEF BootInv, ProgressInv
<1>8. "queue" \in ready' =>
        main_pc' \in {"dispatch", "netif", "connect", "uart", "time",
                     "weather", "rtc", "adc", "amplifier", "returned"}
  <2>1. main_pc \in {"start_up", "dispatch", "netif", "connect", "uart", "time",
                    "weather", "rtc", "adc", "amplifier"} =>
        main_pc' \in {"dispatch", "netif", "connect", "uart", "time",
                     "weather", "rtc", "adc", "amplifier", "returned"}
    BY <1>1, CallsAre DEF After
  <2>2. "queue" \in ready' => "queue" \in ready \/ main_pc = "start_up"
    BY <1>1, SetsUpIs
  <2>3. main_pc # "returned"
    BY CallsAre
  <2> QED BY <2>1, <2>2, <2>3 DEF BootInv, ProgressInv
<1>9. main_pc = "start_up" => app = "absent"
  BY DEF BootInv, ProgressInv, BootTypeOK
<1>10. /\ app' \in {"ct", "tg", "caps", "a2d", "scan", "done"} =>
            {"dev", "gap"} \subseteq registered'
       /\ app' \in {"tg", "caps", "a2d", "scan", "done"} => "ct" \in registered'
       /\ app' \in {"caps", "a2d", "scan", "done"} => "tg" \in registered'
       /\ app' \in {"scan", "done"} => {"a2d", "data"} \subseteq registered'
       /\ discoverable' => app' = "done"
  BY <1>1, <1>9, SetsUpIs DEF BootInv, ProgressInv, BootTypeOK
<1> QED BY <1>2, <1>3, <1>4, <1>5, <1>6, <1>7, <1>8, <1>10 DEF ProgressInv

LEMMA BootInvMain == BootInv /\ TypeOK /\ Main => BootInv'
<1> SUFFICES ASSUME BootInv, TypeOK, Main PROVE BootInv'
    OBVIOUS
<1>1. /\ BootTypeOK /\ SetUpBeforeUse /\ ProgressInv
      /\ DOMAIN pc = Tasks
  BY DEF BootInv, TypeOK
<1>2. CASE MainCall
  <2>1. /\ main_pc \in Calls /\ main_pc # "start_up" /\ MainGoesOn
        /\ UNCHANGED <<pc, app, registered, discoverable, rtc, adc, pairing>>
    BY <1>2 DEF MainCall, vars
  <2>3. /\ app' # "absent" <=> "queue" \in ready'
        /\ ready' \subseteq Resources /\ ready \subseteq ready'
        /\ main_pc' \in Calls \cup {"returned"}
        /\ app' \in Stages \cup {"absent", "missing", "wait", "done"}
        /\ app' \in Stages \cup {"done"} =>
             {"stack", "queue", "message"} \subseteq ready'
        /\ ProgressInv'
    BY <2>1, MainKeeps
  <2> QED BY <1>1, <2>1, <2>3 DEF BootInv, BootTypeOK, SetUpBeforeUse
<1>3. CASE NvsUnusable
  <2>1. /\ main_pc = "nvs" /\ main_pc' = "erase"
        /\ UNCHANGED <<pc, ready, app, registered, discoverable, rtc, adc,
                       pairing>>
    BY <1>3 DEF NvsUnusable, vars
  <2> QED BY <1>1, <2>1, CallsAre
          DEF BootInv, BootTypeOK, SetUpBeforeUse, ProgressInv
<1>4. CASE MainAborts
  BY <1>4, BootInvRestart DEF MainAborts, Abort
<1>5. CASE MainGivesUp
  <2>1. /\ main_pc \in {"controller", "bluedroid"} /\ main_pc' = "given_up"
        /\ UNCHANGED <<pc, ready, app, registered, discoverable, rtc, adc,
                       pairing>>
    BY <1>5 DEF MainGivesUp, Returning, vars
  <2> QED BY <1>1, <2>1 DEF BootInv, BootTypeOK, SetUpBeforeUse, ProgressInv
<1>6. CASE AppStartUp
  <2>1. /\ main_pc \in Calls /\ main_pc = "start_up" /\ MainGoesOn
        /\ app' \in {"wait", "missing"}
        /\ UNCHANGED <<pc, registered, discoverable, rtc, adc, pairing>>
    BY <1>6, CallsAre DEF AppStartUp, vars
  <2>3. /\ app' # "absent" <=> "queue" \in ready'
        /\ ready' \subseteq Resources /\ ready \subseteq ready'
        /\ main_pc' \in Calls \cup {"returned"}
        /\ app' \in Stages \cup {"absent", "missing", "wait", "done"}
        /\ app' \in Stages \cup {"done"} =>
             {"stack", "queue", "message"} \subseteq ready'
        /\ ProgressInv'
    BY <2>1, MainKeeps
  <2> QED BY <1>1, <2>1, <2>3 DEF BootInv, BootTypeOK, SetUpBeforeUse
<1>7. CASE CreateHttp
  <2>1. /\ main_pc \in Calls /\ main_pc # "start_up" /\ MainGoesOn
        /\ main_pc \in {"time", "weather"}
        /\ UNCHANGED <<app, registered, discoverable, rtc, adc, pairing>>
    BY <1>7, CallsAre DEF CreateHttp, Tasks
  <2>2. \A t \in Tasks : pc'[t] # "absent" => {"network", "uart"} \subseteq ready'
    <3>1. {"network", "uart"} \subseteq ready /\ ready \subseteq ready'
      BY <1>1, <2>1, MainKeeps DEF ProgressInv
    <3> QED BY <3>1
  <2>3. /\ app' # "absent" <=> "queue" \in ready'
        /\ ready' \subseteq Resources /\ ready \subseteq ready'
        /\ main_pc' \in Calls \cup {"returned"}
        /\ app' \in Stages \cup {"absent", "missing", "wait", "done"}
        /\ app' \in Stages \cup {"done"} =>
             {"stack", "queue", "message"} \subseteq ready'
        /\ ProgressInv'
    BY <2>1, MainKeeps
  <2> QED BY <1>1, <2>1, <2>2, <2>3 DEF BootInv, BootTypeOK, SetUpBeforeUse
<1>8. CASE CreateRtc
  <2>1. /\ main_pc \in Calls /\ main_pc = "rtc" /\ MainGoesOn
        /\ rtc' \in {"running", "missing"}
        /\ UNCHANGED <<pc, app, registered, discoverable, adc, pairing>>
    BY <1>8, CallsAre DEF CreateRtc, vars
  <2>2. "uart" \in ready
    BY <1>1, <2>1 DEF ProgressInv
  <2>3. /\ app' # "absent" <=> "queue" \in ready'
        /\ ready' \subseteq Resources /\ ready \subseteq ready'
        /\ main_pc' \in Calls \cup {"returned"}
        /\ app' \in Stages \cup {"absent", "missing", "wait", "done"}
        /\ app' \in Stages \cup {"done"} =>
             {"stack", "queue", "message"} \subseteq ready'
        /\ ProgressInv'
    BY <2>1, MainKeeps
  <2> QED BY <1>1, <2>1, <2>2, <2>3 DEF BootInv, BootTypeOK, SetUpBeforeUse
<1>9. CASE CreateAdc
  <2>1. /\ main_pc \in Calls /\ main_pc = "adc" /\ MainGoesOn
        /\ adc' \in {"init", "missing"}
        /\ UNCHANGED <<pc, app, registered, discoverable, rtc, pairing>>
    BY <1>9, CallsAre DEF CreateAdc, vars
  <2>2. "uart" \in ready
    BY <1>1, <2>1 DEF ProgressInv
  <2>3. /\ app' # "absent" <=> "queue" \in ready'
        /\ ready' \subseteq Resources /\ ready \subseteq ready'
        /\ main_pc' \in Calls \cup {"returned"}
        /\ app' \in Stages \cup {"absent", "missing", "wait", "done"}
        /\ app' \in Stages \cup {"done"} =>
             {"stack", "queue", "message"} \subseteq ready'
        /\ ProgressInv'
    BY <2>1, MainKeeps
  <2> QED BY <1>1, <2>1, <2>2, <2>3 DEF BootInv, BootTypeOK, SetUpBeforeUse
<1> QED BY <1>2, <1>3, <1>4, <1>5, <1>6, <1>7, <1>8, <1>9 DEF Main

LEMMA BootInvApp == BootInv /\ App => BootInv'
<1> SUFFICES ASSUME BootInv, App PROVE BootInv'
    OBVIOUS
<1>1. BootTypeOK /\ SetUpBeforeUse /\ ProgressInv
  BY DEF BootInv
<1>2. CASE AppReceives
  <2>1. /\ app = "wait" /\ app' = "gap" /\ "message" \in ready
        /\ UNCHANGED <<pc, main_pc, ready, registered, discoverable, rtc, adc,
                       pairing>>
    BY <1>2 DEF AppReceives, vars
  <2>2. {"stack", "queue"} \subseteq ready
    BY <1>1, <2>1 DEF BootTypeOK, ProgressInv
  <2> QED BY <1>1, <2>1, <2>2, StagesAre
          DEF BootInv, BootTypeOK, SetUpBeforeUse, ProgressInv
<1>3. CASE AppStage
  <2>1. /\ app \in Stages /\ app' = StageAfter[app]
        /\ registered' = registered \cup Registers[app]
        /\ discoverable' = (app = "scan")
        /\ UNCHANGED <<pc, main_pc, ready, rtc, adc, pairing>>
    BY <1>3 DEF AppStage, vars
  <2>2. BootTypeOK'
    <3>1. discoverable' \in BOOLEAN
      BY <2>1
    <3>2. registered' \subseteq Callbacks
      BY <1>1, <2>1, StagesAre DEF BootTypeOK
    <3>3. app' \in Stages \cup {"done"}
      BY <2>1, StagesAre
    <3> QED BY <1>1, <2>1, <3>1, <3>2, <3>3, StagesAre DEF BootTypeOK
  <2>3. SetUpBeforeUse'
    BY <1>1, <2>1 DEF SetUpBeforeUse
  <2>4. /\ app' = "done" <=> app = "scan"
        /\ app' = "scan" <=> app = "a2d"
        /\ app' = "a2d" <=> app = "caps"
        /\ app' = "caps" <=> app = "tg"
        /\ app' = "tg" <=> app = "ct"
        /\ app' = "ct" <=> app = "gap"
    BY <2>1, StagesAre DEF StageAfter
  <2>5. /\ app = "gap" => {"dev", "gap"} \subseteq Registers[app]
        /\ app = "ct" => "ct" \in Registers[app]
        /\ app = "tg" => "tg" \in Registers[app]
        /\ app = "a2d" => {"a2d", "data"} \subseteq Registers[app]
    BY DEF Registers
  <2>6. ProgressInv'
    BY <1>1, <2>1, <2>4, <2>5 DEF ProgressInv
  <2> QED BY <2>2, <2>3, <2>6 DEF BootInv
<1>4. CASE AppAborts
  BY <1>4, BootInvRestart DEF AppAborts, Abort
<1> QED BY <1>2, <1>3, <1>4 DEF App

LEMMA BootInvStep == BootInv /\ TypeOK /\ [BootNext]_allVars => BootInv'
<1> SUFFICES ASSUME BootInv, TypeOK, [BootNext]_allVars PROVE BootInv'
    OBVIOUS
<1>1. /\ BootTypeOK /\ SetUpBeforeUse /\ ProgressInv
      /\ DOMAIN pc = Tasks
  BY DEF BootInv, TypeOK
<1>2. CASE UNCHANGED allVars
  BY <1>1, <1>2 DEF allVars, vars, bootVars, BootInv, BootTypeOK,
                    SetUpBeforeUse, ProgressInv
<1>3. CASE Main
  BY <1>3, BootInvMain
<1>4. CASE App
  BY <1>4, BootInvApp
<1>5. CASE PhoneAsks \/ GapConfirms \/ PhoneGivesUp
  <2>1. /\ UNCHANGED <<pc, main_pc, ready, app, registered, discoverable, rtc,
                       adc>>
        /\ pairing' \in {"none", "asked"}
    BY <1>5 DEF PhoneAsks, GapConfirms, PhoneGivesUp, PairingEnds, vars
  <2> QED BY <1>1, <2>1 DEF BootInv, BootTypeOK, SetUpBeforeUse, ProgressInv
<1>6. CASE AdcCalibrates
  <2>1. /\ UNCHANGED <<pc, main_pc, ready, app, registered, discoverable, rtc,
                       pairing>>
        /\ adc = "init" /\ adc' \in {"running", "blind"}
    BY <1>6 DEF AdcCalibrates, vars
  <2> QED BY <1>1, <2>1 DEF BootInv, BootTypeOK, SetUpBeforeUse, ProgressInv
<1>7. CASE AdcAborts \/ PowerFails
  BY <1>7, BootInvRestart DEF AdcAborts, PowerFails, Abort
<1>8. ASSUME NEW t \in Tasks, HttpTask(t)
      PROVE  BootInv'
  <2>1. UNCHANGED bootVars
    BY <1>8 DEF HttpTask
  <2>2. /\ pc[t] # "absent"
        /\ \A u \in Tasks : u # t => pc'[u] = pc[u]
    BY <1>1, <1>8 DEF HttpTask, Begin, OnData, OnDataCopy, OnDataChunked,
       OnDataStore, OnFinish, Fail, Parse, Cleanup, At, Goto
  <2>3. \A u \in Tasks : pc'[u] # "absent" => pc[u] # "absent"
    BY <2>2
  <2> QED BY <1>1, <2>1, <2>3 DEF bootVars, BootInv, BootTypeOK,
             SetUpBeforeUse, ProgressInv
<1>9. ASSUME NEW t \in Tasks, HttpPanics(t)
      PROVE  BootInv'
  BY <1>9, BootInvRestart DEF HttpPanics, OnDataPanic, ParsePanic, ChipRestarts
<1> QED BY <1>2, <1>3, <1>4, <1>5, <1>6, <1>7, <1>8, <1>9 DEF BootNext, Main, App

LEMMA BootInvariant == BootSpec => []BootInv
  BY BootInvInit, BootInvStep, BootFetchCorrect, PTL DEF BootSpec

(* The range of every variable of the start.                               *)
THEOREM BootTypeCorrect == BootSpec => []BootTypeOK
<1> BootInv => BootTypeOK
    BY DEF BootInv
<1> QED BY BootInvariant, PTL

(* Neither the application task, nor a request, nor a task that sends runs *)
(* ahead of app_main, across any number of restarts.                       *)
THEOREM NothingRunsAhead == BootSpec => []SetUpBeforeUse
<1> BootInv => SetUpBeforeUse
    BY DEF BootInv
<1> QED BY BootInvariant, PTL

(* A phone never finds a device that does not listen to it.                *)
THEOREM EveryCallbackKnown == BootSpec => []HeardFromTheFirst
<1> BootInv => HeardFromTheFirst
    BY DEF BootInv, BootTypeOK, ProgressInv, HeardFromTheFirst, Callbacks
<1> QED BY BootInvariant, PTL
=============================================================================
