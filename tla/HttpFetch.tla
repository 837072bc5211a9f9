----------------------------- MODULE HttpFetch -----------------------------
(***************************************************************************)
(* The two requests after power-on, for the time and for the weather, each *)
(* in a task of its own with a buffer of its own, and the event handler    *)
(* both requests use, which keeps the number of bytes read in a static     *)
(* variable. The tasks share a core; the time task has the higher priority *)
(* and may interrupt the weather task anywhere, but is not interrupted by  *)
(* it in the middle of an event.                                           *)
(*                                                                         *)
(* A byte is the position it has in the response, 0 is the NUL character.  *)
(***************************************************************************)
EXTENDS Integers

CONSTANTS
  MAX_HTTP_OUTPUT_BUFFER,
  Lengths,     (* the lengths of responses                                  *)
  MaxData      (* most bytes that arrive in one HTTP_EVENT_ON_DATA          *)

ASSUME FetchAssumption ==
  /\ MAX_HTTP_OUTPUT_BUFFER \in Nat \ {0}
  /\ Lengths \subseteq Nat \ {0} /\ Lengths # {}
  /\ MaxData \in Nat \ {0}

Tasks == {"time", "weather"}
Offsets == 0 .. MAX_HTTP_OUTPUT_BUFFER
Empty == [i \in Offsets |-> 0]

VARIABLES
  output_len,   (* the static variable of _http_event_handler               *)
  buffer,       (* local_response_buffer                                    *)
  body,         (* the length of the response, 0 before there is one        *)
  chunked,      (* is it sent in chunks?                                    *)
  got,          (* how much of it has arrived                               *)
  data_len,     (* how much arrives with the event that is handled          *)
  start,        (* output_len as the handler has read it                    *)
  pc,           (* where the task stands                                    *)
  overlap       (* was the first request under way when the second began?   *)

vars == <<output_len, buffer, body, chunked, got, data_len, start, pc,
          overlap>>

Min2(a, b) == IF a <= b THEN a ELSE b

(* How much the handler copies; negative when len is out of range.         *)
CopyLen(t, len) == Min2(data_len[t], MAX_HTTP_OUTPUT_BUFFER - len)

(* The range of every variable.                                            *)
TypeOK ==
  /\ output_len \in Nat
  /\ buffer \in [Tasks -> [Offsets -> Nat]]
  /\ body \in [Tasks -> Lengths \cup {0}]
  /\ chunked \in [Tasks -> BOOLEAN]
  /\ got \in [Tasks -> Nat]
  /\ \A t \in Tasks : got[t] <= body[t]
  /\ data_len \in [Tasks -> 0 .. MaxData]
  /\ start \in [Tasks -> Nat]
  /\ pc \in [Tasks -> {"absent", "missing", "delay", "perform", "copy",
                       "store", "parse", "cleanup", "done"}]
  /\ overlap \in BOOLEAN

Init ==
  /\ output_len = 0
  /\ buffer = [t \in Tasks |-> Empty]
  /\ body = [t \in Tasks |-> 0]
  /\ chunked = [t \in Tasks |-> FALSE]
  /\ got = [t \in Tasks |-> 0]
  /\ data_len = [t \in Tasks |-> 0]
  /\ start = [t \in Tasks |-> 0]
  /\ pc = [t \in Tasks |-> "absent"]
  /\ overlap = FALSE

(* A panic, or the loss of power.                                          *)
Restart ==
  /\ output_len' = 0
  /\ buffer' = [t \in Tasks |-> Empty]
  /\ body' = [t \in Tasks |-> 0]
  /\ chunked' = [t \in Tasks |-> FALSE]
  /\ got' = [t \in Tasks |-> 0]
  /\ data_len' = [t \in Tasks |-> 0]
  /\ start' = [t \in Tasks |-> 0]
  /\ pc' = [t \in Tasks |-> "absent"]
  /\ overlap' = FALSE

Goto(t, place) == pc' = [pc EXCEPT ![t] = place]

(* The weather task does not run while the time task handles an event.     *)
At(t, place) ==
  /\ pc[t] = place
  /\ t = "weather" => pc["time"] \notin {"copy", "store"}

-----------------------------------------------------------------------------
(* Task_HttpGetTime, Task_HttpGetWeather and the requests they make.       *)

(* app_main creates the time task first and looks at neither result: a     *)
(* task there is no memory for is missing.                                 *)
Create(t) ==
  /\ pc[t] = "absent"
  /\ t = "weather" => pc["time"] # "absent"
  /\ \E place \in {"delay", "missing"} : Goto(t, place)
  /\ UNCHANGED <<output_len, buffer, body, chunked, got, data_len, start,
                 overlap>>

(* The delays of 5 and of 10 seconds put the time first. The request for   *)
(* it has a timeout of 60 seconds.                                         *)
Begin(t) ==
  /\ At(t, "delay")
  /\ t = "weather" => pc["time"] # "delay"
  /\ overlap' = (t = "weather" /\ pc["time"] \notin {"done", "missing"})
  /\ \E n \in Lengths : body' = [body EXCEPT ![t] = n]
  /\ Goto(t, "perform")
  /\ \E c \in BOOLEAN : chunked' = [chunked EXCEPT ![t] = c]
  /\ UNCHANGED <<output_len, buffer, got, data_len, start>>

Cleared(buf) ==
  [i \in Offsets |-> IF i < MAX_HTTP_OUTPUT_BUFFER THEN 0 ELSE buf[i]]

(* HTTP_EVENT_ON_DATA: the buffer, without its last byte, is cleared if    *)
(* the request is new, to judge by output_len.                             *)
OnData(t) ==
  /\ At(t, "perform") /\ got[t] < body[t]
  /\ \E n \in 1 .. Min2(MaxData, body[t] - got[t]) :
       data_len' = [data_len EXCEPT ![t] = n]
  /\ buffer' = IF output_len = 0 THEN [buffer EXCEPT ![t] = Cleared(@)]
                                 ELSE buffer
  /\ Goto(t, "copy")
  /\ UNCHANGED <<output_len, body, chunked, got, start, overlap>>

(* A buffer after n bytes, from the given one on, were copied to an offset. *)
Copied(buf, offset, n, first) ==
  [i \in Offsets |-> IF i \in offset .. offset + n - 1
                     THEN first + i - offset ELSE buf[i]]

(* Variant: whatever arrives is copied.                                    *)
OnDataCopyAll(t) ==
  /\ At(t, "copy") /\ ~chunked[t]
  /\ output_len <= MAX_HTTP_OUTPUT_BUFFER
  /\ start' = [start EXCEPT ![t] = output_len]
  /\ buffer' = [buffer EXCEPT
       ![t] = Copied(@, output_len, data_len[t], got[t] + 1)]
  /\ Goto(t, "store")
  /\ UNCHANGED <<output_len, body, chunked, got, data_len, overlap>>

(* The text has output_len twice, for the length and for the address. It   *)
(* is read once: nothing between the two makes the compiler, with -Og,     *)
(* read it again.                                                          *)
OnDataCopy(t) ==
  /\ At(t, "copy") /\ ~chunked[t]
  /\ output_len <= MAX_HTTP_OUTPUT_BUFFER
  /\ start' = [start EXCEPT ![t] = output_len]
  /\ buffer' = [buffer EXCEPT
       ![t] = Copied(@, output_len, CopyLen(t, output_len), got[t] + 1)]
  /\ Goto(t, "store")
  /\ UNCHANGED <<output_len, body, chunked, got, data_len, overlap>>

(* The data of a response in chunks is not copied.                         *)
OnDataChunked(t) ==
  /\ At(t, "copy") /\ chunked[t]
  /\ got' = [got EXCEPT ![t] = @ + data_len[t]]
  /\ Goto(t, "perform")
  /\ UNCHANGED <<output_len, buffer, body, chunked, data_len, start, overlap>>

(* memcpy with a negative length.                                          *)
OnDataPanic(t) ==
  /\ At(t, "copy") /\ ~chunked[t]
  /\ output_len > MAX_HTTP_OUTPUT_BUFFER
  /\ Restart

(* output_len is read again for the addition, or kept in a register.       *)
OnDataStore(t) ==
  /\ At(t, "store")
  /\ output_len' \in {len + CopyLen(t, start[t]) : len \in {output_len, start[t]}}
  /\ got' = [got EXCEPT ![t] = @ + data_len[t]]
  /\ Goto(t, "perform")
  /\ UNCHANGED <<buffer, body, chunked, data_len, start, overlap>>

(* Variant: the number is left for the next event to find.                 *)
OnFinishKeeps(t) ==
  /\ At(t, "perform") /\ got[t] = body[t]
  /\ Goto(t, "parse")
  /\ UNCHANGED <<output_len, buffer, body, chunked, got, data_len, start,
                 overlap>>

(* HTTP_EVENT_ON_FINISH.                                                   *)
OnFinish(t) ==
  /\ At(t, "perform") /\ got[t] = body[t]
  /\ output_len' = 0
  /\ Goto(t, "parse")
  /\ UNCHANGED <<buffer, body, chunked, got, data_len, start, overlap>>

(* The server cannot be reached, or, with HTTP_EVENT_DISCONNECTED, the     *)
(* connection breaks or times out. The result of the request is not looked *)
(* at.                                                                     *)
Fail(t) ==
  /\ At(t, "perform") /\ got[t] < body[t]
  /\ \/ got[t] = 0 /\ UNCHANGED output_len
     \/ output_len' = 0
  /\ Goto(t, "parse")
  /\ UNCHANGED <<buffer, body, chunked, got, data_len, start, overlap>>

(* The values of the response are used; a damaged text may parse, too.     *)
Parse(t) ==
  /\ At(t, "parse")
  /\ buffer[t] # Empty
  /\ Goto(t, "cleanup")
  /\ UNCHANGED <<output_len, buffer, body, chunked, got, data_len, start,
                 overlap>>

(* The text does not parse, or an item is missing from it: NULL is         *)
(* dereferenced.                                                           *)
ParsePanic(t) ==
  /\ At(t, "parse")
  /\ Restart

(* esp_http_client_cleanup: HTTP_EVENT_DISCONNECTED, if still connected.   *)
Cleanup(t) ==
  /\ At(t, "cleanup")
  /\ output_len' \in {0, output_len}
  /\ Goto(t, "done")
  /\ UNCHANGED <<buffer, body, chunked, got, data_len, start, overlap>>

(* The power fails, or another part of the program panics.                 *)
ChipRestarts == Restart

Next ==
  \/ \E t \in Tasks :
       \/ Create(t) \/ Begin(t)
       \/ OnData(t) \/ OnDataCopy(t) \/ OnDataChunked(t) \/ OnDataPanic(t)
       \/ OnDataStore(t) \/ OnFinish(t) \/ Fail(t)
       \/ Parse(t) \/ ParsePanic(t) \/ Cleanup(t)
  \/ ChipRestarts

Spec == Init /\ [][Next]_vars

-----------------------------------------------------------------------------
(* Properties.                                                             *)

(* output_len "stores number of bytes read": a task whose request has      *)
(* succeeded finds in its buffer what has arrived for it, cut off at       *)
(* MAX_HTTP_OUTPUT_BUFFER and at no other place.                           *)
ResponseIntact ==
  \A t \in Tasks :
    pc[t] = "parse" /\ got[t] = body[t] /\ ~chunked[t] =>
      \A i \in Offsets :
        buffer[t][i] =
          IF i < Min2(body[t], MAX_HTTP_OUTPUT_BUFFER) THEN i + 1 ELSE 0

(* Only a request that is under way at the same time can damage it: a      *)
(* request leaves nothing behind, however it ends, that the next one could *)
(* stumble on.                                                             *)
IntactUnlessOverlap == ~overlap => ResponseIntact

(* "The last byte in evt->user_data is kept for the NULL character": a     *)
(* response of any length is a string that ends within the buffer.         *)
LastByteKept == \A t \in Tasks : buffer[t][MAX_HTTP_OUTPUT_BUFFER] = 0
=============================================================================
