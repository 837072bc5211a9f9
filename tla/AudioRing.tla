----------------------------- MODULE AudioRing -----------------------------
(***************************************************************************)
(* The audio path of bt_app_core.c: a byte ring buffer filled by the       *)
(* Bluetooth data callback (write_ringbuf), drained by the I2S task        *)
(* (bt_i2s_task_handler), created and destroyed by the application task    *)
(* (bt_i2s_task_start_up, bt_i2s_task_shut_down).                          *)
(*                                                                         *)
(* The three tasks share ringbuffer_mode, the ring buffer and the binary   *)
(* semaphore without a lock.  Every access to one of these is a step of    *)
(* its own, so that all interleavings of the three are explored.           *)
(***************************************************************************)
EXTENDS Integers

CONSTANTS
  HIGHEST_WATER,    (* RINGBUF_HIGHEST_WATER_LEVEL: capacity of the ring    *)
  PREFETCH_WATER,   (* RINGBUF_PREFETCH_WATER_LEVEL                         *)
  ItemSizeUpTo,     (* item_size_upto: most bytes of one retrieval          *)
  PacketSizes       (* sizes of the decoded packets the stack delivers      *)

ASSUME WaterAssumption ==
  /\ HIGHEST_WATER \in Nat
  /\ PREFETCH_WATER \in 1 .. HIGHEST_WATER
  /\ ItemSizeUpTo \in Nat \ {0}

(* A packet fits above the prefetch mark: 12 KiB in the code, where an     *)
(* SBC packet decodes to about 4 KiB.                                      *)
ASSUME PacketAssumption ==
  /\ PacketSizes \subseteq Nat
  /\ \A size \in PacketSizes : size <= HIGHEST_WATER - PREFETCH_WATER

VARIABLES
  ringbuffer_mode,  (* the mode both tasks read and write                   *)
  ringbuf,          (* s_ringbuf_i2s                                         *)
  items_waiting,    (* bytes in the ring that nobody has retrieved          *)
  item_held,        (* bytes the I2S task has retrieved and not returned    *)
  semaphore,        (* s_i2s_write_semaphore                                *)
  write_pc,         (* where write_ringbuf stands in the data callback      *)
  i2s_pc,           (* where the I2S task stands, "none" without a task     *)
  app_pc,           (* where the application task stands in start-up or     *)
                    (* shut-down of the I2S task                            *)
  overtaken         (* history: has the last start-up found the data        *)
                    (* callback amid a release it had measured for an       *)
                    (* earlier session?                                     *)

vars == <<ringbuffer_mode, ringbuf, items_waiting, item_held, semaphore,
          write_pc, i2s_pc, app_pc, overtaken>>

Modes == {"PROCESSING", "PREFETCHING", "DROPPING"}

TypeOK ==
  /\ ringbuffer_mode \in Modes
  /\ ringbuf \in {"NULL", "live"}
  /\ items_waiting \in Nat
  /\ item_held \in Nat
  /\ items_waiting + item_held <= HIGHEST_WATER
  /\ semaphore \in {"NULL", "empty", "full"}
  /\ write_pc \in {"idle", "dropInfo", "dropResume", "send", "overflow",
                   "test", "info", "resume", "give"}
  /\ i2s_pc \in {"none", "take", "receive", "underflow", "write", "return"}
  /\ app_pc \in {"idle", "mkSemaphore", "mkRingbuf", "mkTask",
                 "rmTask", "rmRingbuf", "rmSemaphore"}
  /\ overtaken \in BOOLEAN

(* Power-on: the static initialisers.                                      *)
Init ==
  /\ ringbuffer_mode = "PROCESSING"
  /\ ringbuf = "NULL"
  /\ items_waiting = 0
  /\ item_held = 0
  /\ semaphore = "NULL"
  /\ write_pc = "idle"
  /\ i2s_pc = "none"
  /\ app_pc = "idle"
  /\ overtaken = FALSE

(* The chip starts again: everything is as at power-on.                    *)
Reset ==
  /\ ringbuffer_mode' = "PROCESSING"
  /\ ringbuf' = "NULL"
  /\ items_waiting' = 0
  /\ item_held' = 0
  /\ semaphore' = "NULL"
  /\ write_pc' = "idle"
  /\ i2s_pc' = "none"
  /\ app_pc' = "idle"
  /\ overtaken' = FALSE

-----------------------------------------------------------------------------
(* write_ringbuf, called by the stack's data task.  One call at a time.    *)

(* First read of the mode: a dropping ring does not even try to send.      *)
WriteEnter ==
  /\ write_pc = "idle"
  /\ write_pc' = IF ringbuffer_mode = "DROPPING" THEN "dropInfo" ELSE "send"
  /\ UNCHANGED <<ringbuffer_mode, ringbuf, items_waiting, item_held, semaphore,
                 i2s_pc, app_pc, overtaken>>

(* Every ring-buffer call asserts that its handle is not NULL, and so does *)
(* the give; a handle that is deleted and not yet reset counts as NULL.    *)
(* A failed assertion stops both cores and restarts the chip.              *)
WritePanic ==
  /\ \/ write_pc \in {"dropInfo", "send", "info"} /\ ringbuf = "NULL"
     \/ write_pc = "give" /\ semaphore = "NULL"
  /\ Reset

WriteDropInfo ==
  /\ write_pc = "dropInfo"
  /\ ringbuf # "NULL"
  /\ write_pc' = IF items_waiting <= PREFETCH_WATER THEN "dropResume"
                                                    ELSE "idle"
  /\ UNCHANGED <<ringbuffer_mode, ringbuf, items_waiting, item_held, semaphore,
                 i2s_pc, app_pc, overtaken>>

WriteDropResume ==
  /\ write_pc = "dropResume"
  /\ ringbuffer_mode' = "PROCESSING"
  /\ write_pc' = "idle"
  /\ UNCHANGED <<ringbuf, items_waiting, item_held, semaphore, i2s_pc, app_pc,
                 overtaken>>

(* Variant: the space of the retrieved item is counted as free.            *)
WriteSendOverItem(size) ==
  /\ write_pc = "send"
  /\ ringbuf # "NULL"
  /\ items_waiting + size <= HIGHEST_WATER
  /\ items_waiting' = items_waiting + size
  /\ write_pc' = "test"
  /\ UNCHANGED <<ringbuffer_mode, ringbuf, item_held, semaphore, i2s_pc,
                 app_pc, overtaken>>

(* xRingbufferSend with no waiting time: all of the packet or nothing.     *)
(* A retrieved item keeps its space until it is returned.                  *)
WriteSend(size) ==
  /\ write_pc = "send"
  /\ ringbuf # "NULL"
  /\ \/ /\ items_waiting + item_held + size <= HIGHEST_WATER
        /\ items_waiting' = items_waiting + size
        /\ write_pc' = "test"
     \/ /\ items_waiting + item_held + size > HIGHEST_WATER
        /\ write_pc' = "overflow"
        /\ UNCHANGED items_waiting
  /\ UNCHANGED <<ringbuffer_mode, ringbuf, item_held, semaphore, i2s_pc,
                 app_pc, overtaken>>

WriteOverflow ==
  /\ write_pc = "overflow"
  /\ ringbuffer_mode' = "DROPPING"
  /\ write_pc' = "test"
  /\ UNCHANGED <<ringbuf, items_waiting, item_held, semaphore, i2s_pc, app_pc,
                 overtaken>>

(* Second read of the mode, after the send.                                *)
WriteTest ==
  /\ write_pc = "test"
  /\ write_pc' = IF ringbuffer_mode = "PREFETCHING" THEN "info" ELSE "idle"
  /\ UNCHANGED <<ringbuffer_mode, ringbuf, items_waiting, item_held, semaphore,
                 i2s_pc, app_pc, overtaken>>

(* Variant: the mark is reached one unit early.                            *)
WriteInfoEarly ==
  /\ write_pc = "info"
  /\ ringbuf # "NULL"
  /\ write_pc' = IF items_waiting + 1 >= PREFETCH_WATER THEN "resume"
                                                        ELSE "idle"
  /\ UNCHANGED <<ringbuffer_mode, ringbuf, items_waiting, item_held, semaphore,
                 i2s_pc, app_pc, overtaken>>

WriteInfo ==
  /\ write_pc = "info"
  /\ ringbuf # "NULL"
  /\ write_pc' = IF items_waiting >= PREFETCH_WATER THEN "resume" ELSE "idle"
  /\ UNCHANGED <<ringbuffer_mode, ringbuf, items_waiting, item_held, semaphore,
                 i2s_pc, app_pc, overtaken>>

(* Variant: the mode is not changed before the semaphore is given.         *)
WriteResumeSameMode ==
  /\ write_pc = "resume"
  /\ write_pc' = "give"
  /\ UNCHANGED <<ringbuffer_mode, ringbuf, items_waiting, item_held, semaphore,
                 i2s_pc, app_pc, overtaken>>

(* Variant: the mode is changed and the give forgotten.                    *)
WriteResumeNoGive ==
  /\ write_pc = "resume"
  /\ ringbuffer_mode' = "PROCESSING"
  /\ write_pc' = "idle"
  /\ UNCHANGED <<ringbuf, items_waiting, item_held, semaphore, i2s_pc, app_pc,
                 overtaken>>

WriteResume ==
  /\ write_pc = "resume"
  /\ ringbuffer_mode' = "PROCESSING"
  /\ write_pc' = "give"
  /\ UNCHANGED <<ringbuf, items_waiting, item_held, semaphore, i2s_pc, app_pc,
                 overtaken>>

(* Giving a full binary semaphore fails and is only logged.                *)
WriteGive ==
  /\ write_pc = "give"
  /\ semaphore # "NULL"
  /\ semaphore' = "full"
  /\ write_pc' = "idle"
  /\ UNCHANGED <<ringbuffer_mode, ringbuf, items_waiting, item_held, i2s_pc,
                 app_pc, overtaken>>

(* The steps write_ringbuf takes on its own once the stack has called it.  *)
WriteStep ==
  \/ WritePanic \/ WriteDropInfo \/ WriteDropResume
  \/ \E size \in PacketSizes : WriteSend(size)
  \/ WriteOverflow \/ WriteTest \/ WriteInfo \/ WriteResume \/ WriteGive

-----------------------------------------------------------------------------
(* bt_i2s_task_handler.                                                    *)

I2sTake ==
  /\ i2s_pc = "take"
  /\ semaphore = "full"
  /\ semaphore' = "empty"
  /\ i2s_pc' = "receive"
  /\ UNCHANGED <<ringbuffer_mode, ringbuf, items_waiting, item_held, write_pc,
                 app_pc, overtaken>>

(* xRingbufferReceiveUpTo hands out a contiguous piece: where the ring     *)
(* wraps it may be shorter than both the limit and what is waiting.        *)
I2sReceive(n) ==
  /\ i2s_pc = "receive"
  /\ n <= items_waiting
  /\ items_waiting' = items_waiting - n
  /\ item_held' = n
  /\ i2s_pc' = "write"
  /\ UNCHANGED <<ringbuffer_mode, ringbuf, semaphore, write_pc, app_pc,
                 overtaken>>

(* 20 ms without data: item_size stays 0.                                  *)
I2sTimeout ==
  /\ i2s_pc = "receive"
  /\ items_waiting = 0
  /\ i2s_pc' = "underflow"
  /\ UNCHANGED <<ringbuffer_mode, ringbuf, items_waiting, item_held, semaphore,
                 write_pc, app_pc, overtaken>>

(* Variant: no break out of the inner loop.                                *)
I2sUnderflowNoBreak ==
  /\ i2s_pc = "underflow"
  /\ ringbuffer_mode' = "PREFETCHING"
  /\ i2s_pc' = "receive"
  /\ UNCHANGED <<ringbuf, items_waiting, item_held, semaphore, write_pc,
                 app_pc, overtaken>>

(* Variant: the mode is left to the data callback.                         *)
I2sUnderflowKeepsMode ==
  /\ i2s_pc = "underflow"
  /\ i2s_pc' = "take"
  /\ UNCHANGED <<ringbuffer_mode, ringbuf, items_waiting, item_held,
                 semaphore, write_pc, app_pc, overtaken>>

I2sUnderflow ==
  /\ i2s_pc = "underflow"
  /\ ringbuffer_mode' = "PREFETCHING"
  /\ i2s_pc' = "take"
  /\ UNCHANGED <<ringbuf, items_waiting, item_held, semaphore, write_pc,
                 app_pc, overtaken>>

(* i2s_channel_write: returns when the DMA has taken the item.             *)
I2sWrite ==
  /\ i2s_pc = "write"
  /\ i2s_pc' = "return"
  /\ UNCHANGED <<ringbuffer_mode, ringbuf, items_waiting, item_held, semaphore,
                 write_pc, app_pc, overtaken>>

I2sReturn ==
  /\ i2s_pc = "return"
  /\ item_held' = 0
  /\ i2s_pc' = "receive"
  /\ UNCHANGED <<ringbuffer_mode, ringbuf, items_waiting, semaphore, write_pc,
                 app_pc, overtaken>>

I2sStep ==
  \/ I2sTake
  \/ \E n \in 1 .. ItemSizeUpTo : I2sReceive(n)
  \/ I2sTimeout \/ I2sUnderflow \/ I2sWrite \/ I2sReturn

-----------------------------------------------------------------------------
(* bt_i2s_task_start_up, from the CONNECTED event.                         *)
EnterStartUp ==
  /\ app_pc = "idle"
  /\ ringbuffer_mode' = "PREFETCHING"
  /\ app_pc' = "mkSemaphore"
  /\ overtaken' = (write_pc \in {"resume", "give"})
  /\ UNCHANGED <<ringbuf, items_waiting, item_held, semaphore, write_pc,
                 i2s_pc>>

(* The events alternate, so that nothing of an earlier session is left when *)
(* it is called: AudioSession shows it.                                    *)
StartUp ==
  /\ i2s_pc = "none" /\ ringbuf = "NULL" /\ semaphore = "NULL"
  /\ EnterStartUp

(* Each creation may fail for want of memory; the function then returns.   *)
CreateSemaphore ==
  /\ app_pc = "mkSemaphore"
  /\ \/ semaphore' = "empty" /\ app_pc' = "mkRingbuf"
     \/ app_pc' = "idle" /\ UNCHANGED semaphore
  /\ UNCHANGED <<ringbuffer_mode, ringbuf, items_waiting, item_held, write_pc,
                 i2s_pc, overtaken>>

(* Variant: no early return when the ring cannot be created.               *)
CreateRingbufNoReturn ==
  /\ app_pc = "mkRingbuf"
  /\ ringbuf' \in {"NULL", "live"}
  /\ app_pc' = "mkTask"
  /\ UNCHANGED <<ringbuffer_mode, items_waiting, item_held, semaphore,
                 write_pc, i2s_pc, overtaken>>

CreateRingbuf ==
  /\ app_pc = "mkRingbuf"
  /\ \/ ringbuf' = "live" /\ app_pc' = "mkTask"
     \/ app_pc' = "idle" /\ UNCHANGED ringbuf
  /\ UNCHANGED <<ringbuffer_mode, items_waiting, item_held, semaphore,
                 write_pc, i2s_pc, overtaken>>

CreateTask ==
  /\ app_pc = "mkTask"
  /\ i2s_pc' \in {"take", "none"}
  /\ app_pc' = "idle"
  /\ UNCHANGED <<ringbuffer_mode, ringbuf, items_waiting, item_held, semaphore,
                 write_pc, overtaken>>

(* bt_i2s_task_shut_down, from the DISCONNECTED event, session or not.     *)
ShutDown ==
  /\ app_pc = "idle"
  /\ app_pc' = "rmTask"
  /\ UNCHANGED <<ringbuffer_mode, ringbuf, items_waiting, item_held, semaphore,
                 write_pc, i2s_pc, overtaken>>

(* Variant: without a task there is nothing to shut down.                  *)
DeleteTaskOrReturn ==
  /\ app_pc = "rmTask"
  /\ i2s_pc' = "none"
  /\ app_pc' = IF i2s_pc = "none" THEN "idle" ELSE "rmRingbuf"
  /\ UNCHANGED <<ringbuffer_mode, ringbuf, items_waiting, item_held, semaphore,
                 write_pc, overtaken>>

(* The task is deleted wherever it stands.                                 *)
DeleteTask ==
  /\ app_pc = "rmTask"
  /\ i2s_pc' = "none"
  /\ app_pc' = "rmRingbuf"
  /\ UNCHANGED <<ringbuffer_mode, ringbuf, items_waiting, item_held, semaphore,
                 write_pc, overtaken>>

DeleteRingbuf ==
  /\ app_pc = "rmRingbuf"
  /\ ringbuf' = "NULL"
  /\ items_waiting' = 0
  /\ item_held' = 0
  /\ app_pc' = "rmSemaphore"
  /\ UNCHANGED <<ringbuffer_mode, semaphore, write_pc, i2s_pc, overtaken>>

DeleteSemaphore ==
  /\ app_pc = "rmSemaphore"
  /\ semaphore' = "NULL"
  /\ app_pc' = "idle"
  /\ UNCHANGED <<ringbuffer_mode, ringbuf, items_waiting, item_held, write_pc,
                 i2s_pc, overtaken>>

AppStep ==
  \/ StartUp \/ CreateSemaphore \/ CreateRingbuf \/ CreateTask
  \/ ShutDown \/ DeleteTask \/ DeleteRingbuf \/ DeleteSemaphore

Next == WriteEnter \/ WriteStep \/ I2sStep \/ AppStep

Spec == Init /\ [][Next]_vars

-----------------------------------------------------------------------------
(* The scheduler runs every ready task, and the phone keeps streaming.     *)
Fairness ==
  /\ WF_vars(WriteEnter)
  /\ WF_vars(WriteStep)
  /\ WF_vars(I2sStep)

StreamingSpec == Spec /\ Fairness

(* The task of a session never outlives its ring and its semaphore, in     *)
(* whatever order creations fail and the shut-down interleaves with it.    *)
NoDangling ==
  i2s_pc # "none" => ringbuf # "NULL" /\ semaphore # "NULL"

(* The hand-shake of mode and semaphore. A data callback may be under way  *)
(* when a session ends, and still be under way when the next one starts; it *)
(* goes on with whatever it has read. All that can do to the hand-shake is *)
(* to release the task of the new session for the prefetch of the old one: *)
(* that is what overtaken remembers, and nothing else is excepted.         *)

(* "semaphore give failed" in write_ringbuf is not logged: the semaphore   *)
(* is empty whenever the data callback gives it.                           *)
GiveNeverFails ==
  write_pc = "give" => overtaken \/ semaphore # "full"

(* When the I2S task is about to be released, the prefetch that was        *)
(* measured before the give is still in the ring.                          *)
PrefetchHonoured ==
  i2s_pc = "take" /\ semaphore = "full" =>
    overtaken \/ items_waiting >= PREFETCH_WATER

(* The comment on RINGBUFFER_MODE_PREFETCHING, "I2S is waiting", is true   *)
(* at every instant: no task plays in that mode, none has been released.   *)
PrefetchingMeansWaiting ==
  ringbuffer_mode = "PREFETCHING" =>
    overtaken \/ (i2s_pc \in {"none", "take"} /\ semaphore # "full")

(* A session whose task waits, or is still to be created, while nobody is  *)
(* on the way to give the semaphore and the mode lets nobody give it.      *)
Stalled ==
  /\ i2s_pc = "take" \/ app_pc \in {"mkSemaphore", "mkRingbuf", "mkTask"}
  /\ semaphore # "full" /\ write_pc # "give"
  /\ ringbuffer_mode # "PREFETCHING"

(* A stall has one cause: write_ringbuf finds the ring full or drained,    *)
(* and records it over the PREFETCHING of an underflow or of a start-up    *)
(* that nobody has answered. No other step of any of the three tasks       *)
(* begins one, not even with callbacks that straddle two sessions.         *)
StallsOnlyByLostMode ==
  [][~Stalled /\ Stalled' =>
       ringbuffer_mode = "PREFETCHING" /\ (WriteOverflow \/ WriteDropResume)]_vars

(* While the stack keeps delivering, a task that waits for the prefetch    *)
(* is released, unless the session ends.                                   *)
PlaybackStarts ==
  ringbuffer_mode = "PREFETCHING" /\ i2s_pc = "take"
                                  /\ write_pc = "idle"
                                  /\ items_waiting < PREFETCH_WATER
    ~> i2s_pc # "take"

(* The comments on the two other modes, "I2S is working": a task found     *)
(* waiting in one of them is at least on its way to be released, unless    *)
(* the session ends.                                                       *)
WorkingModesWork ==
  ringbuffer_mode # "PREFETCHING" /\ i2s_pc = "take" ~> i2s_pc # "take"

-----------------------------------------------------------------------------
(* The ring, its modes and its semaphore implement the pipe.               *)
PipePhase ==
  CASE ringbuf = "NULL" -> "down"
    [] ringbuf # "NULL" /\ app_pc = "rmRingbuf" -> "closing"
    [] ringbuf # "NULL" /\ app_pc # "rmRingbuf"
         /\ i2s_pc \in {"receive", "write", "return"} -> "playing"
    [] OTHER -> "filling"

Pipe == INSTANCE AudioPipe
  WITH Capacity <- HIGHEST_WATER, Prefetch <- PREFETCH_WATER,
       Chunk <- ItemSizeUpTo, Packets <- PacketSizes,
       phase <- PipePhase, level <- items_waiting + item_held,
       early <- overtaken

(* Playback starts only on a full prefetch, unless one measured for an     *)
(* earlier session counts; it stops only on an empty ring, and no byte     *)
(* disappears between the data callback and the DMA.                       *)
ImplementsPipe == Pipe!Spec
=============================================================================
