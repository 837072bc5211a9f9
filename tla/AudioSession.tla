---------------------------- MODULE AudioSession ----------------------------
(***************************************************************************)
(* A2dpSink and AudioRing together: the handler of the reports calls       *)
(* bt_i2s_task_start_up and bt_i2s_task_shut_down, which take several      *)
(* steps each; the I2S task writes what it takes out of the ring to the    *)
(* channel the handler installs, reconfigures and deletes; and the stack   *)
(* delivers data from the moment the link is up, however far the handler   *)
(* lags behind. app_pc is the handler's position and i2s_pc that of the    *)
(* call of i2s_channel_write, as in A2dpSink.                              *)
(***************************************************************************)
EXTENDS A2dpSink

CONSTANTS
  HIGHEST_WATER, PREFETCH_WATER, ItemSizeUpTo, PacketSizes

(* What AudioRing assumes of them.                                         *)
ASSUME RingAssumption ==
  /\ HIGHEST_WATER \in Nat /\ PREFETCH_WATER \in 1 .. HIGHEST_WATER
  /\ ItemSizeUpTo \in Nat \ {0}
  /\ PacketSizes \subseteq Nat
  /\ \A size \in PacketSizes : size <= HIGHEST_WATER - PREFETCH_WATER

VARIABLES
  ringbuffer_mode, ringbuf, items_waiting, item_held, semaphore, write_pc,
  task,      (* i2s_pc of AudioRing: where the I2S task stands              *)
  call,      (* app_pc of AudioRing: where a start-up or shut-down stands   *)
  overtaken, (* history of AudioRing                                        *)
  stale,     (* has the link gone down under the data callback?             *)
  refused,   (* was memory for the present session refused?                 *)
  unheard    (* was the report of the present connection dropped?           *)

Ring == INSTANCE AudioRing WITH i2s_pc <- task, app_pc <- call

ringVars == <<ringbuffer_mode, ringbuf, items_waiting, item_held, semaphore,
              write_pc, task, call, overtaken>>
history == <<stale, refused, unheard>>
sessionVars == <<vars, ringVars, history>>

SessionInit ==
  /\ Init
  /\ Ring!Init
  /\ stale = FALSE
  /\ refused = FALSE
  /\ unheard = FALSE

-----------------------------------------------------------------------------
(* The stack: reports of the link, and data for write_ringbuf.             *)

(* The bound of the model: when both a CONNECTING and a DISCONNECTED are   *)
(* lost, start-up may run twice and leave two tasks with one ring. That is *)
(* left to A2dpSink; any other reports may be dropped here too.            *)
OneRing == ~({"CONNECTING", "DISCONNECTED"} \subseteq lost)

LinkStep ==
  /\ \/ LinkConnecting \/ LinkConnected \/ LinkDisconnecting
     \/ LinkDisconnected \/ LinkAudio("AUDIO_CFG")
  /\ OneRing'
  /\ stale' = (write_pc # "idle" /\ (stale \/ link' = "disconnected"))
  /\ unheard' = /\ link' \in {"connected", "disconnecting"}
                /\ IF link = "connecting" THEN queue' = queue ELSE unheard
  /\ UNCHANGED <<ringVars, refused>>

DataArrives ==
  /\ link = "connected"
  /\ Ring!WriteEnter
  /\ UNCHANGED <<vars, history>>

DataStep ==
  /\ \/ Ring!WriteDropInfo \/ Ring!WriteDropResume
     \/ \E size \in PacketSizes : Ring!WriteSend(size)
     \/ Ring!WriteOverflow \/ Ring!WriteTest \/ Ring!WriteInfo
     \/ Ring!WriteResume \/ Ring!WriteGive
  /\ stale' = (stale /\ write_pc' # "idle")
  /\ UNCHANGED <<vars, refused, unheard>>

(* A failed check, a failed assertion or a panic restarts everything.      *)
Restarts ==
  /\ Restart
  /\ Ring!Reset
  /\ stale' = FALSE
  /\ refused' = FALSE
  /\ unheard' = FALSE

TaskPanics == (Ring!WritePanic \/ I2sCrashes) /\ Restarts

-----------------------------------------------------------------------------
(* The application task: a start-up or a shut-down runs to its end before  *)
(* the handler goes on.                                                    *)

HandlerStep ==
  /\ call = "idle"
  /\ Receive \/ Install \/ Hide \/ ReconfDisable \/ ReconfEnable
     \/ Show \/ Disable \/ Delete
  /\ UNCHANGED <<ringVars, history>>

HandlerAborts == (InstallAborts \/ UninstallAborts) /\ Restarts

StartUpBegins ==
  /\ StartUp
  /\ Ring!EnterStartUp
  /\ refused' = FALSE
  /\ UNCHANGED <<stale, unheard>>

StartUpStep ==
  /\ Ring!CreateSemaphore \/ Ring!CreateRingbuf \/ Ring!CreateTask
  /\ refused' = (call' = "idle" /\ task' = "none")
  /\ UNCHANGED <<vars, stale, unheard>>

ShutDownBegins ==
  /\ app_pc = "shutDown"
  /\ Ring!ShutDown
  /\ UNCHANGED <<vars, history>>

(* The task is gone, and its call of i2s_channel_write with it.            *)
ShutDownTask ==
  /\ Ring!DeleteTask
  /\ ShutDown
  /\ refused' = FALSE
  /\ UNCHANGED <<stale, unheard>>

ShutDownStep ==
  /\ Ring!DeleteRingbuf \/ Ring!DeleteSemaphore
  /\ UNCHANGED <<vars, history>>

AppTaskStep ==
  \/ HandlerStep \/ HandlerAborts \/ StartUpBegins \/ StartUpStep
  \/ ShutDownBegins \/ ShutDownTask \/ ShutDownStep

-----------------------------------------------------------------------------
(* The I2S task.                                                           *)

I2sOnRing ==
  /\ \/ Ring!I2sTake
     \/ \E n \in 1 .. ItemSizeUpTo : Ring!I2sReceive(n)
     \/ Ring!I2sTimeout \/ Ring!I2sUnderflow \/ Ring!I2sReturn
  /\ UNCHANGED <<vars, history>>

OutputBegins ==
  /\ task = "write"
  /\ WriteBegin
  /\ UNCHANGED <<ringVars, history>>

(* A channel that is out of service may refuse the item, which is returned *)
(* to the ring all the same, or keep the task waiting until it is enabled: *)
(* no fairness says that this step is taken.                               *)
OutputRefused ==
  /\ i2s_pc = "wait" /\ channel = "ready"
  /\ Ring!I2sWrite
  /\ UNCHANGED <<vars, history>>

OutputEnds ==
  /\ Ring!I2sWrite
  /\ WriteEnd
  /\ UNCHANGED history

I2sTaskStep == I2sOnRing \/ OutputBegins \/ OutputRefused \/ OutputEnds

SessionNext ==
  \/ LinkStep \/ DataArrives \/ DataStep \/ TaskPanics
  \/ AppTaskStep \/ I2sTaskStep

SessionSpec == SessionInit /\ [][SessionNext]_sessionVars

(* The application task runs when it has work, and the DMA empties.        *)
SessionFairness == WF_sessionVars(AppTaskStep) /\ WF_sessionVars(OutputEnds)

FairSessionSpec == SessionSpec /\ SessionFairness

-----------------------------------------------------------------------------
(* Properties.                                                             *)

(* Both components keep the ranges of their variables; a call of           *)
(* i2s_channel_write is one of a task that holds an item, and a task is    *)
(* one of a session.                                                       *)
SessionTypeOK ==
  /\ TypeOK
  /\ Ring!TypeOK
  /\ stale \in BOOLEAN /\ refused \in BOOLEAN /\ unheard \in BOOLEAN
  /\ i2s_pc # "wait" => task = "write"
  /\ task # "none" => session = "up"

(* Between two restarts the ring takes the steps of AudioRing only: no     *)
(* start-up finds anything of an earlier session, which AudioRing takes    *)
(* for granted.                                                            *)
ImplementsRing == Ring!Init /\ [][Ring!Next \/ Ring!Reset]_ringVars

(* The data callback finds no ring or no semaphore only where the code     *)
(* cannot give it one: the report of the connection has not been handled   *)
(* or was dropped, memory was refused, or the link has gone down under the *)
(* callback.                                                               *)
DataFindsRing ==
  \/ write_pc \in {"dropInfo", "send", "info"} /\ ringbuf = "NULL"
  \/ write_pc = "give" /\ semaphore = "NULL"
  => \/ stale \/ refused \/ unheard
     \/ \E i \in 1 .. Len(queue) : queue[i] = "CONNECTED"
     \/ app_pc \in {"hide", "startUp"}
     \/ call \in {"mkSemaphore", "mkRingbuf"}

(* When the application task has nothing to do, the device is as the link  *)
(* demands: a session has its task, its ring and its semaphore, unless     *)
(* memory was refused or the handler never heard of the connection;        *)
(* without one nothing of it is left, unless a DISCONNECTED was dropped.   *)
SessionSettled ==
  queue = <<>> /\ app_pc = "receive" /\ call = "idle" =>
    IF link \in {"connected", "disconnecting"}
    THEN \/ refused \/ unheard
         \/ task # "none" /\ ringbuf # "NULL" /\ semaphore # "NULL"
    ELSE \/ "DISCONNECTED" \in lost
         \/ task = "none" /\ ringbuf = "NULL" /\ semaphore = "NULL"

(* A connection that is over is taken down in the end, however much is in  *)
(* the ring, whatever the I2S task is doing and however soon the next one  *)
(* comes: channel, task, ring and semaphore are all released at once. Of   *)
(* the reports only a dropped DISCONNECTED prevents it.                    *)
SessionEnds ==
  link = "disconnected"
    ~> \/ "DISCONNECTED" \in lost
       \/ channel = "none" /\ task = "none" /\ ringbuf = "NULL"
                          /\ semaphore = "NULL"
=============================================================================
