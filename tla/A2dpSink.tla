------------------------------ MODULE A2dpSink ------------------------------
(***************************************************************************)
(* The life of a connection: the stack reports the states of the A2DP link *)
(* (bt_app_a2d_cb), the reports wait in the work queue, and the handler    *)
(* bt_av_hdl_a2d_evt installs the I2S driver, starts and stops the I2S     *)
(* task and makes the device discoverable - always some time after the     *)
(* link has changed, while the I2S task plays and the stack delivers data. *)
(*                                                                         *)
(* WorkQueue has the details of the queue, AudioRing those of the task.    *)
(***************************************************************************)
EXTENDS Integers, Sequences

CONSTANT QUEUE_LENGTH   (* length of the work queue                         *)

ASSUME SinkAssumption == QUEUE_LENGTH \in Nat \ {0}

VARIABLES
  link,      (* the A2DP link as the stack knows it                         *)
  queue,     (* reports that wait for the application task                  *)
  lost,      (* decisive reports that have been dropped since the start     *)
  scan,      (* the scan mode: "discoverable" or "hidden"                   *)
  channel,   (* the I2S channel behind tx_chan: "none", "ready", "running"  *)
  session,   (* I2S tasks: "none", "up", "double" when start-up ran twice,  *)
             (* "orphan" when one of the two has been shut down             *)
  i2s_pc,    (* the I2S task: "wait", "write" inside i2s_channel_write,     *)
             (* "astray" inside it with a deleted channel                   *)
  app_pc     (* where bt_av_hdl_a2d_evt stands                              *)

vars == <<link, queue, lost, scan, channel, session, i2s_pc, app_pc>>

Links == {"disconnected", "connecting", "connected", "disconnecting"}

(* "OTHER": AUDIO_STATE and every event without an effect on this state.   *)
Reports == {"CONNECTING", "CONNECTED", "DISCONNECTING", "DISCONNECTED",
            "AUDIO_CFG", "OTHER"}

(* The reports on which the handler installs, starts and takes down. A     *)
(* dropped AUDIO_CFG leaves the driver at its rate, in the state it is in; *)
(* DISCONNECTING has no effect anyway.                                     *)
Decisive == {"CONNECTING", "CONNECTED", "DISCONNECTED"}

(* The range of every variable; without a task nobody writes.              *)
TypeOK ==
  /\ link \in Links
  /\ queue \in Seq(Reports)
  /\ Len(queue) <= QUEUE_LENGTH
  /\ lost \subseteq Decisive
  /\ scan \in {"discoverable", "hidden"}
  /\ channel \in {"none", "ready", "running"}
  /\ session \in {"none", "up", "double", "orphan"}
  /\ i2s_pc \in {"wait", "write", "astray"}
  /\ session = "none" => i2s_pc = "wait"
  /\ app_pc \in {"receive", "install", "hide", "startUp", "reconfDisable",
                 "reconfEnable", "show", "disable", "delete", "shutDown"}

(* The handler of STACK_UP has run.                                        *)
Init ==
  /\ link = "disconnected"
  /\ queue = <<>>
  /\ lost = {}
  /\ scan = "discoverable"
  /\ channel = "none"
  /\ session = "none"
  /\ i2s_pc = "wait"
  /\ app_pc = "receive"

(* abort() of a failed ESP_ERROR_CHECK, or a panic.                        *)
Restart ==
  /\ link' = "disconnected"
  /\ queue' = <<>>
  /\ lost' = {}
  /\ scan' = "discoverable"
  /\ channel' = "none"
  /\ session' = "none"
  /\ i2s_pc' = "wait"
  /\ app_pc' = "receive"

-----------------------------------------------------------------------------
(* The stack.                                                              *)

(* A report is dropped for want of memory, or because the queue stays full *)
(* for 10 ms.                                                              *)
Report(e) ==
  \/ /\ Len(queue) < QUEUE_LENGTH
     /\ queue' = Append(queue, e)
     /\ UNCHANGED lost
  \/ /\ lost' = lost \cup ({e} \cap Decisive)
     /\ UNCHANGED queue

(* A phone finds and connects a device that scans.                         *)
LinkConnecting ==
  /\ link = "disconnected" /\ scan = "discoverable"
  /\ link' = "connecting"
  /\ Report("CONNECTING")
  /\ UNCHANGED <<scan, channel, session, i2s_pc, app_pc>>

LinkConnected ==
  /\ link = "connecting"
  /\ link' = "connected"
  /\ Report("CONNECTED")
  /\ UNCHANGED <<scan, channel, session, i2s_pc, app_pc>>

LinkDisconnecting ==
  /\ link = "connected"
  /\ link' = "disconnecting"
  /\ Report("DISCONNECTING")
  /\ UNCHANGED <<scan, channel, session, i2s_pc, app_pc>>

(* The attempt fails, the link is closed, or it is lost.                   *)
LinkDisconnected ==
  /\ link # "disconnected"
  /\ link' = "disconnected"
  /\ Report("DISCONNECTED")
  /\ UNCHANGED <<scan, channel, session, i2s_pc, app_pc>>

(* The phone chooses or changes the codec, or starts or stops the stream.  *)
LinkAudio(e) ==
  /\ link \in {"connecting", "connected"}
  /\ Report(e)
  /\ UNCHANGED <<link, scan, channel, session, i2s_pc, app_pc>>

(* Data that arrives before the report of the connection has been handled  *)
(* finds no ring buffer: the assertion in xRingbufferSend fails.           *)
DataTooEarly ==
  /\ link = "connected"
  /\ session = "none"
  /\ Restart

StackStep ==
  \/ LinkConnecting \/ LinkConnected \/ LinkDisconnecting \/ LinkDisconnected
  \/ \E e \in {"AUDIO_CFG", "OTHER"} : LinkAudio(e)
  \/ DataTooEarly

-----------------------------------------------------------------------------
(* bt_av_hdl_a2d_evt, in the application task.                             *)

(* Variant: DISCONNECTING is taken for DISCONNECTED.                       *)
ReceiveTwice ==
  /\ app_pc = "receive"
  /\ queue # <<>>
  /\ queue' = Tail(queue)
  /\ app_pc' = CASE Head(queue) = "CONNECTING"   -> "install"
                 [] Head(queue) = "CONNECTED"    -> "hide"
                 [] Head(queue) \in {"DISCONNECTING", "DISCONNECTED"} -> "show"
                 [] Head(queue) = "AUDIO_CFG"    -> "reconfDisable"
                 [] OTHER                        -> "receive"
  /\ UNCHANGED <<link, lost, scan, channel, session, i2s_pc>>

Receive ==
  /\ app_pc = "receive"
  /\ queue # <<>>
  /\ queue' = Tail(queue)
  /\ app_pc' = CASE Head(queue) = "CONNECTING"   -> "install"
                 [] Head(queue) = "CONNECTED"    -> "hide"
                 [] Head(queue) = "DISCONNECTED" -> "show"
                 [] Head(queue) = "AUDIO_CFG"    -> "reconfDisable"
                 [] OTHER                        -> "receive"
  /\ UNCHANGED <<link, lost, scan, channel, session, i2s_pc>>

(* bt_i2s_driver_install: the channel is there already, or there is no     *)
(* memory for it, and the check aborts.                                    *)
Install ==
  /\ app_pc = "install"
  /\ channel = "none"
  /\ channel' = "running"
  /\ app_pc' = "receive"
  /\ UNCHANGED <<link, queue, lost, scan, session, i2s_pc>>

InstallAborts == app_pc = "install" /\ Restart

(* CONNECTED: the device hides and starts its I2S task.                    *)
Hide ==
  /\ app_pc = "hide"
  /\ scan' = "hidden"
  /\ app_pc' = "startUp"
  /\ UNCHANGED <<link, queue, lost, channel, session, i2s_pc>>

StartUp ==
  /\ app_pc = "startUp"
  /\ session' = IF session = "none" THEN "up" ELSE "double"
  /\ app_pc' = "receive"
  /\ UNCHANGED <<link, queue, lost, scan, channel, i2s_pc>>

(* i2s_channel_disable takes the channel out of service and waits until a  *)
(* write in progress has left. Here and in ReconfEnable errors are ignored. *)
ReconfDisable ==
  /\ app_pc = "reconfDisable"
  /\ channel' = IF channel = "running" THEN "ready" ELSE channel
  /\ app_pc' = "reconfEnable"
  /\ UNCHANGED <<link, queue, lost, scan, session, i2s_pc>>

ReconfEnable ==
  /\ app_pc = "reconfEnable"
  /\ i2s_pc # "write"
  /\ channel' = IF channel = "ready" THEN "running" ELSE channel
  /\ app_pc' = "receive"
  /\ UNCHANGED <<link, queue, lost, scan, session, i2s_pc>>

(* Variant: the device stays hidden.                                       *)
ShowNot ==
  /\ app_pc = "show"
  /\ app_pc' = "disable"
  /\ UNCHANGED <<link, queue, lost, scan, channel, session, i2s_pc>>

(* DISCONNECTED: everyone may find the device again.                       *)
Show ==
  /\ app_pc = "show"
  /\ scan' = "discoverable"
  /\ app_pc' = "disable"
  /\ UNCHANGED <<link, queue, lost, channel, session, i2s_pc>>

(* bt_i2s_driver_uninstall.                                                *)
Disable ==
  /\ app_pc = "disable"
  /\ channel = "running"
  /\ channel' = "ready"
  /\ app_pc' = "delete"
  /\ UNCHANGED <<link, queue, lost, scan, session, i2s_pc>>

(* Variant: the I2S task is kept for the next connection.                  *)
DeleteKeepsTask ==
  /\ app_pc = "delete"
  /\ channel = "ready" /\ i2s_pc # "write"
  /\ channel' = "none"
  /\ app_pc' = "receive"
  /\ UNCHANGED <<link, queue, lost, scan, session, i2s_pc>>

Delete ==
  /\ app_pc = "delete"
  /\ channel = "ready" /\ i2s_pc # "write"
  /\ channel' = "none"
  /\ app_pc' = "shutDown"
  /\ UNCHANGED <<link, queue, lost, scan, session, i2s_pc>>

UninstallAborts ==
  /\ \/ app_pc = "disable" /\ channel # "running"
     \/ app_pc = "delete" /\ channel # "ready"
  /\ Restart

(* Variant: the handle is cleared and the task is not deleted, so that its *)
(* write goes on.                                                          *)
ShutDownForgetsWrite ==
  /\ app_pc = "shutDown"
  /\ session' = IF session \in {"double", "orphan"} THEN "orphan" ELSE "none"
  /\ app_pc' = "receive"
  /\ UNCHANGED <<link, queue, lost, scan, channel, i2s_pc>>

(* Variant: a new session finds the task of the old one.                   *)
ShutDownKeepsTask ==
  /\ app_pc = "shutDown"
  /\ i2s_pc' = "wait"
  /\ app_pc' = "receive"
  /\ UNCHANGED <<link, queue, lost, scan, channel, session>>

ShutDown ==
  /\ app_pc = "shutDown"
  /\ session' = IF session \in {"double", "orphan"} THEN "orphan" ELSE "none"
  /\ i2s_pc' = "wait"
  /\ app_pc' = "receive"
  /\ UNCHANGED <<link, queue, lost, scan, channel>>

AppStep ==
  \/ Receive \/ Install \/ InstallAborts \/ Hide \/ StartUp
  \/ ReconfDisable \/ ReconfEnable
  \/ Show \/ Disable \/ Delete \/ UninstallAborts \/ ShutDown

-----------------------------------------------------------------------------
(* The I2S task.                                                           *)

(* A write to a channel that is not enabled is refused, or waits with its  *)
(* portMAX_DELAY until it is: either way nothing is written, and the write *)
(* begins when the channel is back in service.                             *)
WriteBegin ==
  /\ session # "none" /\ i2s_pc = "wait"
  /\ channel # "ready"
  /\ i2s_pc' = IF channel = "running" THEN "write" ELSE "astray"
  /\ UNCHANGED <<link, queue, lost, scan, channel, session, app_pc>>

WriteEnd ==
  /\ session # "none" /\ i2s_pc \in {"write", "astray"}
  /\ i2s_pc' = "wait"
  /\ UNCHANGED <<link, queue, lost, scan, channel, session, app_pc>>

(* A freed channel, or the NULL ring of an orphan, may crash the task.     *)
I2sCrashes ==
  /\ session = "orphan" \/ i2s_pc = "astray"
  /\ Restart

I2sStep == WriteBegin \/ WriteEnd \/ I2sCrashes

Next == StackStep \/ AppStep \/ I2sStep

Spec == Init /\ [][Next]_vars

(* The application task runs when it has work, and the DMA empties, so     *)
(* that every write ends.                                                  *)
Fairness == WF_vars(AppStep) /\ WF_vars(WriteEnd)

FairSpec == Spec /\ Fairness

-----------------------------------------------------------------------------
(* Properties.                                                             *)

(* The handler, late as it is, finds the I2S driver in the state its       *)
(* ESP_ERROR_CHECKs expect: absent at an installation, running at a        *)
(* reconfiguration and an uninstallation. Of all the reports that can be   *)
(* dropped only CONNECTING and DISCONNECTED can change that.               *)
ChecksPass ==
  lost \subseteq {"CONNECTED"} =>
    /\ app_pc = "install" => channel = "none"
    /\ app_pc \in {"reconfDisable", "disable"} => channel = "running"
    /\ app_pc \in {"reconfEnable", "delete"} => channel = "ready"

(* When the handler has caught up with the stack, scan mode, driver and    *)
(* task are the ones the link calls for. A dropped CONNECTED costs the     *)
(* sound of that connection and no more: the driver follows the link, and  *)
(* after the disconnection nothing is left of it.                          *)
Settled ==
  lost \subseteq {"CONNECTED"} /\ queue = <<>> /\ app_pc = "receive" =>
    /\ channel = IF link = "disconnected" THEN "none" ELSE "running"
    /\ scan = "hidden" <=> session = "up"
    /\ session \in {"none", "up"}
    /\ session = "up" => link \in {"connected", "disconnecting"}
    /\ lost = {} /\ link \in {"connected", "disconnecting"} => session = "up"

(* The disconnection deletes the channel before the task that writes to    *)
(* it: the task may write to the deleted channel until, and no longer      *)
(* than until, the shut-down that comes next.                              *)
AstrayOnlyInShutDown ==
  lost \subseteq {"CONNECTED"} /\ i2s_pc = "astray" => app_pc = "shutDown"

(* A device without a connection can be found again in the end, by the     *)
(* scan mode the handler of DISCONNECTED sets; of all reports only a       *)
(* dropped DISCONNECTED can keep it hidden, even if a dropped CONNECTING   *)
(* makes the checks of the driver fail.                                    *)
DiscoverableAgain ==
  link = "disconnected"
    ~> scan = "discoverable" \/ "DISCONNECTED" \in lost
=============================================================================
