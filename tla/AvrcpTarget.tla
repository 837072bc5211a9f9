---------------------------- MODULE AvrcpTarget ----------------------------
(***************************************************************************)
(* The AVRCP target: while a phone is connected a task simulates changes   *)
(* of the volume, and the phone may set the volume or ask to be told of    *)
(* its next change. s_vcs_task_hdl is written when a connection is handled *)
(* and given to vTaskDelete when a disconnection is handled; nothing tests *)
(* or clears it, so that it goes on referring to the task it has deleted.  *)
(***************************************************************************)
EXTENDS Integers, Sequences, FiniteSets

CONSTANTS
  Volumes,        (* the volumes a phone sets                               *)
  QUEUE_LENGTH,   (* length of the work queue                               *)
  Tasks,          (* what the handle of a simulation task can be; the bound *)
                  (* on the tasks that run. A handle may come back once its *)
                  (* task is gone.                                          *)
  NULL            (* the handle of no task                                  *)

ASSUME TargetAssumption ==
  /\ Volumes \subseteq 0 .. 127
  /\ QUEUE_LENGTH \in Nat \ {0}
  /\ IsFiniteSet(Tasks)
  /\ NULL \notin Tasks

VARIABLES
  link,             (* the AVRCP link as the stack knows it: "down", "up"   *)
  set,              (* the volume a phone has set last                      *)
  queue,            (* reports that wait for the application task           *)
  unheard,          (* history: was the report of that volume dropped?      *)
  missed,           (* history: was the report of a connection dropped, or  *)
                    (* its task not created, since the start?               *)
  left,             (* history: how many reports of a disconnection have    *)
                    (* been dropped before anything was missed              *)
  app,              (* the application task: "alive" or "deleted"           *)
  s_vcs_task_hdl,   (* the handle of the task that was created last         *)
  tasks,            (* the simulation tasks that run                        *)
  s_volume,         (* the volume                                           *)
  s_volume_notify   (* has a phone asked for its next change?               *)

vars == <<link, set, queue, unheard, missed, left, app, s_vcs_task_hdl,
          tasks, s_volume, s_volume_notify>>

vcsVars == <<s_vcs_task_hdl, tasks>>
volumeVars == <<s_volume, s_volume_notify>>
history == <<unheard, missed, left>>

Connected == [type |-> "CONNECTION_STATE", connected |-> TRUE]
Disconnected == [type |-> "CONNECTION_STATE", connected |-> FALSE]
SetVolume(v) == [type |-> "SET_ABSOLUTE_VOLUME_CMD", volume |-> v]
AskVolume == [type |-> "REGISTER_NOTIFICATION"]

Reports == {Connected, Disconnected, AskVolume}
           \cup {SetVolume(v) : v \in Volumes}

(* The range of every variable; while a simulation task runs the handle is *)
(* never NULL, with which a disconnection would delete the wrong task.     *)
TypeOK ==
  /\ link \in {"down", "up"}
  /\ set \in Volumes \cup {0}
  /\ queue \in Seq(Reports)
  /\ Len(queue) <= QUEUE_LENGTH
  /\ unheard \in BOOLEAN /\ missed \in BOOLEAN /\ left \in Nat
  /\ app \in {"alive", "deleted"}
  /\ s_vcs_task_hdl \in Tasks \cup {NULL}
  /\ tasks \subseteq Tasks
  /\ tasks # {} => s_vcs_task_hdl # NULL
  /\ s_volume \in Volumes \cup {0}
  /\ s_volume_notify \in BOOLEAN

Init ==
  /\ link = "down"
  /\ set = 0
  /\ queue = <<>>
  /\ unheard = FALSE /\ missed = FALSE /\ left = 0
  /\ app = "alive"
  /\ s_vcs_task_hdl = NULL
  /\ tasks = {}
  /\ s_volume = 0
  /\ s_volume_notify = FALSE

(* A panic.                                                                *)
Restart ==
  /\ link' = "down"
  /\ set' = 0
  /\ queue' = <<>>
  /\ unheard' = FALSE /\ missed' = FALSE /\ left' = 0
  /\ app' = "alive"
  /\ s_vcs_task_hdl' = NULL
  /\ tasks' = {}
  /\ s_volume' = 0
  /\ s_volume_notify' = FALSE

-----------------------------------------------------------------------------
(* The stack.                                                              *)

(* bt_app_rc_tg_cb: the result of the dispatch is ignored, and a report    *)
(* may be dropped.                                                         *)
Send(r) ==
  /\ Len(queue) < QUEUE_LENGTH
  /\ queue' = Append(queue, r)

LinkUp ==
  /\ link = "down"
  /\ link' = "up"
  /\ \/ Send(Connected) /\ UNCHANGED missed
     \/ missed' = TRUE /\ UNCHANGED queue
  /\ UNCHANGED <<set, unheard, left, app, vcsVars, volumeVars>>

LinkDown ==
  /\ link = "up"
  /\ link' = "down"
  /\ \/ Send(Disconnected) /\ UNCHANGED left
     \/ left' = (IF missed THEN left ELSE left + 1) /\ UNCHANGED queue
  /\ UNCHANGED <<set, unheard, missed, app, vcsVars, volumeVars>>

PhoneSetsVolume(v) ==
  /\ link = "up"
  /\ set' = v
  /\ \/ Send(SetVolume(v)) /\ unheard' = FALSE
     \/ unheard' = TRUE /\ UNCHANGED queue
  /\ UNCHANGED <<link, missed, left, app, vcsVars, volumeVars>>

PhoneAsksVolume ==
  /\ link = "up"
  /\ Send(AskVolume) \/ UNCHANGED queue
  /\ UNCHANGED <<link, set, history, app, vcsVars, volumeVars>>

StackStep ==
  \/ LinkUp \/ LinkDown \/ PhoneAsksVolume
  \/ \E v \in Volumes : PhoneSetsVolume(v)

-----------------------------------------------------------------------------
(* bt_av_hdl_avrc_tg_evt, in the application task.                         *)

Receive(r) ==
  /\ app = "alive"
  /\ queue # <<>> /\ Head(queue) = r
  /\ queue' = Tail(queue)
  /\ UNCHANGED <<link, set>>

(* Variant: the task is created unless the handle refers to one.           *)
HandleConnectedOnce ==
  /\ Receive(Connected)
  /\ \E t \in Tasks \ tasks :
       IF s_vcs_task_hdl = NULL
       THEN tasks' = tasks \cup {t} /\ s_vcs_task_hdl' = t
       ELSE UNCHANGED vcsVars
  /\ UNCHANGED <<history, app, volumeVars>>

(* Variant: the task is created with NULL for the address of its handle,   *)
(* like the other tasks of the program.                                    *)
HandleConnectedNoHandle ==
  /\ Receive(Connected)
  /\ \E t \in Tasks \ tasks : tasks' = tasks \cup {t}
  /\ UNCHANGED <<history, app, s_vcs_task_hdl, volumeVars>>

(* xTaskCreate writes the handle when it succeeds.                         *)
HandleConnected ==
  /\ Receive(Connected)
  /\ \E t \in Tasks \ tasks : tasks' = tasks \cup {t} /\ s_vcs_task_hdl' = t
  /\ UNCHANGED <<history, app, volumeVars>>

(* No memory for the task.                                                 *)
HandleConnectedFails ==
  /\ Receive(Connected)
  /\ missed' = TRUE
  /\ UNCHANGED <<unheard, left, app, vcsVars, volumeVars>>

(* vTaskDelete of the handle, which keeps its value.                       *)
HandleDisconnected ==
  /\ Receive(Disconnected)
  /\ s_vcs_task_hdl \in tasks
  /\ tasks' = tasks \ {s_vcs_task_hdl}
  /\ UNCHANGED <<history, app, s_vcs_task_hdl, volumeVars>>

(* vTaskDelete(NULL) deletes the task that calls it: the application task. *)
HandleDisconnectedDeletesApp ==
  /\ Receive(Disconnected)
  /\ s_vcs_task_hdl = NULL
  /\ app' = "deleted"
  /\ UNCHANGED <<history, vcsVars, volumeVars>>

(* A task that is gone is deleted again.                                   *)
HandleDisconnectedPanic ==
  /\ app = "alive"
  /\ queue # <<>> /\ Head(queue) = Disconnected
  /\ s_vcs_task_hdl \notin tasks \cup {NULL}
  /\ Restart

(* volume_set_by_controller.                                               *)
HandleSetVolume ==
  /\ \E v \in Volumes : Receive(SetVolume(v)) /\ s_volume' = v
  /\ UNCHANGED <<history, app, vcsVars, s_volume_notify>>

HandleAskVolume ==
  /\ Receive(AskVolume)
  /\ s_volume_notify' = TRUE
  /\ UNCHANGED <<history, app, vcsVars, s_volume>>

AppStep ==
  \/ HandleConnected \/ HandleConnectedFails
  \/ HandleDisconnected \/ HandleDisconnectedDeletesApp \/ HandleDisconnectedPanic
  \/ HandleSetVolume \/ HandleAskVolume

-----------------------------------------------------------------------------
(* volume_change_simulation, in every simulation task.                     *)

(* Variant: the two lines of the loop that are commented out are there,    *)
(* and call volume_set_by_local_host.                                      *)
SimulationTurnsUp ==
  /\ tasks # {}
  /\ s_volume' = (s_volume + 5) % 128
  /\ s_volume_notify' = FALSE
  /\ UNCHANGED <<link, set, queue, history, app, vcsVars>>

(* "volume up locally every 10 seconds": the delay is over, and nothing    *)
(* follows it in the loop but the next delay.                              *)
SimulationWakes ==
  /\ tasks # {}
  /\ UNCHANGED vars

Next == StackStep \/ AppStep \/ SimulationWakes

Spec == Init /\ [][Next]_vars

-----------------------------------------------------------------------------
(* Properties.                                                             *)

(* When all reports have been handled, the volume is the one a phone has   *)
(* set last, unless that very report was dropped, whatever else was; and   *)
(* there is one simulation task for a connected phone and one for every    *)
(* disconnection whose report was dropped, unless a connection was missed. *)
(* The first half is not what the comment on volume_change_simulation      *)
(* says, "volume up locally every 10 seconds": the tasks that run leave    *)
(* the volume alone, or it would not be the phone's.                       *)
Settled ==
  queue = <<>> =>
    /\ unheard \/ s_volume = set
    /\ missed \/ Cardinality(tasks) = left + IF link = "up" THEN 1 ELSE 0

(* Unless a connection was missed, vTaskDelete is given the handle of a    *)
(* task that runs, though the handle is never cleared: neither does it     *)
(* delete the application task nor a task that is gone. Dropped reports of *)
(* disconnections do no harm to that.                                      *)
DeletesTheTask ==
  ~missed =>
    /\ app = "alive"
    /\ queue # <<>> /\ Head(queue) = Disconnected => s_vcs_task_hdl \in tasks
=============================================================================
