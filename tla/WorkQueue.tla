----------------------------- MODULE WorkQueue -----------------------------
(***************************************************************************)
(* The hand-over of Bluetooth events from the stack to the application     *)
(* task: bt_app_work_dispatch and bt_app_send_msg run in the stack's BTC   *)
(* task (and once, before any callback is registered, in app_main);        *)
(* bt_app_task_handler receives the messages, calls their handlers and     *)
(* frees their memory.                                                     *)
(*                                                                         *)
(* The handlers call back into the stack: every esp_avrc_* or esp_bt_*     *)
(* call posts to the BTC task's own bounded queue and waits for room, so   *)
(* that each of the two tasks can wait for the other.                      *)
(***************************************************************************)
EXTENDS Integers, Sequences

CONSTANTS
  QUEUE_LENGTH,   (* length of s_bt_app_task_queue: 10                      *)
  BTC_LENGTH,     (* length of the BTC task's queue                         *)
  MaxEvents,      (* bound: events dispatched between two restarts          *)
  MaxCalls        (* most stack calls one handler makes                     *)

ASSUME LengthAssumption ==
  /\ QUEUE_LENGTH \in Nat \ {0}
  /\ BTC_LENGTH \in Nat \ {0}
  /\ MaxEvents \in Nat \ {0}
  /\ MaxCalls \in Nat

VARIABLES
  queue,         (* s_bt_app_task_queue                                     *)
  dispatch_pc,   (* where the dispatching task stands                       *)
  dispatch_msg,  (* the message it is building                              *)
  app_pc,        (* where the application task stands                       *)
  app_msg,       (* msg, its copy of the message it handles                 *)
  app_calls,     (* stack calls its handler has still to make               *)
  heap,          (* the live blocks among those the messages point to       *)
  refused,       (* events whose dispatch returned false                    *)
  events,        (* events dispatched since the start                       *)
  btc_backlog    (* entries in the BTC task's queue                         *)

vars == <<queue, dispatch_pc, dispatch_msg, app_pc, app_msg, app_calls, heap,
          refused, events, btc_backlog>>
appVars == <<app_pc, app_msg, app_calls>>

(* "bare": no parameter.  "event": a copied parameter.  "meta": a copied   *)
(* parameter that points to a second block, attr_text.                     *)
Kinds == {"bare", "event", "meta"}
Msg == [id : Nat \ {0}, kind : Kinds]

Param(m) == [of |-> m.id, part |-> "param"]
Text(m)  == [of |-> m.id, part |-> "text"]

TypeOK ==
  /\ queue \in Seq(Msg)
  /\ Len(queue) <= QUEUE_LENGTH
  /\ dispatch_pc \in {"idle", "text", "param", "send"}
  /\ dispatch_msg \in Msg
  /\ app_pc \in {"receive", "handle", "call", "free"}
  /\ app_msg \in Msg
  /\ app_calls \in 0 .. MaxCalls
  /\ app_pc = "call" => app_calls > 0
  /\ heap \subseteq [of : Nat \ {0}, part : {"param", "text"}]
  /\ refused \subseteq Nat \ {0}
  /\ events \in Nat
  /\ btc_backlog \in 0 .. BTC_LENGTH

(* app_main has created queue and task and dispatches BT_APP_EVT_STACK_UP. *)
StackUp == [id |-> 1, kind |-> "bare"]

Init ==
  /\ queue = <<>>
  /\ dispatch_pc = "send"
  /\ dispatch_msg = StackUp
  /\ app_pc = "receive"
  /\ app_msg = StackUp
  /\ app_calls = 0
  /\ heap = {}
  /\ refused = {}
  /\ events = 1
  /\ btc_backlog = 0

-----------------------------------------------------------------------------
(* The BTC task.                                                           *)

(* The handler of STACK_UP registers the callbacks; until then the stack   *)
(* has nothing to report.                                                  *)
Registered ==
  /\ dispatch_msg.id = 1 => dispatch_pc = "idle"
  /\ \A i \in 1 .. Len(queue) : queue[i].kind # "bare"
  /\ ~(app_msg.kind = "bare" /\ app_pc = "handle")

(* The rest of the stack posts an event to the BTC task.                   *)
StackPost ==
  /\ Registered
  /\ btc_backlog < BTC_LENGTH
  /\ btc_backlog' = btc_backlog + 1
  /\ UNCHANGED <<queue, dispatch_pc, dispatch_msg, appVars, heap, refused,
                 events>>

(* An entry that is a command of the application, or an event for which no *)
(* message is dispatched.                                                  *)
BtcOther ==
  /\ dispatch_pc = "idle"
  /\ btc_backlog > 0
  /\ btc_backlog' = btc_backlog - 1
  /\ UNCHANGED <<queue, dispatch_pc, dispatch_msg, appVars, heap, refused,
                 events>>

(* bt_app_a2d_cb, bt_app_rc_ct_cb or bt_app_rc_tg_cb: the metadata event   *)
(* first goes through bt_app_alloc_meta_buffer.                            *)
Callback(kind) ==
  /\ dispatch_pc = "idle"
  /\ Registered
  /\ events < MaxEvents
  /\ btc_backlog > 0
  /\ btc_backlog' = btc_backlog - 1
  /\ events' = events + 1
  /\ dispatch_msg' = [id |-> events + 1, kind |-> kind]
  /\ dispatch_pc' = IF kind = "meta" THEN "text" ELSE "param"
  /\ UNCHANGED <<queue, appVars, heap, refused>>

AllocMetaBuffer ==
  /\ dispatch_pc = "text"
  /\ heap' = heap \cup {Text(dispatch_msg)}
  /\ dispatch_pc' = "param"
  /\ UNCHANGED <<queue, dispatch_msg, appVars, refused, events, btc_backlog>>

(* bt_app_alloc_meta_buffer does not test the block it gets: without       *)
(* memory it stores through NULL, which restarts the chip.                 *)
AllocMetaBufferPanic ==
  /\ dispatch_pc = "text"
  /\ queue' = <<>>
  /\ dispatch_pc' = "send"
  /\ dispatch_msg' = StackUp
  /\ app_pc' = "receive"
  /\ app_msg' = StackUp
  /\ app_calls' = 0
  /\ heap' = {}
  /\ refused' = {}
  /\ events' = 1
  /\ btc_backlog' = 0

(* bt_app_work_dispatch: the parameter is copied to a block of its own;    *)
(* without memory for it the message is not sent.                          *)
WorkDispatch ==
  /\ dispatch_pc = "param"
  /\ \/ heap' = heap \cup {Param(dispatch_msg)}
        /\ dispatch_pc' = "send"
        /\ UNCHANGED refused
     \/ refused' = refused \cup {dispatch_msg.id}
        /\ dispatch_pc' = "idle"
        /\ UNCHANGED heap
  /\ UNCHANGED <<queue, dispatch_msg, appVars, events, btc_backlog>>

(* Variant: the length of the queue is not tested.                         *)
SendMsgUnbounded ==
  /\ dispatch_pc = "send"
  /\ queue' = Append(queue, dispatch_msg)
  /\ dispatch_pc' = "idle"
  /\ UNCHANGED <<dispatch_msg, appVars, heap, refused, events, btc_backlog>>

(* Variant: the message overtakes those that wait.                         *)
SendMsgToFront ==
  /\ dispatch_pc = "send"
  /\ Len(queue) < QUEUE_LENGTH
  /\ queue' = <<dispatch_msg>> \o queue
  /\ dispatch_pc' = "idle"
  /\ UNCHANGED <<dispatch_msg, appVars, heap, refused, events, btc_backlog>>

(* bt_app_send_msg.                                                        *)
SendMsg ==
  /\ dispatch_pc = "send"
  /\ Len(queue) < QUEUE_LENGTH
  /\ queue' = Append(queue, dispatch_msg)
  /\ dispatch_pc' = "idle"
  /\ UNCHANGED <<dispatch_msg, appVars, heap, refused, events, btc_backlog>>

(* Variant: it tries again after every timeout.                            *)
SendMsgRetries ==
  /\ dispatch_pc = "send"
  /\ Len(queue) = QUEUE_LENGTH
  /\ UNCHANGED vars

(* The queue stays full for 10 ms: the message is dropped, its blocks are  *)
(* not freed.                                                              *)
SendMsgTimeout ==
  /\ dispatch_pc = "send"
  /\ Len(queue) = QUEUE_LENGTH
  /\ refused' = refused \cup {dispatch_msg.id}
  /\ dispatch_pc' = "idle"
  /\ UNCHANGED <<queue, dispatch_msg, appVars, heap, events, btc_backlog>>

BtcStep ==
  \/ BtcOther \/ \E kind \in {"event", "meta"} : Callback(kind)
  \/ AllocMetaBuffer \/ AllocMetaBufferPanic
  \/ WorkDispatch \/ SendMsg \/ SendMsgTimeout

-----------------------------------------------------------------------------
(* bt_app_task_handler.                                                    *)

Receive ==
  /\ app_pc = "receive"
  /\ queue # <<>>
  /\ app_msg' = Head(queue)
  /\ queue' = Tail(queue)
  /\ app_pc' = "handle"
  /\ UNCHANGED <<dispatch_pc, dispatch_msg, app_calls, heap, refused, events,
                 btc_backlog>>

(* Variant: the handler of the metadata event keeps the text.              *)
HandleKeepsText ==
  /\ app_pc = "handle"
  /\ app_calls' \in 0 .. MaxCalls
  /\ app_pc' = IF app_calls' = 0 THEN "free" ELSE "call"
  /\ UNCHANGED <<queue, dispatch_pc, dispatch_msg, app_msg, heap, refused,
                 events, btc_backlog>>

(* Variant: the handler frees the parameter that its caller frees again.   *)
HandleFreesParam ==
  /\ app_pc = "handle"
  /\ app_calls' \in 0 .. MaxCalls
  /\ app_pc' = IF app_calls' = 0 THEN "free" ELSE "call"
  /\ heap' = heap \ {Param(app_msg)}
  /\ UNCHANGED <<queue, dispatch_pc, dispatch_msg, app_msg, refused, events,
                 btc_backlog>>

(* bt_app_work_dispatched calls the handler: the one of the metadata event *)
(* frees the text, the others call the stack some times.                   *)
WorkDispatched ==
  /\ app_pc = "handle"
  /\ app_calls' \in IF app_msg.kind = "meta" THEN {0} ELSE 0 .. MaxCalls
  /\ app_pc' = IF app_calls' = 0 THEN "free" ELSE "call"
  /\ heap' = heap \ IF app_msg.kind = "meta" THEN {Text(app_msg)} ELSE {}
  /\ UNCHANGED <<queue, dispatch_pc, dispatch_msg, app_msg, refused, events,
                 btc_backlog>>

(* One call into the stack: waits for room in the BTC task's queue.        *)
StackCall ==
  /\ app_pc = "call"
  /\ btc_backlog < BTC_LENGTH
  /\ btc_backlog' = btc_backlog + 1
  /\ app_calls' = app_calls - 1
  /\ app_pc' = IF app_calls' = 0 THEN "free" ELSE "call"
  /\ UNCHANGED <<queue, dispatch_pc, dispatch_msg, app_msg, heap, refused,
                 events>>

(* free(msg.param), if there is one.                                       *)
FreeParam ==
  /\ app_pc = "free"
  /\ heap' = heap \ IF app_msg.kind = "bare" THEN {} ELSE {Param(app_msg)}
  /\ app_pc' = "receive"
  /\ UNCHANGED <<queue, dispatch_pc, dispatch_msg, app_msg, app_calls,
                 refused, events, btc_backlog>>

AppStep == Receive \/ WorkDispatched \/ StackCall \/ FreeParam

Next == StackPost \/ BtcStep \/ AppStep

Spec == Init /\ [][Next]_vars

-----------------------------------------------------------------------------
(* The blocks a message carries, and what is left of them once its handler *)
(* has run.                                                                *)
Blocks(m) ==
  CASE m.kind = "bare"  -> {}
    [] m.kind = "event" -> {Param(m)}
    [] m.kind = "meta"  -> {Param(m), Text(m)}

QueueOwns(q) == UNION {Blocks(q[i]) : i \in 1 .. Len(q)}

AppOwns ==
  CASE app_pc = "receive"          -> {}
    [] app_pc = "handle"           -> Blocks(app_msg)
    [] app_pc \in {"call", "free"} -> Blocks(app_msg) \ {Text(app_msg)}

DispatchOwns ==
  CASE dispatch_pc \in {"idle", "text"} -> {}
    [] dispatch_pc = "param" -> Blocks(dispatch_msg) \ {Param(dispatch_msg)}
    [] dispatch_pc = "send"  -> Blocks(dispatch_msg)

Owned == QueueOwns(queue) \cup AppOwns \cup DispatchOwns

(* No use after free: every block that a message still points to is live,  *)
(* while the message is built, waits, is handled and is released.          *)
OwnedIsLive == Owned \subseteq heap

(* The queue of events that the stack and the handlers see: memory, the    *)
(* copies of a message and the calls of a handler left out.                *)
Events ==
  INSTANCE EventQueue WITH
    newest   <- events,
    offered  <- dispatch_pc # "idle",
    waiting  <- {queue[i].id : i \in 1 .. Len(queue)},
    handling <- IF app_pc = "receive" THEN 0 ELSE app_msg.id

(* The hand-over refines it: whatever allocation fails and wherever the    *)
(* chip restarts, accepted events are handled oldest first, each once, and *)
(* none is accepted after its dispatch has returned false.                 *)
ImplementsEvents == Events!Spec

(* A block nobody owns any more belonged to an event whose dispatch        *)
(* returned false: the paths on which the dispatch succeeds leak nothing.  *)
LeaksOnlyRefused ==
  \A b \in heap \ Owned : b.of \in refused

(* The comment on the free in bt_app_task_handler, "prevent memory leaks": *)
(* every block still has an owner that will free it.                       *)
NoLeak == heap \subseteq Owned

-----------------------------------------------------------------------------
(* The BTC task runs when it has work.                                     *)
BtcFairness == WF_vars(BtcStep)

(* The application task runs when it has work, and a call that waits for a *)
(* slot in the BTC task's queue gets one of those that become free.        *)
AppFairness ==
  /\ WF_vars(Receive \/ WorkDispatched \/ FreeParam)
  /\ SF_vars(StackCall)

BtcSpec == Spec /\ BtcFairness

(* The BTC task is never held up for good by the application task, not     *)
(* even by one that hangs in a handler: the send gives up after 10 ms.     *)
DispatchReturns == dispatch_pc = "send" ~> dispatch_pc = "idle"

(* The two tasks never wait for each other for good, the one for room in   *)
(* the work queue and the other for room in the BTC queue: if handlers do  *)
(* not hang, what has been queued is handled and released, unless the chip *)
(* restarts.                                                               *)
QueuedIsHandled ==
  AppFairness =>
    \A id \in 1 .. MaxEvents :
      (\E i \in 1 .. Len(queue) : queue[i].id = id)
        ~> \/ app_msg.id = id /\ app_pc = "free"
           \/ dispatch_msg = StackUp /\ dispatch_pc = "send"
=============================================================================
