-------------------------- MODULE AvrcpController --------------------------
(***************************************************************************)
(* The AVRCP controller: the device asks a connected phone which events it *)
(* supports, registers for the three it wants, and registers again after   *)
(* every notification, for a registration is good for one notification     *)
(* only. The capabilities of the phone live in s_avrc_peer_rn_cap, which   *)
(* the handlers read and write some time after the link has changed.       *)
(*                                                                         *)
(* Left out: metadata (WorkQueue has their memory) and the events that are *)
(* only logged.                                                            *)
(***************************************************************************)
EXTENDS Integers, Sequences

CONSTANTS
  Peers,          (* the sets of events phones support                      *)
  QUEUE_LENGTH    (* length of the work queue                               *)

(* The events bt_av_notify_evt_handler knows, in the order in which they   *)
(* are registered when the capabilities arrive.                            *)
Wanted == <<"TRACK_CHANGE", "PLAY_STATUS_CHANGE", "PLAY_POS_CHANGED">>

Events == {"TRACK_CHANGE", "PLAY_STATUS_CHANGE", "PLAY_POS_CHANGED"}

ASSUME ControllerAssumption ==
  /\ Peers \subseteq SUBSET Events /\ Peers # {}
  /\ QUEUE_LENGTH \in Nat \ {0}

VARIABLES
  link,         (* the AVRCP link as the stack knows it: "down" or "up"     *)
  supported,    (* the events the phone at the other end supports           *)
  registered,   (* the events the phone will notify, each once              *)
  air,          (* commands on their way to the phone                       *)
  queue,        (* reports that wait for the application task               *)
  lost,         (* "now": a report of this connection, or the one of its    *)
                (* end, was dropped; "before": one of an earlier connection *)
                (* was, and the record may still be wrong; or "none"        *)
  rn_cap,       (* s_avrc_peer_rn_cap                                       *)
  todo          (* registrations the running handler has still to look at   *)

vars == <<link, supported, registered, air, queue, lost, rn_cap, todo>>

GetCaps == "GET_CAPS"
Connected == [type |-> "CONNECTION_STATE", connected |-> TRUE]
Disconnected == [type |-> "CONNECTION_STATE", connected |-> FALSE]
Capabilities(s) == [type |-> "GET_RN_CAPABILITIES_RSP", evt_set |-> s]
Notification(e) == [type |-> "CHANGE_NOTIFY", event_id |-> e]

Reports == {Connected, Disconnected}
           \cup {Capabilities(s) : s \in Peers}
           \cup {Notification(e) : e \in Events}

(* The range of every variable: without a link nothing is outstanding, and *)
(* the record is that of one phone, never a mixture of two.                *)
TypeOK ==
  /\ link \in {"down", "up"}
  /\ supported \in Peers
  /\ registered \subseteq supported
  /\ air \subseteq Events \cup {GetCaps}
  /\ link = "down" => registered = {} /\ air = {}
  /\ queue \in Seq(Reports)
  /\ Len(queue) <= QUEUE_LENGTH
  /\ lost \in {"none", "now", "before"}
  /\ rn_cap \in Peers \cup {{}}
  /\ todo \in Seq(Events)

Init ==
  /\ link = "down"
  /\ supported \in Peers
  /\ registered = {}
  /\ air = {}
  /\ queue = <<>>
  /\ lost = "none"
  /\ rn_cap = {}
  /\ todo = <<>>

-----------------------------------------------------------------------------
(* The stack and the phone.                                                *)

(* No change of the link waits to be handled.                              *)
UpToDate ==
  \A i \in DOMAIN queue : queue[i].type # "CONNECTION_STATE"

(* bt_app_rc_ct_cb: the result of the dispatch is ignored, and a report    *)
(* may be dropped.                                                         *)
Report(r) ==
  \/ /\ Len(queue) < QUEUE_LENGTH
     /\ queue' = Append(queue, r)
     /\ lost' = IF r = Connected /\ lost = "now" THEN "before" ELSE lost
  \/ lost' = "now" /\ UNCHANGED queue

(* Every connection may be one of another phone.                           *)
LinkUp ==
  /\ link = "down"
  /\ link' = "up"
  /\ supported' \in Peers
  /\ Report(Connected)
  /\ UNCHANGED <<registered, air, rn_cap, todo>>

LinkDown ==
  /\ link = "up"
  /\ link' = "down"
  /\ registered' = {}
  /\ air' = {}
  /\ Report(Disconnected)
  /\ UNCHANGED <<supported, rn_cap, todo>>

PeerCapabilities ==
  /\ GetCaps \in air
  /\ air' = air \ {GetCaps}
  /\ Report(Capabilities(supported))
  /\ UNCHANGED <<link, supported, registered, rn_cap, todo>>

(* A registration for an event the phone does not support is rejected.     *)
PeerRegisters(e) ==
  /\ e \in air
  /\ air' = air \ {e}
  /\ registered' = registered \cup ({e} \cap supported)
  /\ UNCHANGED <<link, supported, queue, lost, rn_cap, todo>>

PeerNotifies(e) ==
  /\ e \in registered
  /\ registered' = registered \ {e}
  /\ Report(Notification(e))
  /\ UNCHANGED <<link, supported, air, rn_cap, todo>>

StackStep ==
  \/ LinkUp \/ LinkDown \/ PeerCapabilities
  \/ \E e \in Events : PeerRegisters(e) \/ PeerNotifies(e)

-----------------------------------------------------------------------------
(* bt_av_hdl_avrc_ct_evt, in the application task.                         *)

(* A command without a link is refused, and nobody looks at the refusal.   *)
Send(cmd) == air' = IF link = "up" THEN air \cup {cmd} ELSE air

(* Variant: a phone is asked only when nothing is on record.               *)
HandleConnectedCached ==
  /\ Head(queue) = Connected
  /\ IF rn_cap = {} THEN Send(GetCaps) ELSE UNCHANGED air
  /\ UNCHANGED <<rn_cap, todo>>

HandleConnected ==
  /\ Head(queue) = Connected
  /\ Send(GetCaps)
  /\ UNCHANGED <<rn_cap, todo>>

(* Variant: the record of the last phone is kept.                          *)
HandleDisconnectedKeeps ==
  /\ Head(queue) = Disconnected
  /\ UNCHANGED <<air, rn_cap, todo>>

HandleDisconnected ==
  /\ Head(queue) = Disconnected
  /\ rn_cap' = {}
  /\ UNCHANGED <<air, todo>>

(* Variant: what the phone supports is added to what is on record.         *)
HandleCapabilitiesAdded ==
  /\ \E s \in Peers :
       /\ Head(queue) = Capabilities(s)
       /\ rn_cap' = rn_cap \cup s
  /\ todo' = Wanted
  /\ UNCHANGED air

HandleCapabilities ==
  /\ \E s \in Peers :
       /\ Head(queue) = Capabilities(s)
       /\ rn_cap' = s
  /\ todo' = Wanted
  /\ UNCHANGED air

(* Variant: one notification is enough.                                    *)
HandleNotificationOnce ==
  /\ \E e \in Events : Head(queue) = Notification(e)
  /\ UNCHANGED <<air, rn_cap, todo>>

HandleNotification ==
  /\ \E e \in Events :
       /\ Head(queue) = Notification(e)
       /\ todo' = <<e>>
  /\ UNCHANGED <<air, rn_cap>>

Receive ==
  /\ todo = <<>> /\ queue # <<>>
  /\ queue' = Tail(queue)
  /\ \/ HandleConnected \/ HandleDisconnected
     \/ HandleCapabilities \/ HandleNotification
  /\ lost' = IF /\ lost = "before" /\ UpToDate'
                /\ Head(queue).type = "GET_RN_CAPABILITIES_RSP"
             THEN "none" ELSE lost
  /\ UNCHANGED <<link, supported, registered>>

(* bt_av_new_track, bt_av_playback_changed, bt_av_play_pos_changed.        *)
Register ==
  /\ todo # <<>>
  /\ IF Head(todo) \in rn_cap THEN Send(Head(todo)) ELSE UNCHANGED air
  /\ todo' = Tail(todo)
  /\ UNCHANGED <<link, supported, registered, queue, lost, rn_cap>>

AppStep == Receive \/ Register

Next == StackStep \/ AppStep

Spec == Init /\ [][Next]_vars

(* The application task handles what is queued, and a phone answers every  *)
(* command.                                                                *)
Fairness ==
  /\ WF_vars(AppStep)
  /\ WF_vars(PeerCapabilities)
  /\ \A e \in Events : WF_vars(PeerRegisters(e))

FairSpec == Spec /\ Fairness

-----------------------------------------------------------------------------
(* Properties.                                                             *)

(* What the device believes of the phone is true of the phone it is        *)
(* connected to, or is nothing, once the changes of the link have been     *)
(* handled: s_avrc_peer_rn_cap never speaks of an earlier phone. A dropped *)
(* report spoils that until a later connection has answered.               *)
CapabilitiesCurrent ==
  lost = "none" /\ UpToDate =>
    rn_cap = {} \/ (link = "up" /\ rn_cap = supported)

(* The chain of registrations never breaks: a wanted event the phone       *)
(* supports is registered, or the registration is under way, or the        *)
(* notification that will renew it waits for its handler. A dropped report *)
(* breaks it until a later connection has answered.                        *)
ChainKept ==
  lost = "none" /\ UpToDate =>
    \A e \in rn_cap :
      \/ e \in registered \cup air
      \/ \E i \in DOMAIN todo : todo[i] = e
      \/ \E i \in DOMAIN queue : queue[i] = Notification(e)

(* Whatever a connected phone supports is registered, at the latest after  *)
(* a while, again and again, until the link goes down: a dropped report    *)
(* silences at most the rest of the connection it belongs to, however      *)
(* wrong it leaves the record.                                             *)
Registered ==
  \A e \in Events :
    link = "up" /\ e \in supported
      ~> e \in registered \/ link = "down" \/ lost = "now"
=============================================================================
