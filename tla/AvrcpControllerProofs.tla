----------------------- MODULE AvrcpControllerProofs -----------------------
(***************************************************************************)
(* Proofs about AvrcpController for all phones and every length of the     *)
(* queue.                                                                  *)
(***************************************************************************)
EXTENDS AvrcpController, TLAPS

(* Capabilities that no change of the link follows are those of the phone  *)
(* that is connected now.                                                  *)
AnswersCurrent ==
  \A i \in 1 .. Len(queue), s \in Peers :
    /\ queue[i] = Capabilities(s)
    /\ \A j \in i + 1 .. Len(queue) : queue[j].type # "CONNECTION_STATE"
    => link = "up" /\ s = supported

(* Nothing is reported between a disconnection and the next connection:    *)
(* when that is handled, the record is empty.                              *)
ConnectedFollows ==
  \A i \in 1 .. Len(queue) :
    queue[i] = Connected =>
      IF i = 1 THEN rn_cap = {} ELSE queue[i - 1] = Disconnected

EndsDisconnected ==
  link = "down" /\ queue # <<>> => queue[Len(queue)] = Disconnected

(* A drop spoils what is said of the queue until the next connection is    *)
(* reported, and what is said of the record until that has answered.       *)
ControllerInv ==
  /\ TypeOK
  /\ lost # "now" => AnswersCurrent /\ EndsDisconnected
  /\ lost = "none" => ConnectedFollows
  /\ CapabilitiesCurrent
  /\ ChainKept

-----------------------------------------------------------------------------
USE ControllerAssumption DEF ControllerAssumption

(* Reports are told apart by their types and their contents.               *)
LEMMA ReportsDiffer ==
  /\ Connected.type = "CONNECTION_STATE"
  /\ Disconnected.type = "CONNECTION_STATE"
  /\ \A s : Capabilities(s).type = "GET_RN_CAPABILITIES_RSP"
  /\ \A e : Notification(e).type = "CHANGE_NOTIFY"
  /\ Connected # Disconnected
  /\ \A s, t : Capabilities(s) = Capabilities(t) => s = t
  /\ \A d, e : Notification(d) = Notification(e) => d = e
<1>1. /\ Connected.type = "CONNECTION_STATE"
      /\ Disconnected.type = "CONNECTION_STATE"
      /\ \A s : Capabilities(s).type = "GET_RN_CAPABILITIES_RSP"
      /\ \A e : Notification(e).type = "CHANGE_NOTIFY"
  BY DEF Connected, Disconnected, Capabilities, Notification
<1>2. Connected.connected = TRUE /\ Disconnected.connected = FALSE
  BY DEF Connected, Disconnected
<1>3. Connected # Disconnected
  BY <1>2, Zenon
<1>4. /\ \A s : Capabilities(s).evt_set = s
      /\ \A e : Notification(e).event_id = e
  BY DEF Capabilities, Notification
<1>5. ASSUME NEW s, NEW t, Capabilities(s) = Capabilities(t) PROVE s = t
  <2>1. Capabilities(s).evt_set = s /\ Capabilities(t).evt_set = t
    BY <1>4
  <2> QED BY <1>5, <2>1
<1>6. ASSUME NEW d, NEW e, Notification(d) = Notification(e) PROVE d = e
  <2>1. Notification(d).event_id = d /\ Notification(e).event_id = e
    BY <1>4
  <2> QED BY <1>6, <2>1
<1> QED BY <1>1, <1>3, <1>5, <1>6

LEMMA ReportsAreReports ==
  /\ Connected \in Reports /\ Disconnected \in Reports
  /\ \A s \in Peers : Capabilities(s) \in Reports
  /\ \A e \in Events : Notification(e) \in Reports
  BY Zenon DEF Reports

(* An element of Reports is one of the four kinds.                         *)
LEMMA ReportKinds ==
  ASSUME NEW r \in Reports
  PROVE  \/ r = Connected \/ r = Disconnected
         \/ \E s \in Peers : r = Capabilities(s)
         \/ \E e \in Events : r = Notification(e)
  BY Zenon DEF Reports

LEMMA WantedFacts ==
  /\ Wanted \in Seq(Events)
  /\ \A e \in Events : \E i \in DOMAIN Wanted : Wanted[i] = e
<1>1. /\ Wanted \in Seq(Events) /\ DOMAIN Wanted = 1 .. 3
      /\ Wanted[1] = "TRACK_CHANGE"
      /\ Wanted[2] = "PLAY_STATUS_CHANGE"
      /\ Wanted[3] = "PLAY_POS_CHANGED"
  BY DEF Wanted, Events
<1> QED BY <1>1 DEF Events

-----------------------------------------------------------------------------
LEMMA TypeInit == Init => TypeOK
<1> QED BY DEF Init, TypeOK

LEMMA TypeStep == TypeOK /\ [Next]_vars => TypeOK'
<1> SUFFICES ASSUME TypeOK, [Next]_vars PROVE TypeOK'
    OBVIOUS
<1> USE DEF TypeOK
<1>1. ASSUME NEW r \in Reports, Report(r)
      PROVE  queue' \in Seq(Reports) /\ Len(queue') <= QUEUE_LENGTH
             /\ lost' \in {"none", "now", "before"}
  <2>1. lost' \in {"none", "now", "before"}
    BY <1>1 DEF Report
  <2>2. queue' \in Seq(Reports) /\ Len(queue') <= QUEUE_LENGTH
    BY <1>1 DEF Report
  <2> QED BY <2>1, <2>2
<1>2. CASE LinkUp
  BY <1>1, <1>2, ReportsAreReports DEF LinkUp
<1>3. CASE LinkDown
  BY <1>1, <1>3, ReportsAreReports DEF LinkDown
<1>4. CASE PeerCapabilities
  BY <1>1, <1>4, ReportsAreReports DEF PeerCapabilities
<1>5. ASSUME NEW e \in Events, PeerRegisters(e) PROVE TypeOK'
  BY <1>5 DEF PeerRegisters
<1>6. ASSUME NEW e \in Events, PeerNotifies(e) PROVE TypeOK'
  BY <1>1, <1>6, ReportsAreReports DEF PeerNotifies
<1>7. CASE Receive
  <2>1. queue' \in Seq(Reports) /\ Len(queue') <= QUEUE_LENGTH
    BY <1>7 DEF Receive
  <2>2. /\ UNCHANGED <<link, supported, registered>>
        /\ lost' \in {"none", "now", "before"}
    BY <1>7 DEF Receive
  <2>3. CASE HandleConnected
    BY <2>1, <2>2, <2>3 DEF HandleConnected, Send
  <2>4. CASE HandleDisconnected
    BY <2>1, <2>2, <2>4 DEF HandleDisconnected
  <2>5. CASE HandleCapabilities
    BY <2>1, <2>2, <2>5, WantedFacts DEF HandleCapabilities
  <2>6. CASE HandleNotification
    BY <2>1, <2>2, <2>6 DEF HandleNotification
  <2> QED BY <1>7, <2>3, <2>4, <2>5, <2>6 DEF Receive
<1>8. CASE Register
  <2>1. Head(todo) \in Events /\ todo' \in Seq(Events)
    BY <1>8 DEF Register
  <2>2. air' \subseteq Events \cup {GetCaps} /\ (link = "down" => air' = {})
    BY <1>8, <2>1 DEF Register, Send
  <2> QED BY <1>8, <2>1, <2>2 DEF Register
<1>9. CASE UNCHANGED vars
  BY <1>9 DEF vars
<1> QED BY <1>2, <1>3, <1>4, <1>5, <1>6, <1>7, <1>8, <1>9
        DEF Next, StackStep, AppStep

(* The variables keep their range, and without a link nothing is           *)
(* outstanding, whatever is dropped.                                       *)
THEOREM TypeCorrect == Spec => []TypeOK
<1> QED BY TypeInit, TypeStep, PTL DEF Spec

-----------------------------------------------------------------------------
(* What a report and a reception do to the queue.                          *)

LEMMA Reported ==
  ASSUME TypeOK, NEW r \in Reports, Report(r), lost' # "now"
  PROVE  /\ r # Connected => lost # "now"
         /\ lost' = "none" => lost = "none"
         /\ Len(queue) \in Nat
         /\ Len(queue') = Len(queue) + 1
         /\ \A i \in 1 .. Len(queue) : queue'[i] = queue[i]
         /\ queue'[Len(queue) + 1] = r
         /\ queue' # <<>>
         /\ DOMAIN queue = 1 .. Len(queue)
         /\ DOMAIN queue' = 1 .. Len(queue) + 1
<1>1. /\ queue' = Append(queue, r)
      /\ lost' = IF r = Connected /\ lost = "now" THEN "before" ELSE lost
  BY DEF Report
<1>2. queue \in Seq(Reports)
  BY DEF TypeOK
<1> QED BY <1>1, <1>2

LEMMA Received ==
  ASSUME TypeOK, Receive
  PROVE  /\ Len(queue) \in Nat \ {0}
         /\ Len(queue') = Len(queue) - 1
         /\ \A i \in 1 .. Len(queue) - 1 : queue'[i] = queue[i + 1]
         /\ Head(queue) = queue[1]
         /\ DOMAIN queue = 1 .. Len(queue)
         /\ DOMAIN queue' = 1 .. Len(queue) - 1
         /\ queue[1] \in Reports
         /\ todo = <<>>
         /\ lost' # "now" => lost # "now"
         /\ lost' = "none" =>
              \/ lost = "none"
              \/ UpToDate' /\ queue[1].type = "GET_RN_CAPABILITIES_RSP"
<1>1. queue' = Tail(queue) /\ queue # <<>> /\ todo = <<>>
  BY DEF Receive
<1>2. queue \in Seq(Reports)
  BY DEF TypeOK
<1>3. lost' = IF /\ lost = "before" /\ UpToDate'
                 /\ Head(queue).type = "GET_RN_CAPABILITIES_RSP"
              THEN "none" ELSE lost
  BY DEF Receive
<1>4. Head(queue) = queue[1]
  BY <1>1, <1>2
<1> QED BY <1>1, <1>2, <1>3, <1>4

-----------------------------------------------------------------------------
(* The two statements about the queue, step by step.                       *)

(* What the queue holds, once a connection has been reported in full.      *)
LEMMA QueueStep ==
  ASSUME ControllerInv, [Next]_vars, lost' # "now"
  PROVE  AnswersCurrent' /\ EndsDisconnected'
<1> USE ReportsDiffer, ReportsAreReports
<1>1. TypeOK
  BY DEF ControllerInv
<1>2. lost # "now" => AnswersCurrent /\ EndsDisconnected
  BY DEF ControllerInv
<1>3. CASE LinkUp
  <2>1. Report(Connected) /\ link' = "up"
    BY <1>3 DEF LinkUp
  <2>2. AnswersCurrent'
    BY <1>1, <2>1, Reported DEF AnswersCurrent
  <2> QED BY <2>1, <2>2 DEF EndsDisconnected
<1>4. CASE LinkDown
  <2>1. Report(Disconnected)
    BY <1>4 DEF LinkDown
  <2>2. AnswersCurrent'
    BY <1>1, <2>1, Reported DEF AnswersCurrent
  <2> QED BY <1>1, <2>1, <2>2, Reported DEF EndsDisconnected
<1>5. CASE PeerCapabilities
  <2>1. /\ Report(Capabilities(supported)) /\ UNCHANGED <<link, supported>>
        /\ link = "up" /\ supported \in Peers
    BY <1>1, <1>5 DEF PeerCapabilities, TypeOK
  <2>2. Capabilities(supported) # Connected
    OBVIOUS
  <2>3. lost # "now"
    BY <1>1, <2>1, <2>2, Reported
  <2>4. AnswersCurrent'
    BY <1>1, <1>2, <2>1, <2>3, Reported DEF AnswersCurrent
  <2> QED BY <2>1, <2>4 DEF EndsDisconnected
<1>6. ASSUME NEW e \in Events, PeerRegisters(e)
      PROVE  AnswersCurrent' /\ EndsDisconnected'
  BY <1>2, <1>6 DEF PeerRegisters, AnswersCurrent, EndsDisconnected
<1>7. ASSUME NEW e \in Events, PeerNotifies(e)
      PROVE  AnswersCurrent' /\ EndsDisconnected'
  <2>1. /\ Report(Notification(e)) /\ UNCHANGED <<link, supported>>
        /\ link = "up"
    BY <1>1, <1>7 DEF PeerNotifies, TypeOK
  <2>2. Notification(e) # Connected
    OBVIOUS
  <2>3. lost # "now"
    BY <1>1, <2>1, <2>2, Reported
  <2>4. AnswersCurrent'
    BY <1>1, <1>2, <2>1, <2>3, Reported DEF AnswersCurrent
  <2> QED BY <2>1, <2>4 DEF EndsDisconnected
<1>8. CASE Receive
  <2>1. UNCHANGED <<link, supported>>
    BY <1>8 DEF Receive
  <2>2. AnswersCurrent /\ EndsDisconnected
    BY <1>1, <1>2, <1>8, Received
  <2>3. AnswersCurrent'
    <3> SUFFICES ASSUME NEW i \in 1 .. Len(queue'), NEW s \in Peers,
                        queue'[i] = Capabilities(s),
                        \A j \in i + 1 .. Len(queue') :
                          queue'[j].type # "CONNECTION_STATE"
                 PROVE  link = "up" /\ s = supported
        BY <2>1 DEF AnswersCurrent
    <3>1. i + 1 \in 1 .. Len(queue) /\ queue[i + 1] = Capabilities(s)
      BY <1>1, <1>8, Received
    <3>2. \A j \in i + 1 + 1 .. Len(queue) : queue[j].type # "CONNECTION_STATE"
      <4> TAKE j \in i + 1 + 1 .. Len(queue)
      <4>1. j - 1 \in i + 1 .. Len(queue') /\ queue'[j - 1] = queue[j]
        BY <1>1, <1>8, Received
      <4> QED BY <4>1
    <3> QED BY <2>2, <3>1, <3>2 DEF AnswersCurrent
  <2>4. EndsDisconnected'
    <3>1. queue \in Seq(Reports) /\ queue' = Tail(queue) /\ queue # <<>>
      BY <1>1, <1>8 DEF Receive, TypeOK
    <3>2. queue' # <<>> => Len(queue) > 1
      BY <3>1
    <3> QED BY <1>1, <1>8, <2>1, <2>2, <3>1, <3>2, Received
            DEF EndsDisconnected
  <2> QED BY <2>3, <2>4
<1>9. CASE Register
  BY <1>2, <1>9 DEF Register, AnswersCurrent, EndsDisconnected
<1>10. CASE UNCHANGED vars
  BY <1>2, <1>10 DEF vars, AnswersCurrent, EndsDisconnected
<1> QED BY <1>3, <1>4, <1>5, <1>6, <1>7, <1>8, <1>9, <1>10
        DEF Next, StackStep, AppStep

(* A connection in the queue follows the end of the one before.            *)
LEMMA ConnectedStep ==
  ASSUME ControllerInv, [Next]_vars, lost' = "none"
  PROVE  ConnectedFollows'
<1> USE ReportsDiffer, ReportsAreReports
<1>1. TypeOK
  BY DEF ControllerInv
<1>2. lost = "none" => ConnectedFollows /\ EndsDisconnected
  BY DEF ControllerInv
<1>3. CASE LinkUp
  <2>1. Report(Connected) /\ UNCHANGED rn_cap /\ link = "down"
    BY <1>3 DEF LinkUp
  <2>2. lost = "none"
    BY <1>1, <2>1, Reported
  <2>3. queue = <<>> => rn_cap = {}
    BY <2>1, <2>2 DEF ControllerInv, CapabilitiesCurrent, UpToDate
  <2>4. queue # <<>> => queue[Len(queue)] = Disconnected
    BY <1>2, <2>1, <2>2 DEF EndsDisconnected
  <2>5. Len(queue) = 0 <=> queue = <<>>
    BY <1>1 DEF TypeOK
  <2> QED BY <1>1, <1>2, <2>1, <2>2, <2>3, <2>4, <2>5, Reported
          DEF ConnectedFollows
<1>4. ASSUME NEW r \in Reports, Report(r), r # Connected, UNCHANGED rn_cap
      PROVE  ConnectedFollows'
  <2>1. lost = "none"
    BY <1>1, <1>4, Reported
  <2> QED BY <1>1, <1>2, <1>4, <2>1, Reported DEF ConnectedFollows
<1>5. CASE LinkDown
  BY <1>4, <1>5 DEF LinkDown
<1>6. CASE PeerCapabilities
  <2>1. supported \in Peers /\ Capabilities(supported) # Connected
    BY <1>1 DEF TypeOK
  <2> QED BY <1>4, <1>6, <2>1 DEF PeerCapabilities
<1>7. ASSUME NEW e \in Events, PeerRegisters(e) PROVE ConnectedFollows'
  BY <1>2, <1>7 DEF PeerRegisters, ConnectedFollows
<1>8. ASSUME NEW e \in Events, PeerNotifies(e) PROVE ConnectedFollows'
  <2>1. Notification(e) # Connected
    OBVIOUS
  <2> QED BY <1>4, <1>8, <2>1 DEF PeerNotifies
<1>9. CASE Receive
  <2> SUFFICES ASSUME NEW i \in 1 .. Len(queue'), queue'[i] = Connected
               PROVE  IF i = 1 THEN rn_cap' = {}
                      ELSE queue'[i - 1] = Disconnected
      BY DEF ConnectedFollows
  <2>1. ~UpToDate'
    <3>1. i \in DOMAIN queue' /\ queue'[i].type = "CONNECTION_STATE"
      BY <1>1, <1>9, Received
    <3> QED BY <3>1 DEF UpToDate
  <2>2. ConnectedFollows
    BY <1>1, <1>2, <1>9, <2>1, Received
  <2>3. i + 1 \in 1 .. Len(queue) /\ queue[i + 1] = Connected
    BY <1>1, <1>9, Received
  <2>4. queue[i] = Disconnected
    BY <2>2, <2>3 DEF ConnectedFollows
  <2>5. CASE i = 1
    <3>1. Head(queue) = Disconnected
      BY <1>1, <1>9, <2>4, <2>5, Received
    <3> QED BY <1>9, <2>5, <3>1
            DEF Receive, HandleConnected, HandleDisconnected,
                HandleCapabilities, HandleNotification
  <2>6. CASE i # 1
    BY <1>1, <1>9, <2>4, <2>6, Received
  <2> QED BY <2>5, <2>6
<1>10. CASE Register
  BY <1>2, <1>10 DEF Register, ConnectedFollows
<1>11. CASE UNCHANGED vars
  BY <1>2, <1>11 DEF vars, ConnectedFollows
<1> QED BY <1>3, <1>5, <1>6, <1>7, <1>8, <1>9, <1>10, <1>11
        DEF Next, StackStep, AppStep

-----------------------------------------------------------------------------
(* The record and the chains of registrations, step by step.               *)

(* A change of the link that has just been reported is not handled yet.    *)
LEMMA ChangeIsNews ==
  ASSUME TypeOK, NEW r \in Reports, Report(r), lost' = "none",
         r.type = "CONNECTION_STATE"
  PROVE  ~UpToDate'
<1>1. /\ Len(queue) + 1 \in DOMAIN queue'
      /\ queue'[Len(queue) + 1] = r
  BY Reported
<1> QED BY <1>1 DEF UpToDate

(* Another report is no change of the link.                                *)
LEMMA ReportIsNoChange ==
  ASSUME TypeOK, NEW r \in Reports, Report(r), lost' = "none", UpToDate'
  PROVE  UpToDate
<1> QED BY Reported DEF UpToDate

LEMMA CapabilitiesStep ==
  ASSUME ControllerInv, [Next]_vars
  PROVE  CapabilitiesCurrent'
<1> USE ReportsDiffer, ReportsAreReports
<1> SUFFICES ASSUME lost' = "none", UpToDate'
             PROVE  rn_cap' = {} \/ (link' = "up" /\ rn_cap' = supported')
    BY DEF CapabilitiesCurrent
<1>1. TypeOK
  BY DEF ControllerInv
<1>2. lost = "none" /\ UpToDate => rn_cap = {} \/ (link = "up" /\ rn_cap = supported)
  BY DEF ControllerInv, CapabilitiesCurrent
<1>3. CASE LinkUp
  BY <1>1, <1>3, ChangeIsNews DEF LinkUp
<1>4. CASE LinkDown
  BY <1>1, <1>4, ChangeIsNews DEF LinkDown
<1>5. CASE PeerCapabilities
  <2>1. /\ Report(Capabilities(supported)) /\ supported \in Peers
        /\ UNCHANGED <<link, supported, rn_cap>>
    BY <1>1, <1>5 DEF PeerCapabilities, TypeOK
  <2> QED BY <1>1, <1>2, <2>1, ReportIsNoChange, Reported
<1>6. ASSUME NEW e \in Events, PeerRegisters(e)
      PROVE  rn_cap' = {} \/ (link' = "up" /\ rn_cap' = supported')
  BY <1>2, <1>6 DEF PeerRegisters, UpToDate
<1>7. ASSUME NEW e \in Events, PeerNotifies(e)
      PROVE  rn_cap' = {} \/ (link' = "up" /\ rn_cap' = supported')
  <2>1. Report(Notification(e)) /\ UNCHANGED <<link, supported, rn_cap>>
    BY <1>7 DEF PeerNotifies
  <2> QED BY <1>1, <1>2, <2>1, ReportIsNoChange, Reported
<1>8. CASE Receive
  <2>1. UNCHANGED <<link, supported>>
    BY <1>8 DEF Receive
  <2>2. AnswersCurrent
    BY <1>1, <1>8, Received DEF ControllerInv
  <2>3. Head(queue) = queue[1] /\ 1 \in 1 .. Len(queue)
    BY <1>1, <1>8, Received
  <2>9. queue[1].type # "GET_RN_CAPABILITIES_RSP" =>
          lost = "none" /\ ConnectedFollows
    BY <1>1, <1>8, Received DEF ControllerInv
  <2>4. \A j \in 2 .. Len(queue) : queue[j].type # "CONNECTION_STATE"
    <3> TAKE j \in 2 .. Len(queue)
    <3>1. j - 1 \in DOMAIN queue' /\ queue'[j - 1] = queue[j]
      BY <1>1, <1>8, Received
    <3> QED BY <3>1 DEF UpToDate
  <2>5. CASE HandleConnected
    <3>1. rn_cap = {}
      BY <2>3, <2>5, <2>9 DEF HandleConnected, ConnectedFollows
    <3> QED BY <2>5, <3>1 DEF HandleConnected
  <2>6. CASE HandleDisconnected
    BY <2>6 DEF HandleDisconnected
  <2>7. CASE HandleCapabilities
    <3>1. PICK s \in Peers : Head(queue) = Capabilities(s) /\ rn_cap' = s
      BY <2>7 DEF HandleCapabilities
    <3>2. link = "up" /\ s = supported
      BY <2>2, <2>3, <2>4, <3>1 DEF AnswersCurrent
    <3> QED BY <2>1, <3>1, <3>2
  <2>8. CASE HandleNotification
    <3>1. /\ queue[1].type = "CHANGE_NOTIFY" /\ UNCHANGED rn_cap
          /\ lost = "none"
      BY <2>3, <2>8, <2>9 DEF HandleNotification
    <3>2. UpToDate
      BY <1>1, <1>8, <2>4, <3>1, Received DEF UpToDate
    <3> QED BY <1>2, <2>1, <3>1, <3>2
  <2> QED BY <1>8, <2>5, <2>6, <2>7, <2>8 DEF Receive
<1>9. CASE Register
  BY <1>2, <1>9 DEF Register, UpToDate
<1>10. CASE UNCHANGED vars
  BY <1>2, <1>10 DEF vars, UpToDate
<1> QED BY <1>3, <1>4, <1>5, <1>6, <1>7, <1>8, <1>9, <1>10
        DEF Next, StackStep, AppStep

(* The link of the chain that the event e is at.                           *)
Chained(e) ==
  \/ e \in registered \cup air
  \/ \E i \in DOMAIN todo : todo[i] = e
  \/ \E i \in DOMAIN queue : queue[i] = Notification(e)

LEMMA ChainStep ==
  ASSUME ControllerInv, [Next]_vars
  PROVE  ChainKept'
<1> USE ReportsDiffer, ReportsAreReports
<1> SUFFICES ASSUME lost' = "none", UpToDate', NEW e \in rn_cap' PROVE Chained(e)'
    BY DEF ChainKept, Chained
<1>1. TypeOK
  BY DEF ControllerInv
<1>2. TypeOK'
  BY <1>1, TypeStep
<1>3. e \in Events
  BY <1>2 DEF TypeOK
<1>4. lost = "none" /\ UpToDate /\ e \in rn_cap => Chained(e)
  BY DEF ControllerInv, ChainKept, Chained
<1>5. lost = "none" /\ UpToDate /\ e \in rn_cap => link = "up" /\ e \in supported
  BY DEF ControllerInv, CapabilitiesCurrent
<1>6. ASSUME NEW r \in Reports, Report(r),
             \E i \in DOMAIN queue : queue[i] = Notification(e)
      PROVE  \E i \in DOMAIN queue' : queue'[i] = Notification(e)
  BY <1>1, <1>6, Reported
<1>7. CASE LinkUp
  BY <1>1, <1>7, ChangeIsNews DEF LinkUp
<1>8. CASE LinkDown
  BY <1>1, <1>8, ChangeIsNews DEF LinkDown
<1>9. CASE PeerCapabilities
  <2>1. /\ Report(Capabilities(supported)) /\ supported \in Peers
        /\ air' = air \ {GetCaps} /\ UNCHANGED <<registered, rn_cap, todo>>
    BY <1>1, <1>9 DEF PeerCapabilities, TypeOK
  <2>2. Chained(e)
    BY <1>1, <1>4, <2>1, ReportIsNoChange, Reported
  <2>3. e # GetCaps
    BY <1>3 DEF Events, GetCaps
  <2> QED BY <1>6, <2>1, <2>2, <2>3 DEF Chained
<1>10. ASSUME NEW d \in Events, PeerRegisters(d) PROVE Chained(e)'
  <2>1. /\ air' = air \ {d} /\ registered' = registered \cup ({d} \cap supported)
        /\ UNCHANGED <<queue, lost, rn_cap, todo>>
    BY <1>10 DEF PeerRegisters
  <2>2. Chained(e) /\ e \in supported
    BY <1>4, <1>5, <2>1 DEF UpToDate
  <2> QED BY <2>1, <2>2 DEF Chained
<1>11. ASSUME NEW d \in Events, PeerNotifies(d) PROVE Chained(e)'
  <2>1. /\ registered' = registered \ {d} /\ Report(Notification(d))
        /\ UNCHANGED <<air, rn_cap, todo>>
    BY <1>11 DEF PeerNotifies
  <2>2. Chained(e)
    BY <1>1, <1>4, <2>1, ReportIsNoChange, Reported
  <2>3. \E i \in DOMAIN queue' : queue'[i] = Notification(d)
    BY <1>1, <2>1, Reported
  <2> QED BY <1>6, <2>1, <2>2, <2>3 DEF Chained
<1>12. CASE Receive
  <2>1. /\ UNCHANGED registered /\ todo = <<>>
        /\ Head(queue) = queue[1]
    BY <1>1, <1>12, Received DEF Receive
  <2>6. queue[1].type # "GET_RN_CAPABILITIES_RSP" => lost = "none"
    BY <1>1, <1>12, Received
  <2>2. CASE HandleConnected
    <3>1. ConnectedFollows /\ 1 \in 1 .. Len(queue)
      BY <1>1, <1>12, <2>1, <2>2, <2>6, Received
         DEF ControllerInv, HandleConnected
    <3>2. rn_cap' = {}
      BY <2>1, <2>2, <3>1 DEF HandleConnected, ConnectedFollows
    <3> QED BY <3>2
  <2>3. CASE HandleDisconnected
    BY <2>3 DEF HandleDisconnected
  <2>4. CASE HandleCapabilities
    BY <1>3, <2>4, WantedFacts DEF HandleCapabilities, Chained
  <2>5. CASE HandleNotification
    <3>1. PICK d \in Events : queue[1] = Notification(d) /\ todo' = <<d>>
      BY <2>1, <2>5 DEF HandleNotification
    <3>2. UNCHANGED <<air, rn_cap>>
      BY <2>5 DEF HandleNotification
    <3>3. UpToDate
      <4> SUFFICES ASSUME NEW j \in 1 .. Len(queue)
                   PROVE  queue[j].type # "CONNECTION_STATE"
          BY <1>1, <1>12, Received DEF UpToDate
      <4>1. CASE j = 1
        BY <3>1, <4>1
      <4>2. CASE j # 1
        <5>1. j - 1 \in DOMAIN queue' /\ queue'[j - 1] = queue[j]
          BY <1>1, <1>12, <4>2, Received
        <5> QED BY <5>1 DEF UpToDate
      <4> QED BY <4>1, <4>2
    <3>4. Chained(e)
      BY <1>4, <2>1, <2>6, <3>1, <3>2, <3>3
    <3>5. CASE e = d
      <4>1. 1 \in DOMAIN todo' /\ todo'[1] = e
        BY <3>1, <3>5
      <4> QED BY <4>1 DEF Chained
    <3>6. CASE e # d
      <4>1. CASE e \in registered \cup air
        BY <2>1, <3>2, <4>1 DEF Chained
      <4>2. CASE \E i \in DOMAIN queue : queue[i] = Notification(e)
        <5>1. PICK i \in DOMAIN queue : queue[i] = Notification(e)
          BY <4>2
        <5>2. i # 1
          BY <3>1, <3>6, <5>1
        <5>3. i - 1 \in DOMAIN queue' /\ queue'[i - 1] = queue[i]
          BY <1>1, <1>12, <5>2, Received
        <5> QED BY <5>1, <5>3 DEF Chained
      <4> QED BY <2>1, <3>4, <4>1, <4>2 DEF Chained
    <3> QED BY <3>5, <3>6
  <2> QED BY <1>12, <2>2, <2>3, <2>4, <2>5 DEF Receive
<1>13. CASE Register
  <2>1. /\ UNCHANGED <<registered, queue, lost, rn_cap>>
        /\ todo # <<>> /\ todo' = Tail(todo) /\ todo \in Seq(Events)
    BY <1>1, <1>13 DEF Register, TypeOK
  <2>2. Chained(e) /\ link = "up" /\ e \in rn_cap
    BY <1>4, <1>5, <2>1 DEF UpToDate
  <2>3. air' = IF Head(todo) \in rn_cap THEN air \cup {Head(todo)} ELSE air
    BY <1>13, <2>2 DEF Register, Send
  <2>4. CASE \E i \in DOMAIN todo : todo[i] = e
    <3>1. PICK i \in DOMAIN todo : todo[i] = e
      BY <2>4
    <3>2. CASE i = 1
      <4>1. e \in air'
        BY <2>1, <2>2, <2>3, <3>1, <3>2
      <4> QED BY <4>1 DEF Chained
    <3>3. CASE i # 1
      <4>1. i - 1 \in DOMAIN todo' /\ todo'[i - 1] = e
        BY <2>1, <3>1, <3>3
      <4> QED BY <4>1 DEF Chained
    <3> QED BY <3>2, <3>3
  <2>5. CASE ~ \E i \in DOMAIN todo : todo[i] = e
    BY <2>1, <2>2, <2>3, <2>5 DEF Chained
  <2> QED BY <2>4, <2>5
<1>14. CASE UNCHANGED vars
  BY <1>4, <1>14 DEF vars, UpToDate, Chained
<1> QED BY <1>7, <1>8, <1>9, <1>10, <1>11, <1>12, <1>13, <1>14
        DEF Next, StackStep, AppStep

-----------------------------------------------------------------------------
LEMMA ControllerInvariant == Spec => []ControllerInv
<1>1. Init => ControllerInv
  <2> SUFFICES ASSUME Init PROVE ControllerInv
      OBVIOUS
  <2>1. queue = <<>> /\ rn_cap = {}
    BY DEF Init
  <2> QED BY <2>1, TypeInit DEF ControllerInv, AnswersCurrent,
             ConnectedFollows, EndsDisconnected, CapabilitiesCurrent,
             ChainKept
<1>2. ControllerInv /\ [Next]_vars => ControllerInv'
  <2> SUFFICES ASSUME ControllerInv, [Next]_vars PROVE ControllerInv'
      OBVIOUS
  <2> QED BY TypeStep, QueueStep, ConnectedStep, CapabilitiesStep, ChainStep
          DEF ControllerInv
<1> QED BY <1>1, <1>2, PTL DEF Spec

(* The record of capabilities is never that of an earlier phone once the   *)
(* changes of the link have been handled.                                  *)
THEOREM RecordIsCurrent == Spec => []CapabilitiesCurrent
<1>1. ControllerInv => CapabilitiesCurrent
  BY DEF ControllerInv
<1> QED BY <1>1, ControllerInvariant, PTL

(* No chain of registrations breaks: registered, on its way, waiting in    *)
(* the handler, or waiting as a notification in the queue.                 *)
THEOREM ChainsKeep == Spec => []ChainKept
<1>1. ControllerInv => ChainKept
  BY DEF ControllerInv
<1> QED BY <1>1, ControllerInvariant, PTL
=============================================================================
