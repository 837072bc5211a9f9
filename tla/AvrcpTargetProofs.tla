------------------------- MODULE AvrcpTargetProofs -------------------------
(***************************************************************************)
(* Proofs about AvrcpTarget for every length of the queue, every set of    *)
(* volumes and every bound on the tasks.                                   *)
(***************************************************************************)
EXTENDS AvrcpTarget, FiniteSetTheorems, TLAPS

(* What the reports make of the simulation tasks: their number, and        *)
(* whether the handle is that of one of them.                              *)
Views == [tasks : Int, live : BOOLEAN]

(* The view k becomes l with a report r.                                   *)
Leads(k, r, l) ==
  \/ r = Connected /\ l.tasks = k.tasks + 1 /\ l.live
  \/ r = Disconnected /\ k.live /\ l.tasks = k.tasks - 1 /\ ~l.live
  \/ r \notin {Connected, Disconnected} /\ l = k

(* The reports lead to one task for a connected phone, one for every       *)
(* disconnection that was never reported, and a handle to take it down.    *)
Ends(k) ==
  /\ k.tasks = left + IF link = "up" THEN 1 ELSE 0
  /\ link = "up" => k.live

(* h remembers the views from the one the handler has come to up to the    *)
(* one for the link; the reports in the queue lead from each to the next.  *)
History(h) ==
  /\ h[1].tasks = Cardinality(tasks)
  /\ h[1].live <=> s_vcs_task_hdl \in tasks
  /\ \A i \in 1 .. Len(queue) : Leads(h[i], queue[i], h[i + 1])
  /\ Ends(h[Len(queue) + 1])

Explained ==
  app = "alive" /\ \E h \in [1 .. Len(queue) + 1 -> Views] : History(h)

(* A volume in the queue.                                                  *)
Sets(r) == \E v \in Volumes : r = SetVolume(v)

(* The last volume in the queue, or the handler's if there is none, is the *)
(* one a phone has set last, unless the report of that one was dropped.    *)
VolumeInv ==
  \/ unheard
  \/ s_volume = set /\ \A i \in 1 .. Len(queue) : ~Sets(queue[i])
  \/ \E i \in 1 .. Len(queue) :
       /\ queue[i] = SetVolume(set) /\ set \in Volumes
       /\ \A j \in i + 1 .. Len(queue) : ~Sets(queue[j])

TargetInv == TypeOK /\ VolumeInv /\ (~missed => Explained)

-----------------------------------------------------------------------------
USE TargetAssumption DEF TargetAssumption

(* Reports are told apart by their types and their contents.               *)
LEMMA ReportsDiffer ==
  /\ Connected # Disconnected
  /\ Connected # AskVolume /\ Disconnected # AskVolume
  /\ \A v : Connected # SetVolume(v) /\ Disconnected # SetVolume(v)
            /\ AskVolume # SetVolume(v)
  /\ \A v, w : SetVolume(v) = SetVolume(w) => v = w
<1>1. /\ Connected.type = "CONNECTION_STATE"
      /\ Disconnected.type = "CONNECTION_STATE"
      /\ AskVolume.type = "REGISTER_NOTIFICATION"
      /\ \A v : SetVolume(v).type = "SET_ABSOLUTE_VOLUME_CMD"
  BY DEF Connected, Disconnected, AskVolume, SetVolume
<1>2. Connected.connected = TRUE /\ Disconnected.connected = FALSE
  BY DEF Connected, Disconnected
<1>3. \A v : SetVolume(v).volume = v
  BY DEF SetVolume
<1>4. Connected # Disconnected
  BY <1>2, Zenon
<1> QED BY <1>1, <1>3, <1>4

LEMMA ReportsAreReports ==
  /\ Connected \in Reports /\ Disconnected \in Reports /\ AskVolume \in Reports
  /\ \A v \in Volumes : SetVolume(v) \in Reports
  BY Zenon DEF Reports

(* One task more, and one less.                                            *)
LEMMA TaskCounts ==
  ASSUME TypeOK
  PROVE  /\ Cardinality(tasks) \in Nat
         /\ \A t \in Tasks \ tasks :
              Cardinality(tasks \cup {t}) = Cardinality(tasks) + 1
         /\ \A t \in tasks : Cardinality(tasks \ {t}) = Cardinality(tasks) - 1
<1>1. IsFiniteSet(tasks)
  BY FS_Subset DEF TypeOK
<1> QED BY <1>1, FS_CardinalityType, FS_AddElement, FS_RemoveElement

LEMMA TypeInit == Init => TypeOK
<1>1. Init => /\ unheard \in BOOLEAN /\ missed \in BOOLEAN
              /\ s_volume_notify \in BOOLEAN
  BY Zenon DEF Init
<1> QED BY <1>1 DEF Init, TypeOK

LEMMA TypeStep == TypeOK /\ [Next]_vars => TypeOK'
<1> SUFFICES ASSUME TypeOK, [Next]_vars PROVE TypeOK'
    OBVIOUS
<1> USE DEF TypeOK, vcsVars, volumeVars, history
<1>1. CASE Restart
  <2>1. unheard' \in BOOLEAN /\ missed' \in BOOLEAN /\ s_volume_notify' \in BOOLEAN
    BY <1>1, Zenon DEF Restart
  <2> QED BY <1>1, <2>1 DEF Restart
<1>2. ASSUME NEW r \in Reports, Send(r)
      PROVE  queue' \in Seq(Reports) /\ Len(queue') <= QUEUE_LENGTH
  BY <1>2 DEF Send
<1>3. CASE StackStep
  <2>1. CASE LinkUp
    <3>1. missed' \in BOOLEAN
      BY <2>1, Zenon DEF LinkUp
    <3>2. queue' \in Seq(Reports) /\ Len(queue') <= QUEUE_LENGTH
      BY <1>2, <2>1, ReportsAreReports DEF LinkUp
    <3> QED BY <2>1, <3>1, <3>2 DEF LinkUp
  <2>2. CASE LinkDown
    BY <1>2, <2>2, ReportsAreReports DEF LinkDown
  <2>3. CASE PhoneAsksVolume
    BY <1>2, <2>3, ReportsAreReports DEF PhoneAsksVolume
  <2>4. ASSUME NEW v \in Volumes, PhoneSetsVolume(v) PROVE TypeOK'
    <3>1. unheard' \in BOOLEAN
      BY <2>4, Zenon DEF PhoneSetsVolume
    <3>2. queue' \in Seq(Reports) /\ Len(queue') <= QUEUE_LENGTH
      BY <1>2, <2>4, ReportsAreReports DEF PhoneSetsVolume
    <3> QED BY <2>4, <3>1, <3>2 DEF PhoneSetsVolume
  <2> QED BY <1>3, <2>1, <2>2, <2>3, <2>4 DEF StackStep
<1>4. ASSUME NEW r, Receive(r)
      PROVE  /\ queue' \in Seq(Reports) /\ Len(queue') <= QUEUE_LENGTH
             /\ UNCHANGED <<link, set>>
  BY <1>4 DEF Receive
<1>5. CASE AppStep
  <2>1. CASE HandleConnected
    BY <1>4, <2>1 DEF HandleConnected
  <2>2. CASE HandleConnectedFails
    <3>1. missed' \in BOOLEAN
      BY <2>2, Zenon DEF HandleConnectedFails
    <3> QED BY <1>4, <2>2, <3>1 DEF HandleConnectedFails
  <2>3. CASE HandleDisconnected
    BY <1>4, <2>3 DEF HandleDisconnected
  <2>4. CASE HandleDisconnectedDeletesApp
    BY <1>4, <2>4 DEF HandleDisconnectedDeletesApp
  <2>5. CASE HandleDisconnectedPanic
    BY <1>1, <2>5 DEF HandleDisconnectedPanic
  <2>6. CASE HandleSetVolume
    BY <1>4, <2>6 DEF HandleSetVolume
  <2>7. CASE HandleAskVolume
    <3>1. s_volume_notify' \in BOOLEAN
      BY <2>7, Zenon DEF HandleAskVolume
    <3> QED BY <1>4, <2>7, <3>1 DEF HandleAskVolume
  <2> QED BY <1>5, <2>1, <2>2, <2>3, <2>4, <2>5, <2>6, <2>7 DEF AppStep
<1>6. CASE UNCHANGED vars
  BY <1>6 DEF vars
<1>7. CASE SimulationWakes
  BY <1>6, <1>7 DEF SimulationWakes
<1> QED BY <1>3, <1>5, <1>6, <1>7 DEF Next

(* The variables keep their range, and no simulation task runs without a   *)
(* handle, whatever is dropped and whatever cannot be created.             *)
THEOREM TypeCorrect == Spec => []TypeOK
<1> QED BY TypeInit, TypeStep, PTL DEF Spec

-----------------------------------------------------------------------------
(* How the history is carried from step to step.                           *)

LEMMA InitExplained == Init => Explained
<1> SUFFICES ASSUME Init PROVE Explained
    OBVIOUS
<1> DEFINE k == [tasks |-> 0, live |-> FALSE]
           h == [i \in 1 .. 1 |-> k]
<1>1. Len(queue) = 0
  BY DEF Init
<1>2. k.tasks = Cardinality(tasks) /\ (k.live <=> s_vcs_task_hdl \in tasks) /\ Ends(k)
  BY FS_EmptySet DEF Init, Ends
<1>3. h \in [1 .. Len(queue) + 1 -> Views]
  BY <1>1 DEF Views
<1>4. History(h)
  BY <1>1, <1>2 DEF History
<1> QED BY <1>3, <1>4 DEF Explained, Init

LEMMA RestartExplained == Restart => Explained'
<1> SUFFICES ASSUME Restart PROVE Explained'
    OBVIOUS
<1> DEFINE k == [tasks |-> 0, live |-> FALSE]
           h == [i \in 1 .. 1 |-> k]
<1>1. Len(queue') = 0
  BY DEF Restart
<1>2. k.tasks = Cardinality(tasks)' /\ (k.live <=> s_vcs_task_hdl' \in tasks') /\ Ends(k)'
  BY FS_EmptySet DEF Restart, Ends
<1>3. h \in [1 .. Len(queue') + 1 -> Views]
  BY <1>1 DEF Views
<1>4. /\ h[1].tasks = Cardinality(tasks)' /\ (h[1].live <=> s_vcs_task_hdl' \in tasks')
      /\ \A i \in 1 .. Len(queue') : Leads(h[i], queue'[i], h[i + 1])
      /\ Ends(h[Len(queue) + 1])'
  BY <1>1, <1>2
<1> QED BY <1>3, <1>4 DEF Explained, History, Restart

(* A report adds the view it leads to at the end.                          *)
LEMMA SentExplained ==
  ASSUME TypeOK, Explained, NEW r \in Reports, Send(r),
         \A k \in Views : Ends(k) => \E l \in Views : Leads(k, r, l) /\ Ends(l)',
         UNCHANGED <<app, vcsVars>>
  PROVE  Explained'
<1> DEFINE n == Len(queue)
<1>1. PICK h \in [1 .. n + 1 -> Views] : History(h)
  BY DEF Explained
<1>2. queue' = Append(queue, r)
  BY DEF Send, TypeOK
<1>3. n \in Nat /\ queue \in Seq(Reports)
  BY DEF TypeOK
<1>4. /\ Len(queue') = n + 1
      /\ \A i \in 1 .. n : queue'[i] = queue[i]
      /\ queue'[n + 1] = r
  BY <1>2, <1>3
<1>5. h[n + 1] \in Views /\ Ends(h[n + 1])
  BY <1>1, <1>3 DEF History
<1>6. PICK l \in Views : Leads(h[n + 1], r, l) /\ Ends(l)'
  BY <1>5
<1> PICK g : g = [i \in 1 .. n + 2 |-> IF i = n + 2 THEN l ELSE h[i]]
    OBVIOUS
<1>7. g \in [1 .. Len(queue') + 1 -> Views]
  BY <1>1, <1>3, <1>4
<1>8. \A i \in 1 .. n : Leads(g[i], queue'[i], g[i + 1])
  <2> TAKE i \in 1 .. n
  <2>1. g[i] = h[i] /\ g[i + 1] = h[i + 1]
    BY <1>3
  <2> QED BY <1>1, <1>4, <2>1 DEF History
<1>9. Leads(g[n + 1], queue'[n + 1], g[n + 2])
  <2>1. g[n + 1] = h[n + 1] /\ g[n + 2] = l
    BY <1>3
  <2> QED BY <1>4, <1>6, <2>1
<1>10. g[1].tasks = Cardinality(tasks)' /\ (g[1].live <=> s_vcs_task_hdl' \in tasks')
  <2>1. g[1] = h[1]
    BY <1>3
  <2> QED BY <1>1, <2>1 DEF History, vcsVars
<1>11. \A i \in 1 .. Len(queue') : Leads(g[i], queue'[i], g[i + 1])
  <2> TAKE i \in 1 .. Len(queue')
  <2>1. CASE i \in 1 .. n
    BY <1>8, <2>1
  <2>2. CASE i = n + 1
    BY <1>9, <1>3, <2>2
  <2> QED BY <1>3, <1>4, <2>1, <2>2
<1>12. Ends(g[Len(queue) + 1])'
  <2>1. g[Len(queue') + 1] = l
    BY <1>3, <1>4
  <2> QED BY <1>6, <2>1
<1> QED BY <1>7, <1>10, <1>11, <1>12 DEF Explained, History

(* A report that is dropped, or one without a connection in it.            *)
LEMMA OtherExplained ==
  ASSUME TypeOK, Explained, UNCHANGED <<queue, app, vcsVars>>,
         \A k \in Views : Ends(k) => Ends(k)'
  PROVE  Explained'
<1>1. PICK h \in [1 .. Len(queue) + 1 -> Views] : History(h)
  BY DEF Explained
<1>2. h[Len(queue) + 1] \in Views /\ Ends(h[Len(queue) + 1])
  BY <1>1 DEF TypeOK, History
<1>3. Ends(h[Len(queue) + 1])'
  BY <1>2
<1> QED BY <1>1, <1>3 DEF Explained, History, vcsVars

(* A report that is handled takes the handler from the first view to the   *)
(* second one.                                                             *)
LEMMA HandledExplained ==
  ASSUME TypeOK, Explained, NEW r, Receive(r), UNCHANGED <<app, left>>,
         \A k, l \in Views :
           /\ k.tasks = Cardinality(tasks) /\ (k.live <=> s_vcs_task_hdl \in tasks)
           /\ Leads(k, r, l)
           => l.tasks = Cardinality(tasks)' /\ (l.live <=> s_vcs_task_hdl' \in tasks')
  PROVE  Explained'
<1> DEFINE n == Len(queue)
<1>1. PICK h \in [1 .. n + 1 -> Views] : History(h)
  BY DEF Explained
<1>2. queue \in Seq(Reports) /\ n \in Nat /\ n > 0
  BY DEF TypeOK, Receive
<1>3. queue' = Tail(queue) /\ Len(queue') = n - 1 /\ queue[1] = r
  BY <1>2 DEF Receive
<1>4. \A i \in 1 .. n - 1 : queue'[i] = queue[i + 1]
  BY <1>2, <1>3
<1> PICK g : g = [i \in 1 .. n |-> h[i + 1]]
    OBVIOUS
<1>5. g \in [1 .. Len(queue') + 1 -> Views]
  BY <1>1, <1>2, <1>3
<1>6. \A i \in 1 .. Len(queue') : Leads(g[i], queue'[i], g[i + 1])
  <2> TAKE i \in 1 .. Len(queue')
  <2>1. g[i] = h[i + 1] /\ g[i + 1] = h[i + 2] /\ i + 1 \in 1 .. n
    BY <1>2, <1>3
  <2>2. Leads(h[i + 1], queue[i + 1], h[i + 1 + 1])
    BY <1>1, <2>1 DEF History
  <2> QED BY <1>2, <1>3, <1>4, <2>1, <2>2
<1>7. Ends(g[Len(queue) + 1])'
  <2>1. Ends(h[n + 1])
    BY <1>1 DEF History
  <2> PICK l : l = h[n + 1]
      OBVIOUS
  <2>2. g[Len(queue') + 1] = l
    BY <1>2, <1>3
  <2>3. Ends(l)'
    BY <2>1 DEF Ends, Receive
  <2> QED BY <2>2, <2>3
<1>8. g[1].tasks = Cardinality(tasks)' /\ (g[1].live <=> s_vcs_task_hdl' \in tasks')
  <2>1. /\ h[1].tasks = Cardinality(tasks) /\ (h[1].live <=> s_vcs_task_hdl \in tasks)
        /\ Leads(h[1], r, h[2])
    BY <1>1, <1>2, <1>3 DEF History
  <2>2. 1 \in 1 .. n /\ 1 \in 1 .. n + 1 /\ 2 \in 1 .. n + 1
    BY <1>2
  <2> HIDE DEF n
  <2>3. g[1] = h[2]
    BY <2>2
  <2>4. h[1] \in Views /\ h[2] \in Views
    BY <1>1, <2>2
  <2> QED BY <2>1, <2>3, <2>4
<1> QED BY <1>5, <1>6, <1>7, <1>8 DEF Explained, History

-----------------------------------------------------------------------------
(* The volume.                                                             *)

LEMMA VolumeSent ==
  ASSUME TypeOK, VolumeInv, NEW r \in Reports, Send(r),
         UNCHANGED <<set, unheard, s_volume>>, ~Sets(r)
  PROVE  VolumeInv'
<1> DEFINE n == Len(queue)
<1>1. /\ n \in Nat /\ Len(queue') = n + 1 /\ queue'[n + 1] = r
      /\ \A i \in 1 .. n : queue'[i] = queue[i]
  BY DEF TypeOK, Send
<1>2. CASE unheard
  BY <1>2 DEF VolumeInv
<1>3. CASE s_volume = set /\ \A i \in 1 .. n : ~Sets(queue[i])
  <2>1. \A i \in 1 .. Len(queue') : ~Sets(queue'[i])
    BY <1>1, <1>3
  <2> QED BY <1>3, <2>1 DEF VolumeInv, Sets
<1>4. ASSUME NEW i \in 1 .. n, queue[i] = SetVolume(set), set \in Volumes,
             \A j \in i + 1 .. n : ~Sets(queue[j])
      PROVE  VolumeInv'
  <2>1. i \in 1 .. Len(queue') /\ queue'[i] = SetVolume(set)
    BY <1>1, <1>4
  <2>2. \A j \in i + 1 .. Len(queue') : ~Sets(queue'[j])
    BY <1>1, <1>4
  <2> QED BY <1>4, <2>1, <2>2 DEF VolumeInv, Sets, SetVolume
<1> QED BY <1>2, <1>3, <1>4 DEF VolumeInv

LEMMA VolumeReceived ==
  ASSUME TypeOK, VolumeInv, NEW r, Receive(r), UNCHANGED unheard,
         Sets(r) => r = SetVolume(s_volume'),
         ~Sets(r) => s_volume' = s_volume
  PROVE  VolumeInv'
<1> DEFINE n == Len(queue)
<1>1. /\ n \in Nat /\ n > 0 /\ Len(queue') = n - 1 /\ queue[1] = r
      /\ \A i \in 1 .. n - 1 : queue'[i] = queue[i + 1]
      /\ UNCHANGED set
  BY DEF TypeOK, Receive
<1>2. CASE unheard
  BY <1>2 DEF VolumeInv
<1>3. CASE s_volume = set /\ \A i \in 1 .. n : ~Sets(queue[i])
  <2>1. ~Sets(r) /\ \A i \in 1 .. n - 1 : ~Sets(queue'[i])
    BY <1>1, <1>3
  <2> QED BY <1>1, <1>3, <2>1 DEF VolumeInv, Sets
<1>4. ASSUME NEW i \in 1 .. n, queue[i] = SetVolume(set), set \in Volumes,
             \A j \in i + 1 .. n : ~Sets(queue[j])
      PROVE  VolumeInv'
  <2>1. \A j \in i .. n - 1 : ~Sets(queue'[j])
    BY <1>1, <1>4
  <2>2. CASE i = 1
    <3>1. Sets(r) /\ r = SetVolume(set)
      BY <1>1, <1>4, <2>2 DEF Sets
    <3>2. s_volume' = set
      BY <3>1, ReportsDiffer
    <3> QED BY <1>1, <2>1, <2>2, <3>2 DEF VolumeInv, Sets
  <2>3. CASE i > 1
    <3>1. i - 1 \in 1 .. Len(queue') /\ queue'[i - 1] = SetVolume(set)
      BY <1>1, <1>4, <2>3
    <3>2. \A j \in (i - 1) + 1 .. Len(queue') : ~Sets(queue'[j])
      BY <1>1, <2>1
    <3> QED BY <1>1, <1>4, <3>1, <3>2 DEF VolumeInv, Sets, SetVolume
  <2> QED BY <2>2, <2>3
<1> QED BY <1>2, <1>3, <1>4 DEF VolumeInv

LEMMA VolumeStep == TypeOK /\ VolumeInv /\ [Next]_vars => VolumeInv'
<1> SUFFICES ASSUME TypeOK, VolumeInv, [Next]_vars PROVE VolumeInv'
    OBVIOUS
<1> USE ReportsDiffer, ReportsAreReports DEF vcsVars, volumeVars, history
<1>1. CASE Restart
  <2>1. s_volume' = set' /\ Len(queue') = 0
    BY <1>1 DEF Restart
  <2> QED BY <2>1 DEF VolumeInv
<1>2. ~Sets(Connected) /\ ~Sets(Disconnected) /\ ~Sets(AskVolume)
  BY DEF Sets
<1>3. ASSUME UNCHANGED <<queue, set, unheard, s_volume>> PROVE VolumeInv'
  BY <1>3 DEF VolumeInv, Sets
<1>4. CASE StackStep
  <2>1. CASE LinkUp
    BY <1>2, <1>3, <2>1, VolumeSent DEF LinkUp
  <2>2. CASE LinkDown
    BY <1>2, <1>3, <2>2, VolumeSent DEF LinkDown
  <2>3. CASE PhoneAsksVolume
    BY <1>2, <1>3, <2>3, VolumeSent DEF PhoneAsksVolume
  <2>4. ASSUME NEW v \in Volumes, PhoneSetsVolume(v) PROVE VolumeInv'
    <3>1. CASE Send(SetVolume(v))
      <4>1. /\ Len(queue') \in 1 .. Len(queue')
            /\ queue'[Len(queue')] = SetVolume(v)
        BY <3>1 DEF TypeOK, Send
      <4>2. set' = v
        BY <2>4 DEF PhoneSetsVolume
      <4>3. \A j \in Len(queue') + 1 .. Len(queue') : ~Sets(queue'[j])
        BY <4>1
      <4> QED BY <4>1, <4>2, <4>3 DEF VolumeInv, Sets
    <3>2. CASE unheard'
      BY <3>2 DEF VolumeInv
    <3> QED BY <2>4, <3>1, <3>2 DEF PhoneSetsVolume
  <2> QED BY <1>4, <2>1, <2>2, <2>3, <2>4 DEF StackStep
<1>5. CASE AppStep
  <2>1. CASE \/ HandleConnected \/ HandleConnectedFails
             \/ HandleDisconnected \/ HandleDisconnectedDeletesApp
    BY <1>2, <2>1, VolumeReceived
       DEF HandleConnected, HandleConnectedFails, HandleDisconnected,
           HandleDisconnectedDeletesApp
  <2>2. CASE HandleDisconnectedPanic
    BY <1>1, <2>2 DEF HandleDisconnectedPanic
  <2>3. CASE HandleSetVolume
    BY <2>3, VolumeReceived DEF HandleSetVolume, Sets
  <2>4. CASE HandleAskVolume
    BY <1>2, <2>4, VolumeReceived DEF HandleAskVolume
  <2> QED BY <1>5, <2>1, <2>2, <2>3, <2>4 DEF AppStep
<1>6. CASE UNCHANGED vars
  BY <1>3, <1>6 DEF vars
<1>7. CASE SimulationWakes
  BY <1>6, <1>7 DEF SimulationWakes
<1> QED BY <1>4, <1>5, <1>6, <1>7 DEF Next

-----------------------------------------------------------------------------
LEMMA ExplainedStep ==
  ASSUME TypeOK, [Next]_vars, ~missed => Explained, ~missed'
  PROVE  Explained'
<1> USE ReportsDiffer, ReportsAreReports DEF vcsVars, volumeVars, history
<1>1. CASE Restart
  BY <1>1, RestartExplained
<1>2. ASSUME UNCHANGED missed PROVE Explained
  BY <1>2
<1>3. CASE StackStep
  <2>1. CASE LinkUp
    <3>1. Send(Connected) /\ UNCHANGED missed
      BY <2>1 DEF LinkUp
    <3>2. ASSUME NEW k \in Views, Ends(k)
          PROVE  \E l \in Views : Leads(k, Connected, l) /\ Ends(l)'
      <4> DEFINE l == [tasks |-> k.tasks + 1, live |-> TRUE]
      <4>1. l \in Views /\ Leads(k, Connected, l)
        BY DEF Views, Leads
      <4>2. /\ l.tasks = left + 1 /\ l.live
            /\ link' = "up" /\ left' = left
        BY <2>1, <3>2 DEF LinkUp, Ends, TypeOK
      <4> HIDE DEF l
      <4>3. PICK m : m = l
        OBVIOUS
      <4>4. Ends(m)'
        BY <4>2, <4>3 DEF Ends
      <4> QED BY <4>1, <4>3, <4>4
    <3> QED BY <1>2, <2>1, <3>1, <3>2, SentExplained DEF LinkUp
  <2>2. CASE LinkDown
    <3>1. CASE Send(Disconnected) /\ UNCHANGED left
      <4>1. ASSUME NEW k \in Views, Ends(k)
            PROVE  \E l \in Views : Leads(k, Disconnected, l) /\ Ends(l)'
        <5> DEFINE l == [tasks |-> k.tasks - 1, live |-> FALSE]
        <5>1. l \in Views
          BY DEF Views
        <5>2. Leads(k, Disconnected, l) /\ Ends(l)'
          BY <2>2, <3>1, <4>1 DEF LinkDown, Leads, Ends, TypeOK
        <5> QED BY <5>1, <5>2
      <4> QED BY <1>2, <2>2, <3>1, <4>1, SentExplained DEF LinkDown
    <3>2. CASE left' = left + 1 /\ UNCHANGED queue
      <4>1. \A k \in Views : Ends(k) => Ends(k)'
        BY <2>2, <3>2 DEF LinkDown, Ends, TypeOK
      <4> QED BY <1>2, <2>2, <3>2, <4>1, OtherExplained DEF LinkDown
    <3> QED BY <2>2, <3>1, <3>2 DEF LinkDown
  <2>3. ASSUME NEW r \in Reports \ {Connected, Disconnected},
               Send(r) \/ UNCHANGED queue,
               UNCHANGED <<link, missed, left, app, vcsVars>>
        PROVE  Explained'
    <3>1. \A k \in Views : Ends(k) => Leads(k, r, k) /\ Ends(k)'
      BY <2>3 DEF Ends, Leads
    <3>2. CASE Send(r)
      BY <1>2, <2>3, <3>1, <3>2, SentExplained
    <3>3. CASE UNCHANGED queue
      BY <1>2, <2>3, <3>1, <3>3, OtherExplained
    <3> QED BY <2>3, <3>2, <3>3
  <2>4. CASE PhoneAsksVolume
    BY <2>3, <2>4 DEF PhoneAsksVolume
  <2>5. ASSUME NEW v \in Volumes, PhoneSetsVolume(v) PROVE Explained'
    BY <2>3, <2>5 DEF PhoneSetsVolume
  <2> QED BY <1>3, <2>1, <2>2, <2>4, <2>5 DEF StackStep
<1>4. CASE AppStep
  <2> USE DEF Leads
  <2>1. CASE HandleConnected
    BY <1>2, <2>1, TaskCounts, HandledExplained DEF HandleConnected
  <2>2. CASE HandleConnectedFails
    BY <2>2 DEF HandleConnectedFails
  <2>3. CASE HandleDisconnected
    BY <1>2, <2>3, TaskCounts, HandledExplained DEF HandleDisconnected
  <2>4. CASE HandleDisconnectedDeletesApp
    <3>1. PICK h \in [1 .. Len(queue) + 1 -> Views] : History(h)
      BY <1>2, <2>4 DEF Explained, HandleDisconnectedDeletesApp
    <3>2. 1 \in 1 .. Len(queue) /\ queue[1] = Disconnected
      BY <2>4 DEF HandleDisconnectedDeletesApp, Receive, TypeOK
    <3>3. h[1].live
      BY <3>1, <3>2 DEF History
    <3>4. s_vcs_task_hdl \notin tasks
      BY <2>4 DEF HandleDisconnectedDeletesApp, TypeOK
    <3> QED BY <3>1, <3>3, <3>4 DEF History
  <2>5. CASE HandleDisconnectedPanic
    BY <1>1, <2>5 DEF HandleDisconnectedPanic
  <2>6. CASE HandleSetVolume
    BY <1>2, <2>6, HandledExplained DEF HandleSetVolume
  <2>7. CASE HandleAskVolume
    BY <1>2, <2>7, HandledExplained DEF HandleAskVolume
  <2> QED BY <1>4, <2>1, <2>2, <2>3, <2>4, <2>5, <2>6, <2>7 DEF AppStep
<1>5. CASE UNCHANGED vars
  <2>1. \A k \in Views : Ends(k) => Ends(k)'
    BY <1>5 DEF vars, Ends
  <2> QED BY <1>2, <1>5, <2>1, OtherExplained DEF vars
<1>6. CASE SimulationWakes
  BY <1>5, <1>6 DEF SimulationWakes
<1> QED BY <1>3, <1>4, <1>5, <1>6 DEF Next

LEMMA TargetInvariant == Spec => []TargetInv
<1>1. Init => VolumeInv
  <2> SUFFICES ASSUME Init PROVE VolumeInv
      OBVIOUS
  <2>1. s_volume = set /\ Len(queue) = 0
    BY DEF Init
  <2> QED BY <2>1 DEF VolumeInv
<1>2. Init => TargetInv
  BY <1>1, TypeInit, InitExplained DEF TargetInv
<1>3. TargetInv /\ [Next]_vars => TargetInv'
  BY TypeStep, VolumeStep, ExplainedStep DEF TargetInv
<1> QED BY <1>2, <1>3, PTL DEF Spec

(* A handler that has caught up has the volume a phone has set last, if    *)
(* that report was sent, and as many simulation tasks as phones are        *)
(* connected and disconnections were never reported.                       *)
THEOREM SettledWhenIdle == Spec => []Settled
<1>1. TargetInv => Settled
  <2> SUFFICES ASSUME TargetInv, queue = <<>> PROVE Settled
      BY DEF Settled
  <2>1. Len(queue) = 0
    OBVIOUS
  <2>2. unheard \/ s_volume = set
    BY <2>1 DEF TargetInv, VolumeInv
  <2>3. missed \/ Cardinality(tasks) = left + IF link = "up" THEN 1 ELSE 0
    BY <2>1 DEF TargetInv, Explained, History, Ends
  <2> QED BY <2>2, <2>3 DEF Settled
<1> QED BY <1>1, TargetInvariant, PTL

(* The handle that is never cleared always is that of a task that runs     *)
(* when a disconnection is about to be handled, and the application task   *)
(* never deletes itself, unless a connection was missed.                   *)
THEOREM TaskDeletedOnce == Spec => []DeletesTheTask
<1>1. TargetInv => DeletesTheTask
  <2> SUFFICES ASSUME TargetInv, ~missed PROVE DeletesTheTask
      BY DEF DeletesTheTask
  <2>1. app = "alive" /\ TypeOK
    BY DEF TargetInv, Explained
  <2>2. ASSUME queue # <<>>, Head(queue) = Disconnected
        PROVE  s_vcs_task_hdl \in tasks
    <3>1. PICK h \in [1 .. Len(queue) + 1 -> Views] : History(h)
      BY DEF TargetInv, Explained
    <3>2. 1 \in 1 .. Len(queue) /\ queue[1] = Disconnected
      BY <2>1, <2>2 DEF TypeOK
    <3> QED BY <3>1, <3>2, ReportsDiffer DEF History, Leads
  <2> QED BY <2>1, <2>2 DEF DeletesTheTask
<1> QED BY <1>1, TargetInvariant, PTL
=============================================================================
