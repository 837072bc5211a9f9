--------------------------- MODULE A2dpSinkProofs ---------------------------
(***************************************************************************)
(* Proofs about A2dpSink for every length of the queue: what the handler   *)
(* relies on, although it lags behind the stack by as many reports as the  *)
(* queue holds.                                                            *)
(***************************************************************************)
EXTENDS A2dpSink, TLAPS

(* What the handler makes of the link: DISCONNECTING means nothing to it.  *)
Phases == {"down", "opening", "up"}
Phase(l) == IF l = "disconnected" THEN "down"
            ELSE IF l = "connecting" THEN "opening" ELSE "up"

(* The phase goes from k to l with a report e.                             *)
Leads(k, e, l) ==
  \/ e = "CONNECTING" /\ k = "down" /\ l = "opening"
  \/ e = "CONNECTED" /\ k = "opening" /\ l = "up"
  \/ e = "DISCONNECTED" /\ k # "down" /\ l = "down"
  \/ e \in {"DISCONNECTING", "AUDIO_CFG", "OTHER"} /\ k # "down" /\ l = k

(* Scan mode, driver and task are the ones for phase l.                    *)
Fits(l) ==
  /\ scan = IF l = "up" THEN "hidden" ELSE "discoverable"
  /\ channel = IF l = "down" THEN "none" ELSE "running"
  /\ session = IF l = "up" THEN "up" ELSE "none"
  /\ i2s_pc # "astray"

(* The handler has received the report that led to phase l, and stands     *)
(* somewhere on the way from the state before to the one that fits l.      *)
Handling(l) ==
  \/ app_pc = "receive" /\ Fits(l)
  \/ app_pc = "install" /\ l = "opening" /\ Fits("down")
  \/ app_pc = "hide" /\ l = "up" /\ Fits("opening")
  \/ /\ app_pc = "startUp" /\ l = "up"
     /\ scan = "hidden" /\ channel = "running" /\ session = "none"
  \/ app_pc = "reconfDisable" /\ l # "down" /\ Fits(l)
  \/ /\ app_pc = "reconfEnable" /\ l # "down"
     /\ scan = (IF l = "up" THEN "hidden" ELSE "discoverable")
     /\ channel = "ready"
     /\ session = (IF l = "up" THEN "up" ELSE "none")
     /\ i2s_pc # "astray"
  \/ /\ app_pc = "show" /\ l = "down"
     /\ channel = "running" /\ session \in {"none", "up"}
     /\ i2s_pc # "astray"
  \/ /\ app_pc = "disable" /\ l = "down" /\ scan = "discoverable"
     /\ channel = "running" /\ session \in {"none", "up"}
     /\ i2s_pc # "astray"
  \/ /\ app_pc = "delete" /\ l = "down" /\ scan = "discoverable"
     /\ channel = "ready" /\ session \in {"none", "up"}
     /\ i2s_pc # "astray"
  \/ /\ app_pc = "shutDown" /\ l = "down" /\ scan = "discoverable"
     /\ channel = "none" /\ session \in {"none", "up"}

(* The phase the reports lead to: that of the link, unless CONNECTED was   *)
(* dropped.                                                                *)
Heard(l) ==
  \/ l = Phase(link)
  \/ "CONNECTED" \in lost /\ Phase(link) = "up" /\ l = "opening"

(* h remembers the phases from the one the handler is at to the one the    *)
(* reports lead to; the reports in the queue lead from each to the next.   *)
History(h) ==
  /\ h \in [1 .. Len(queue) + 1 -> Phases]
  /\ Handling(h[1])
  /\ \A i \in 1 .. Len(queue) : Leads(h[i], queue[i], h[i + 1])
  /\ Heard(h[Len(queue) + 1])

Explained == \E h \in [1 .. Len(queue) + 1 -> Phases] : History(h)

OnlyStart == lost \subseteq {"CONNECTED"}

SinkInv == TypeOK /\ (OnlyStart => Explained)

-----------------------------------------------------------------------------
USE SinkAssumption DEF SinkAssumption

LEMMA TypeInit == Init => TypeOK
<1> QED BY DEF Init, TypeOK, Links

LEMMA TypeStep == TypeOK /\ [Next]_vars => TypeOK'
<1> SUFFICES ASSUME TypeOK, [Next]_vars PROVE TypeOK'
    OBVIOUS
<1> USE DEF TypeOK, Links
<1>0. CASE Restart
  BY <1>0 DEF Restart
<1>1. ASSUME NEW e \in Reports, Report(e)
      PROVE  queue' \in Seq(Reports) /\ Len(queue') <= QUEUE_LENGTH
             /\ lost' \subseteq Decisive
  <2>1. lost' \subseteq Decisive
    BY <1>1 DEF Report
  <2>2. queue' \in Seq(Reports) /\ Len(queue') <= QUEUE_LENGTH
    BY <1>1 DEF Report
  <2> QED BY <2>1, <2>2
<1>2. CASE StackStep
  <2>1. CASE LinkConnecting
    BY <1>1, <2>1 DEF LinkConnecting, Reports
  <2>2. CASE LinkConnected
    BY <1>1, <2>2 DEF LinkConnected, Reports
  <2>3. CASE LinkDisconnecting
    BY <1>1, <2>3 DEF LinkDisconnecting, Reports
  <2>4. CASE LinkDisconnected
    BY <1>1, <2>4 DEF LinkDisconnected, Reports
  <2>5. CASE \E e \in {"AUDIO_CFG", "OTHER"} : LinkAudio(e)
    BY <1>1, <2>5 DEF LinkAudio, Reports
  <2>6. CASE DataTooEarly
    BY <1>0, <2>6 DEF DataTooEarly
  <2> QED BY <1>2, <2>1, <2>2, <2>3, <2>4, <2>5, <2>6 DEF StackStep
<1>3. CASE AppStep
  <2>1. CASE Receive
    BY <2>1 DEF Receive
  <2>2. CASE Install
    BY <2>2 DEF Install
  <2>3. CASE InstallAborts
    BY <1>0, <2>3 DEF InstallAborts
  <2>4. CASE Hide
    BY <2>4 DEF Hide
  <2>5. CASE StartUp
    BY <2>5 DEF StartUp
  <2>6. CASE ReconfDisable
    BY <2>6 DEF ReconfDisable
  <2>7. CASE ReconfEnable
    BY <2>7 DEF ReconfEnable
  <2>8. CASE Show
    BY <2>8 DEF Show
  <2>9. CASE Disable
    BY <2>9 DEF Disable
  <2>10. CASE Delete
    BY <2>10 DEF Delete
  <2>11. CASE UninstallAborts
    BY <1>0, <2>11 DEF UninstallAborts
  <2>12. CASE ShutDown
    BY <2>12 DEF ShutDown
  <2> QED BY <1>3, <2>1, <2>2, <2>3, <2>4, <2>5, <2>6, <2>7, <2>8, <2>9,
             <2>10, <2>11, <2>12 DEF AppStep
<1>4. CASE I2sStep
  <2>1. CASE WriteBegin
    BY <2>1 DEF WriteBegin
  <2>2. CASE WriteEnd
    BY <2>2 DEF WriteEnd
  <2>3. CASE I2sCrashes
    BY <1>0, <2>3 DEF I2sCrashes
  <2> QED BY <1>4, <2>1, <2>2, <2>3 DEF I2sStep
<1>5. CASE UNCHANGED vars
  BY <1>5 DEF vars
<1> QED BY <1>2, <1>3, <1>4, <1>5 DEF Next

(* The variables keep their range, and without a task nobody writes, for   *)
(* every length of the queue and whatever is dropped.                      *)
THEOREM TypeCorrect == Spec => []TypeOK
<1> QED BY TypeInit, TypeStep, PTL DEF Spec

-----------------------------------------------------------------------------
(* How the history is carried from step to step.                           *)

(* At power-on the link is down, nothing is queued and nothing is there.   *)
LEMMA InitExplained == Init => Explained
<1> SUFFICES ASSUME Init PROVE Explained
    OBVIOUS
<1> DEFINE h == [i \in 1 .. 1 |-> "down"]
<1>1. Len(queue) = 0
  BY DEF Init
<1>2. Handling("down")
  BY DEF Init, Handling, Fits
<1>3. h \in [1 .. Len(queue) + 1 -> Phases]
  BY <1>1 DEF Phases
<1>4. Heard("down")
  BY DEF Init, Heard, Phase
<1>5. History(h)
  BY <1>1, <1>2, <1>3, <1>4 DEF History
<1> QED BY <1>3, <1>5 DEF Explained

LEMMA RestartExplained == Restart => Explained'
<1> SUFFICES ASSUME Restart PROVE Explained'
    OBVIOUS
<1> DEFINE h == [i \in 1 .. 1 |-> "down"]
<1>1. Len(queue') = 0
  BY DEF Restart
<1>2. Handling("down")'
  BY DEF Restart, Handling, Fits
<1>3. h \in [1 .. Len(queue') + 1 -> Phases]
  BY <1>1 DEF Phases
<1>4. Heard("down")'
  BY DEF Restart, Heard, Phase
<1>5. /\ Handling(h[1])'
      /\ \A i \in 1 .. Len(queue') : Leads(h[i], queue'[i], h[i + 1])
      /\ Heard(h[Len(queue) + 1])'
  BY <1>1, <1>2, <1>4
<1> QED BY <1>3, <1>5 DEF Explained, History

(* A step that neither receives nor sends a report leaves the phases as    *)
(* they are, and the handler on its way to the first of them.              *)
LEMMA OtherExplained ==
  ASSUME TypeOK, Explained, UNCHANGED queue,
         \A l \in Phases : Handling(l) => Handling(l)',
         \A l \in Phases : Heard(l) => Heard(l)'
  PROVE  Explained'
<1> DEFINE n == Len(queue)
<1>1. PICK h \in [1 .. n + 1 -> Phases] : History(h)
  BY DEF Explained
<1>2. Handling(h[1]) /\ Heard(h[n + 1])
  BY <1>1 DEF History
<1>3. h[1] \in Phases /\ h[n + 1] \in Phases
  BY <1>1 DEF TypeOK
<1>4. Handling(h[1])' /\ Heard(h[n + 1])'
  BY <1>2, <1>3
<1> QED BY <1>1, <1>4 DEF Explained, History

(* A report that is sent adds the phase it leads to at the end.            *)
LEMMA SentExplained ==
  ASSUME TypeOK, Explained, NEW e \in Reports, queue' = Append(queue, e),
         \A k \in Phases : Heard(k) =>
           \E l \in Phases : Leads(k, e, l) /\ Heard(l)',
         UNCHANGED <<scan, channel, session, i2s_pc, app_pc>>
  PROVE  Explained'
<1> DEFINE n == Len(queue)
<1>1. PICK h \in [1 .. n + 1 -> Phases] : History(h)
  BY DEF Explained
<1>2. n \in Nat /\ queue \in Seq(Reports)
  BY DEF TypeOK
<1>3. h[n + 1] \in Phases /\ Heard(h[n + 1])
  BY <1>1, <1>2 DEF History
<1>4. PICK l \in Phases : Leads(h[n + 1], e, l) /\ Heard(l)'
  BY <1>3
<1>5. Len(queue') = n + 1
  BY <1>2
<1>6. \A i \in 1 .. n : queue'[i] = queue[i]
  BY <1>2
<1>7. queue'[n + 1] = e
  BY <1>2
<1> PICK g : g = [i \in 1 .. n + 2 |-> IF i = n + 2 THEN l ELSE h[i]]
    OBVIOUS
<1>8. g \in [1 .. Len(queue') + 1 -> Phases]
  BY <1>1, <1>2, <1>5
<1>9. \A i \in 1 .. n : Leads(g[i], queue'[i], g[i + 1])
  <2> TAKE i \in 1 .. n
  <2>1. g[i] = h[i] /\ g[i + 1] = h[i + 1]
    BY <1>2
  <2> QED BY <1>1, <1>6, <2>1 DEF History
<1>10. g[n + 1] = h[n + 1] /\ g[n + 2] = l
  BY <1>2
<1>11. Leads(g[n + 1], queue'[n + 1], g[n + 2])
  BY <1>4, <1>7, <1>10
<1>12. Handling(g[1])'
  <2>1. Handling(h[1])
    BY <1>1 DEF History
  <2>2. Handling(h[1])'
    BY <2>1 DEF Handling, Fits
  <2>3. g[1] = h[1]
    BY <1>2
  <2> QED BY <2>2, <2>3
<1>13. \A i \in 1 .. Len(queue') : Leads(g[i], queue'[i], g[i + 1])
  <2> TAKE i \in 1 .. Len(queue')
  <2>1. CASE i \in 1 .. n
    BY <1>9, <2>1
  <2>2. CASE i = n + 1
    BY <1>11, <1>2, <2>2
  <2> QED BY <1>2, <1>5, <2>1, <2>2
<1>14. Heard(g[Len(queue) + 1])'
  <2>1. g[Len(queue') + 1] = l
    BY <1>2, <1>5
  <2> QED BY <1>4, <2>1
<1> QED BY <1>8, <1>12, <1>13, <1>14 DEF Explained, History

(* A report: it is sent, or the handler never hears of it.                 *)
LEMMA ReportExplained ==
  ASSUME SinkInv, OnlyStart', NEW e \in Reports, Report(e),
         \A k \in Phases : Heard(k) /\ lost' = lost =>
           \E l \in Phases : Leads(k, e, l) /\ Heard(l)',
         \A k \in Phases : Heard(k) /\ lost' = lost \cup ({e} \cap Decisive) =>
           Heard(k)',
         UNCHANGED <<scan, channel, session, i2s_pc, app_pc>>
  PROVE  Explained'
<1>1. lost \subseteq lost'
  BY DEF Report
<1>2. TypeOK /\ Explained
  BY <1>1 DEF SinkInv, OnlyStart
<1>3. CASE queue' = Append(queue, e) /\ lost' = lost
  BY <1>2, <1>3, SentExplained
<1>4. CASE queue' = queue /\ lost' = lost \cup ({e} \cap Decisive)
  <2>1. \A l \in Phases : Handling(l) => Handling(l)'
    BY DEF Handling, Fits
  <2> QED BY <1>2, <1>4, <2>1, OtherExplained
<1> QED BY <1>3, <1>4 DEF Report

(* A reception drops the first phase: the handler has left it.             *)
LEMMA ReceiveExplained ==
  ASSUME TypeOK, Explained, Receive
  PROVE  Explained'
<1> DEFINE n == Len(queue)
<1>1. PICK h \in [1 .. n + 1 -> Phases] : History(h)
  BY DEF Explained
<1>2. queue \in Seq(Reports) /\ n \in Nat /\ n > 0
  BY DEF TypeOK, Receive
<1>3. queue' = Tail(queue) /\ Len(queue') = n - 1
  BY <1>2 DEF Receive
<1>4. \A i \in 1 .. n - 1 : queue'[i] = queue[i + 1]
  BY <1>2, <1>3
<1> PICK g : g = [i \in 1 .. n |-> h[i + 1]]
    OBVIOUS
<1>5. g \in [1 .. Len(queue') + 1 -> Phases]
  BY <1>1, <1>2, <1>3
<1>6. \A i \in 1 .. Len(queue') : Leads(g[i], queue'[i], g[i + 1])
  <2> TAKE i \in 1 .. Len(queue')
  <2>1. g[i] = h[i + 1] /\ g[i + 1] = h[i + 2] /\ i + 1 \in 1 .. n
    BY <1>2, <1>3
  <2>2. Leads(h[i + 1], queue[i + 1], h[i + 1 + 1])
    BY <1>1, <2>1 DEF History
  <2> QED BY <1>2, <1>3, <1>4, <2>1, <2>2
<1>7. Heard(g[Len(queue) + 1])'
  <2> PICK l : l = h[n + 1]
      OBVIOUS
  <2>1. g[Len(queue') + 1] = l
    BY <1>2, <1>3
  <2>2. Heard(l)'
    BY <1>1 DEF History, Heard, Receive
  <2> QED BY <2>1, <2>2
<1>8. Handling(g[1])'
  <2>1. Leads(h[1], queue[1], h[2])
    BY <1>1, <1>2 DEF History
  <2>2. app_pc = "receive" /\ Fits(h[1])
    BY <1>1 DEF History, Handling, Receive
  <2>3. Head(queue) = queue[1] /\ g[1] = h[2] /\ h[1] \in Phases
    BY <1>1, <1>2
  <2>4. Handling(h[2])'
    BY <2>1, <2>2, <2>3 DEF Receive, Leads, Handling, Fits, Phases
  <2> QED BY <2>3, <2>4
<1> QED BY <1>5, <1>6, <1>7, <1>8 DEF Explained, History

-----------------------------------------------------------------------------
LEMMA SinkStep == SinkInv /\ [Next]_vars => SinkInv'
<1> SUFFICES ASSUME SinkInv, [Next]_vars PROVE SinkInv'
    OBVIOUS
<1>1. TypeOK'
  BY TypeStep DEF SinkInv
<1> SUFFICES ASSUME OnlyStart' PROVE Explained'
    BY <1>1 DEF SinkInv
<1>0. CASE Restart
  BY <1>0, RestartExplained
<1>2. ASSUME UNCHANGED <<link, lost>>
      PROVE  /\ TypeOK /\ Explained
             /\ \A l \in Phases : Heard(l) => Heard(l)'
  BY <1>2 DEF SinkInv, OnlyStart, Heard
<1>3. CASE StackStep
  <2> USE DEF Reports, Decisive, OnlyStart, Heard, Phase, Phases, Leads
  <2>1. CASE LinkConnecting
    <3>1. "CONNECTING" \notin lost'
      OBVIOUS
    <3>2. \A k \in Phases : Heard(k) =>
            \E l \in Phases : Leads(k, "CONNECTING", l) /\ Heard(l)'
      BY <2>1 DEF LinkConnecting
    <3>3. Report("CONNECTING") /\ "CONNECTING" \in Reports
      BY <2>1 DEF LinkConnecting
    <3>4. lost' # lost \cup ({"CONNECTING"} \cap Decisive)
      BY <3>1
    <3> HIDE DEF Heard, Leads, Phases, Decisive, OnlyStart, Reports
    <3> QED BY <2>1, <3>2, <3>3, <3>4, ReportExplained DEF LinkConnecting
  <2>2. CASE LinkConnected
    BY <2>2, ReportExplained DEF LinkConnected
  <2>3. CASE LinkDisconnecting
    BY <2>3, ReportExplained DEF LinkDisconnecting
  <2>4. CASE LinkDisconnected
    <3>1. "DISCONNECTED" \notin lost'
      OBVIOUS
    <3>2. \A k \in Phases : Heard(k) =>
            \E l \in Phases : Leads(k, "DISCONNECTED", l) /\ Heard(l)'
      BY <2>4 DEF LinkDisconnected
    <3>3. Report("DISCONNECTED") /\ "DISCONNECTED" \in Reports
      BY <2>4 DEF LinkDisconnected
    <3>4. lost' # lost \cup ({"DISCONNECTED"} \cap Decisive)
      BY <3>1
    <3> HIDE DEF Heard, Leads, Phases, Decisive, OnlyStart, Reports
    <3> QED BY <2>4, <3>2, <3>3, <3>4, ReportExplained DEF LinkDisconnected
  <2>5. ASSUME NEW e \in {"AUDIO_CFG", "OTHER"}, LinkAudio(e)
        PROVE  Explained'
    BY <2>5, ReportExplained DEF LinkAudio
  <2>6. CASE DataTooEarly
    BY <1>0, <2>6 DEF DataTooEarly
  <2> QED BY <1>3, <2>1, <2>2, <2>3, <2>4, <2>5, <2>6 DEF StackStep
<1>4. CASE AppStep
  <2> USE DEF Handling, Fits
  <2>1. CASE Receive
    BY <1>2, <2>1, ReceiveExplained DEF Receive
  <2>2. CASE Install
    BY <1>2, <2>2, OtherExplained DEF Install
  <2>3. CASE InstallAborts
    BY <1>0, <2>3 DEF InstallAborts
  <2>4. CASE Hide
    BY <1>2, <2>4, OtherExplained DEF Hide
  <2>5. CASE StartUp
    BY <1>2, <2>5, OtherExplained DEF StartUp, TypeOK
  <2>6. CASE ReconfDisable
    BY <1>2, <2>6, OtherExplained DEF ReconfDisable
  <2>7. CASE ReconfEnable
    BY <1>2, <2>7, OtherExplained DEF ReconfEnable
  <2>8. CASE Show
    BY <1>2, <2>8, OtherExplained DEF Show
  <2>9. CASE Disable
    BY <1>2, <2>9, OtherExplained DEF Disable
  <2>10. CASE Delete
    BY <1>2, <2>10, OtherExplained DEF Delete
  <2>11. CASE UninstallAborts
    BY <1>0, <2>11 DEF UninstallAborts
  <2>12. CASE ShutDown
    BY <1>2, <2>12, OtherExplained DEF ShutDown
  <2> QED BY <1>4, <2>1, <2>2, <2>3, <2>4, <2>5, <2>6, <2>7, <2>8, <2>9,
             <2>10, <2>11, <2>12 DEF AppStep
<1>5. CASE I2sStep
  <2> USE DEF Handling, Fits
  <2>1. CASE WriteBegin
    BY <1>2, <2>1, OtherExplained DEF WriteBegin
  <2>2. CASE WriteEnd
    BY <1>2, <2>2, OtherExplained DEF WriteEnd
  <2>3. CASE I2sCrashes
    BY <1>0, <2>3 DEF I2sCrashes
  <2> QED BY <1>5, <2>1, <2>2, <2>3 DEF I2sStep
<1>6. CASE UNCHANGED vars
  BY <1>2, <1>6, OtherExplained DEF vars, Handling, Fits
<1> QED BY <1>3, <1>4, <1>5, <1>6 DEF Next

LEMMA SinkInvariant == Spec => []SinkInv
<1>1. Init => SinkInv
  BY TypeInit, InitExplained DEF SinkInv
<1> QED BY <1>1, SinkStep, PTL DEF Spec

(* What the history shows of driver, scan mode and task.                   *)
LEMMA SinkSafe == SinkInv => ChecksPass /\ Settled /\ AstrayOnlyInShutDown
<1> SUFFICES ASSUME SinkInv, OnlyStart
             PROVE  ChecksPass /\ Settled /\ AstrayOnlyInShutDown
    BY DEF ChecksPass, Settled, AstrayOnlyInShutDown, OnlyStart
<1>1. PICK h \in [1 .. Len(queue) + 1 -> Phases] : History(h)
  BY DEF SinkInv, Explained
<1>2. ChecksPass
  BY <1>1 DEF History, Handling, Fits, ChecksPass
<1>3. ASSUME queue = <<>>, app_pc = "receive" PROVE Settled
  <2>1. Heard(h[1]) /\ Fits(h[1]) /\ link \in Links
    BY <1>1, <1>3 DEF History, Handling, SinkInv, TypeOK
  <2> QED BY <2>1 DEF Settled, Heard, Phase, Fits, Links
<1>4. AstrayOnlyInShutDown
  BY <1>1 DEF SinkInv, TypeOK, History, Handling, Fits, AstrayOnlyInShutDown
<1> QED BY <1>2, <1>3, <1>4 DEF Settled

(* No ESP_ERROR_CHECK of the installation and the uninstallation fails for *)
(* the state of the driver, and every reconfiguration finds it running,    *)
(* however many reports the handler is behind and whatever is dropped but  *)
(* CONNECTING and DISCONNECTED.                                            *)
THEOREM DriverChecksPass == Spec => []ChecksPass
<1> QED BY SinkSafe, SinkInvariant, PTL

(* A handler that has caught up leaves scan mode, driver and task in the   *)
(* state the link calls for, or, if it never heard of the connection, the  *)
(* driver installed and nothing started.                                   *)
THEOREM SettledWhenIdle == Spec => []Settled
<1> QED BY SinkSafe, SinkInvariant, PTL

(* The I2S task writes to a deleted channel at most until the shut-down    *)
(* that follows the deletion.                                              *)
THEOREM AstrayIsBrief == Spec => []AstrayOnlyInShutDown
<1> QED BY SinkSafe, SinkInvariant, PTL

-----------------------------------------------------------------------------
(* Start-up runs twice in one session only if the stack has lost a         *)
(* CONNECTING and a DISCONNECTED: one of the two alone keeps the sessions  *)
(* apart.                                                                  *)

Opening == app_pc \in {"hide", "startUp"}
Closing == app_pc \in {"show", "disable", "delete", "shutDown"}

(* In q a report e lies between any two CONNECTED, before the first of     *)
(* them if a session has begun, and after the last one if another CONNECTED *)
(* is due.                                                                 *)
Apart(q, e, begun, due) ==
  \A i \in 0 .. Len(q), j \in 1 .. Len(q) + 1 :
    /\ i < j
    /\ IF i = 0 THEN begun ELSE q[i] = "CONNECTED"
    /\ (IF j = Len(q) + 1 THEN due ELSE q[j] = "CONNECTED")
    => \E k \in i + 1 .. j - 1 : q[k] = e

(* The driver is installed, already or by a report before the j-th, and    *)
(* no DISCONNECTED follows.                                                *)
Drives(q, installed, j) ==
  \E k \in 0 .. j - 1 :
    /\ IF k = 0 THEN installed ELSE q[k] = "CONNECTING"
    /\ \A m \in k + 1 .. j - 1 : q[m] # "DISCONNECTED"

(* Every CONNECTED in q, and the one that is due, finds the driver there.  *)
Driven(q, installed, due) ==
  \A j \in 1 .. Len(q) + 1 :
    (IF j = Len(q) + 1 THEN due ELSE q[j] = "CONNECTED")
      => Drives(q, installed, j)

(* A session has begun that no DISCONNECTED, or no CONNECTING, has ended;  *)
(* the link will be connected, with or without a CONNECTING before.        *)
Begun == Opening \/ (session # "none" /\ ~Closing)
BegunChecked == Opening \/ (session # "none" /\ app_pc # "install")
Installed == app_pc = "install" \/ (channel # "none" /\ ~Closing)
Due == link \in {"disconnected", "connecting"}
DueNext == link = "connecting"

(* A DISCONNECTED ends every session before the next CONNECTED.            *)
Ended == Apart(queue, "DISCONNECTED", Begun, Due)

(* A CONNECTING does: its installation fails while the channel of the last *)
(* session is there.                                                       *)
Checked ==
  /\ Apart(queue, "CONNECTING", BegunChecked, DueNext)
  /\ Driven(queue, Installed, DueNext)
  /\ Opening \/ (session # "none" /\ app_pc # "shutDown") => channel # "none"

OneOfThem == ~({"CONNECTING", "DISCONNECTED"} \subseteq lost)

OneTask == OneOfThem => session \in {"none", "up"}

TaskInv ==
  /\ "DISCONNECTED" \notin lost => Ended
  /\ "CONNECTING" \notin lost => Checked
  /\ OneTask
  /\ OneOfThem /\ Opening => session = "none"

(* What a report at the end of the queue, a report that is dropped, and    *)
(* one that is received make of the two.                                   *)
LEMMA ApartAppend ==
  ASSUME NEW q \in Seq(Reports), NEW e, NEW x \in Reports,
         NEW b \in BOOLEAN, NEW d \in BOOLEAN, NEW d2 \in BOOLEAN,
         Apart(q, e, b, d), x = "CONNECTED" => d, e # "CONNECTED",
         d2 => x = e \/ (d /\ x # "CONNECTED")
  PROVE  Apart(Append(q, x), e, b, d2)
<1> DEFINE n == Len(q)
<1> PICK r : r = Append(q, x)
    OBVIOUS
<1>1. /\ n \in Nat /\ Len(r) = n + 1 /\ r[n + 1] = x
      /\ \A i \in 1 .. n : r[i] = q[i]
  OBVIOUS
<1> SUFFICES ASSUME NEW i \in 0 .. Len(r), NEW j \in 1 .. Len(r) + 1, i < j,
                    IF i = 0 THEN b ELSE r[i] = "CONNECTED",
                    IF j = Len(r) + 1 THEN d2 ELSE r[j] = "CONNECTED"
             PROVE  \E k \in i + 1 .. j - 1 : r[k] = e
    BY DEF Apart
<1> HIDE DEF n
<1>2. CASE j = n + 2 /\ x = e
  <2>1. i \in 0 .. n
    BY <1>1, <1>2
  <2> QED BY <1>1, <1>2, <2>1
<1>3. CASE ~(j = n + 2 /\ x = e)
  <2>1. i \in 0 .. n
    BY <1>1, <1>3
  <2>2. IF i = 0 THEN b ELSE q[i] = "CONNECTED"
    BY <1>1, <2>1
  <2> PICK c : c = IF j = n + 2 THEN n + 1 ELSE j
      OBVIOUS
  <2>3. c \in 1 .. n + 1 /\ i < c
    BY <1>1, <2>1
  <2>4. IF c = n + 1 THEN d ELSE q[c] = "CONNECTED"
    BY <1>1, <1>3
  <2>5. \E k \in i + 1 .. c - 1 : q[k] = e
    BY <2>1, <2>2, <2>3, <2>4 DEF Apart, n
  <2> QED BY <1>1, <2>1, <2>3, <2>5
<1> QED BY <1>2, <1>3

LEMMA ApartWeaken ==
  ASSUME NEW q, NEW e, NEW b \in BOOLEAN, NEW b2 \in BOOLEAN,
         NEW d \in BOOLEAN, NEW d2 \in BOOLEAN,
         Apart(q, e, b, d), b2 => b, d2 => d
  PROVE  Apart(q, e, b2, d2)
<1> QED BY DEF Apart

LEMMA ApartTail ==
  ASSUME NEW q \in Seq(Reports), q # <<>>, NEW e, NEW b \in BOOLEAN,
         NEW b2 \in BOOLEAN, NEW d \in BOOLEAN, Apart(q, e, b, d),
         b2 => Head(q) = "CONNECTED" \/ (b /\ Head(q) # e)
  PROVE  Apart(Tail(q), e, b2, d)
<1> DEFINE n == Len(q)
<1> PICK r : r = Tail(q)
    OBVIOUS
<1>1. /\ n \in Nat \ {0} /\ Len(r) = n - 1 /\ Head(q) = q[1]
      /\ \A i \in 1 .. n - 1 : r[i] = q[i + 1]
  OBVIOUS
<1> SUFFICES ASSUME NEW i \in 0 .. Len(r), NEW j \in 1 .. Len(r) + 1, i < j,
                    IF i = 0 THEN b2 ELSE r[i] = "CONNECTED",
                    IF j = Len(r) + 1 THEN d ELSE r[j] = "CONNECTED"
             PROVE  \E k \in i + 1 .. j - 1 : r[k] = e
    BY DEF Apart
<1> HIDE DEF n
<1>2. j + 1 \in 1 .. n + 1
      /\ (IF j + 1 = n + 1 THEN d ELSE q[j + 1] = "CONNECTED")
  BY <1>1
<1>3. CASE i = 0 /\ Head(q) # "CONNECTED"
  <2>1. b /\ q[1] # e
    BY <1>1, <1>3
  <2>2. \E k \in 0 + 1 .. (j + 1) - 1 : q[k] = e
    <3>1. 0 \in 0 .. n /\ 0 < j + 1
      BY <1>1
    <3> QED BY <1>2, <2>1, <3>1 DEF Apart, n
  <2>3. PICK k \in 2 .. j : q[k] = e
    BY <1>1, <2>1, <2>2
  <2>4. k - 1 \in i + 1 .. j - 1 /\ r[k - 1] = e
    BY <1>1, <1>3, <2>3
  <2> QED BY <2>4
<1>4. CASE i > 0 \/ Head(q) = "CONNECTED"
  <2>1. i + 1 \in 1 .. n /\ q[i + 1] = "CONNECTED"
    BY <1>1, <1>4
  <2>2. \E k \in (i + 1) + 1 .. (j + 1) - 1 : q[k] = e
    <3>1. i + 1 \in 0 .. n /\ i + 1 < j + 1 /\ i + 1 # 0
      BY <2>1
    <3> QED BY <1>2, <2>1, <3>1 DEF Apart, n
  <2>3. PICK k \in i + 2 .. j : q[k] = e
    BY <1>1, <2>2
  <2>4. k - 1 \in i + 1 .. j - 1 /\ r[k - 1] = e
    BY <1>1, <2>3
  <2> QED BY <2>4
<1> QED BY <1>3, <1>4

LEMMA DrivenAppend ==
  ASSUME NEW q \in Seq(Reports), NEW x \in Reports, NEW c \in BOOLEAN,
         NEW d \in BOOLEAN, NEW d2 \in BOOLEAN, Driven(q, c, d),
         x = "CONNECTED" => d,
         d2 => x = "CONNECTING" \/ (d /\ x # "DISCONNECTED")
  PROVE  Driven(Append(q, x), c, d2)
<1> DEFINE n == Len(q)
<1> PICK r : r = Append(q, x)
    OBVIOUS
<1>1. /\ n \in Nat /\ Len(r) = n + 1 /\ r[n + 1] = x
      /\ \A i \in 1 .. n : r[i] = q[i]
  OBVIOUS
<1> SUFFICES ASSUME NEW j \in 1 .. Len(r) + 1,
                    IF j = Len(r) + 1 THEN d2 ELSE r[j] = "CONNECTED"
             PROVE  Drives(r, c, j)
    BY DEF Driven
<1> HIDE DEF n
<1>2. CASE j = n + 2 /\ x = "CONNECTING"
  <2>1. n + 1 \in 0 .. j - 1 /\ r[n + 1] = "CONNECTING" /\ n + 1 # 0
    BY <1>1, <1>2
  <2>2. \A m \in n + 1 + 1 .. j - 1 : r[m] # "DISCONNECTED"
    BY <1>1, <1>2
  <2> QED BY <2>1, <2>2 DEF Drives
<1>3. CASE ~(j = n + 2 /\ x = "CONNECTING")
  <2> PICK a : a = IF j = n + 2 THEN n + 1 ELSE j
      OBVIOUS
  <2>1. a \in 1 .. n + 1 /\ (IF a = n + 1 THEN d ELSE q[a] = "CONNECTED")
    BY <1>1, <1>3
  <2>2. PICK k \in 0 .. a - 1 :
               /\ IF k = 0 THEN c ELSE q[k] = "CONNECTING"
               /\ \A m \in k + 1 .. a - 1 : q[m] # "DISCONNECTED"
    BY <2>1 DEF Driven, Drives, n
  <2>3. k \in 0 .. j - 1 /\ (IF k = 0 THEN c ELSE r[k] = "CONNECTING")
    BY <1>1, <2>1, <2>2
  <2>4. ASSUME NEW m \in k + 1 .. j - 1 PROVE r[m] # "DISCONNECTED"
    <3>1. CASE m \in k + 1 .. a - 1
      BY <1>1, <2>1, <2>2, <3>1
    <3>2. CASE m \notin k + 1 .. a - 1
      <4>1. j = n + 2 /\ m = n + 1
        BY <1>1, <2>2, <3>2
      <4> QED BY <1>1, <1>3, <4>1
    <3> QED BY <3>1, <3>2
  <2> QED BY <2>3, <2>4 DEF Drives
<1> QED BY <1>2, <1>3

LEMMA DrivenWeaken ==
  ASSUME NEW q, NEW c \in BOOLEAN, NEW c2 \in BOOLEAN,
         NEW d \in BOOLEAN, NEW d2 \in BOOLEAN,
         Driven(q, c, d), c => c2, d2 => d
  PROVE  Driven(q, c2, d2)
<1> QED BY DEF Driven, Drives

LEMMA DrivenTail ==
  ASSUME NEW q \in Seq(Reports), q # <<>>, NEW c \in BOOLEAN,
         NEW c2 \in BOOLEAN, NEW d \in BOOLEAN, Driven(q, c, d),
         c /\ Head(q) # "DISCONNECTED" => c2, Head(q) = "CONNECTING" => c2
  PROVE  Driven(Tail(q), c2, d)
<1> DEFINE n == Len(q)
<1> PICK r : r = Tail(q)
    OBVIOUS
<1>1. /\ n \in Nat \ {0} /\ Len(r) = n - 1 /\ Head(q) = q[1]
      /\ \A i \in 1 .. n - 1 : r[i] = q[i + 1]
  OBVIOUS
<1> SUFFICES ASSUME NEW j \in 1 .. Len(r) + 1,
                    IF j = Len(r) + 1 THEN d ELSE r[j] = "CONNECTED"
             PROVE  Drives(r, c2, j)
    BY DEF Driven
<1> HIDE DEF n
<1>2. j + 1 \in 1 .. n + 1
      /\ (IF j + 1 = n + 1 THEN d ELSE q[j + 1] = "CONNECTED")
  BY <1>1
<1>3. PICK k \in 0 .. j :
             /\ IF k = 0 THEN c ELSE q[k] = "CONNECTING"
             /\ \A m \in k + 1 .. j : q[m] # "DISCONNECTED"
  BY <1>2 DEF Driven, Drives, n
<1>4. ASSUME NEW a \in 0 .. j - 1, a >= k - 1, NEW m \in a + 1 .. j - 1
      PROVE  r[m] # "DISCONNECTED"
  <2>1. m + 1 \in k + 1 .. j /\ m \in 1 .. n - 1
    BY <1>1, <1>4
  <2> QED BY <1>1, <1>3, <2>1
<1>5. CASE k \in {0, 1}
  <2>1. c2
    <3>1. CASE k = 0
      <4>1. c /\ q[1] # "DISCONNECTED"
        BY <1>3, <3>1
      <4> QED BY <1>1, <4>1
    <3>2. CASE k = 1
      BY <1>1, <1>3, <3>2
    <3> QED BY <1>5, <3>1, <3>2
  <2>2. 0 \in 0 .. j - 1 /\ 0 >= k - 1
    BY <1>5
  <2> QED BY <1>4, <2>1, <2>2 DEF Drives
<1>6. CASE k \notin {0, 1}
  <2>1. k - 1 \in 0 .. j - 1 /\ k - 1 # 0 /\ r[k - 1] = "CONNECTING"
    BY <1>1, <1>3, <1>6
  <2>2. k - 1 >= k - 1
    BY <1>6
  <2> QED BY <1>4, <2>1, <2>2 DEF Drives
<1> QED BY <1>5, <1>6

(* A report: it joins the queue or is dropped.                             *)
LEMMA TaskReport ==
  ASSUME TypeOK, TaskInv, NEW e \in Reports, Report(e),
         UNCHANGED <<scan, channel, session, i2s_pc, app_pc>>,
         e = "CONNECTED" => DueNext,
         Due' => e = "DISCONNECTED" \/ (Due /\ e # "CONNECTED"),
         DueNext' => \/ e = "CONNECTING"
                     \/ DueNext /\ e \notin {"CONNECTED", "DISCONNECTED"}
  PROVE  TaskInv'
<1>1. lost \subseteq lost' /\ queue \in Seq(Reports)
  BY DEF Report, TypeOK
<1> PICK b : b = Begun
    OBVIOUS
<1> PICK c : c = BegunChecked
    OBVIOUS
<1> PICK f : f = Installed
    OBVIOUS
<1> PICK d : d = Due
    OBVIOUS
<1> PICK d2 : d2 = Due'
    OBVIOUS
<1> PICK n : n = DueNext
    OBVIOUS
<1> PICK n2 : n2 = DueNext'
    OBVIOUS
<1>2. /\ b \in BOOLEAN /\ c \in BOOLEAN /\ f \in BOOLEAN
      /\ d \in BOOLEAN /\ d2 \in BOOLEAN /\ n \in BOOLEAN /\ n2 \in BOOLEAN
  BY DEF Begun, BegunChecked, Installed, Due, DueNext
<1>3. b = Begun' /\ c = BegunChecked' /\ f = Installed'
  BY DEF Begun, BegunChecked, Installed, Opening, Closing
<1>4. DueNext => Due
  BY DEF Due, DueNext
<1>5. ASSUME "DISCONNECTED" \notin lost' PROVE Ended'
  <2>1. Apart(queue, "DISCONNECTED", b, d)
    BY <1>1, <1>5 DEF TaskInv, Ended
  <2>2. CASE queue' = Append(queue, e)
    <3>1. Apart(Append(queue, e), "DISCONNECTED", b, d2)
      <4>1. /\ e = "CONNECTED" => d
            /\ d2 => e = "DISCONNECTED" \/ (d /\ e # "CONNECTED")
        BY <1>4
      <4> QED BY <1>1, <1>2, <2>1, <4>1, ApartAppend
    <3> QED BY <1>3, <2>2, <3>1 DEF Ended
  <2>3. CASE queue' = queue /\ lost' = lost \cup ({e} \cap Decisive)
    <3>1. d2 => d
      BY <1>5, <2>3 DEF Decisive
    <3>2. Apart(queue, "DISCONNECTED", b, d2)
      BY <1>2, <2>1, <3>1, ApartWeaken
    <3> QED BY <1>3, <2>3, <3>2 DEF Ended
  <2> QED BY <2>2, <2>3 DEF Report
<1>6. ASSUME "CONNECTING" \notin lost' PROVE Checked'
  <2>1. /\ Apart(queue, "CONNECTING", c, n) /\ Driven(queue, f, n)
        /\ Opening \/ (session # "none" /\ app_pc # "shutDown")
             => channel # "none"
    BY <1>1, <1>6 DEF TaskInv, Checked
  <2>2. (Opening \/ (session # "none" /\ app_pc # "shutDown")
          => channel # "none")'
    BY <2>1 DEF Opening
  <2>3. CASE queue' = Append(queue, e)
    <3>1. /\ e = "CONNECTED" => n
          /\ n2 => e = "CONNECTING" \/ (n /\ e # "CONNECTED")
          /\ n2 => e = "CONNECTING" \/ (n /\ e # "DISCONNECTED")
      OBVIOUS
    <3>2. Apart(Append(queue, e), "CONNECTING", c, n2)
      BY <1>1, <1>2, <2>1, <3>1, ApartAppend
    <3>3. Driven(Append(queue, e), f, n2)
      BY <1>1, <1>2, <2>1, <3>1, DrivenAppend
    <3> QED BY <1>3, <2>2, <2>3, <3>2, <3>3 DEF Checked
  <2>4. CASE queue' = queue /\ lost' = lost \cup ({e} \cap Decisive)
    <3>1. n2 => n
      BY <1>6, <2>4 DEF Decisive
    <3>2. Apart(queue, "CONNECTING", c, n2)
      BY <1>2, <2>1, <3>1, ApartWeaken
    <3>3. Driven(queue, f, n2)
      BY <1>2, <2>1, <3>1, DrivenWeaken
    <3> QED BY <1>3, <2>2, <2>4, <3>2, <3>3 DEF Checked
  <2> QED BY <2>3, <2>4 DEF Report
<1>7. OneTask' /\ (OneOfThem /\ Opening => session = "none")'
  BY <1>1 DEF TaskInv, OneTask, OneOfThem, Opening
<1> QED BY <1>5, <1>6, <1>7 DEF TaskInv

(* A step of the handler on its way, or of the I2S task.                   *)
LEMMA TaskOther ==
  ASSUME TaskInv, UNCHANGED <<link, queue, lost>>,
         Begun' => Begun, Checked => (BegunChecked' => BegunChecked),
         Installed => Installed',
         Checked => (Opening \/ (session # "none" /\ app_pc # "shutDown")
                       => channel # "none")',
         OneTask', (OneOfThem /\ Opening => session = "none")'
  PROVE  TaskInv'
<1> PICK b : b = Begun
    OBVIOUS
<1> PICK b2 : b2 = Begun'
    OBVIOUS
<1> PICK c : c = BegunChecked
    OBVIOUS
<1> PICK c2 : c2 = BegunChecked'
    OBVIOUS
<1> PICK f : f = Installed
    OBVIOUS
<1> PICK f2 : f2 = Installed'
    OBVIOUS
<1> PICK d : d = Due
    OBVIOUS
<1> PICK n : n = DueNext
    OBVIOUS
<1>1. /\ b \in BOOLEAN /\ b2 \in BOOLEAN /\ c \in BOOLEAN /\ c2 \in BOOLEAN
      /\ f \in BOOLEAN /\ f2 \in BOOLEAN /\ d \in BOOLEAN /\ n \in BOOLEAN
  BY DEF Begun, BegunChecked, Installed, Due, DueNext
<1>2. d = Due' /\ n = DueNext'
  BY DEF Due, DueNext
<1>3. ASSUME Ended PROVE Ended'
  <2>1. Apart(queue, "DISCONNECTED", b2, d)
    <3>1. Apart(queue, "DISCONNECTED", b, d) /\ (b2 => b)
      BY <1>3 DEF Ended
    <3> QED BY <1>1, <3>1, ApartWeaken
  <2> QED BY <1>2, <2>1 DEF Ended
<1>4. ASSUME Checked PROVE Checked'
  <2>1. /\ Apart(queue, "CONNECTING", c, n) /\ Driven(queue, f, n)
        /\ c2 => c
        /\ f => f2
    BY <1>4 DEF Checked
  <2>2. Apart(queue, "CONNECTING", c2, n)
    BY <1>1, <2>1, ApartWeaken
  <2>3. Driven(queue, f2, n)
    BY <1>1, <2>1, DrivenWeaken
  <2> QED BY <1>2, <1>4, <2>2, <2>3 DEF Checked
<1> QED BY <1>3, <1>4 DEF TaskInv

(* A reception: the head of the queue says what the handler will do.       *)
LEMMA TaskReceive ==
  ASSUME TypeOK, TaskInv, Receive
  PROVE  TaskInv'
<1>1. /\ queue \in Seq(Reports) /\ queue # <<>> /\ queue' = Tail(queue)
      /\ app_pc = "receive" /\ UNCHANGED <<link, lost, channel, session>>
  BY DEF Receive, TypeOK
<1> PICK x : x = Head(queue)
    OBVIOUS
<1>2. /\ x = "CONNECTED" => app_pc' = "hide"
      /\ x # "CONNECTED" => app_pc' \notin {"hide", "startUp"}
      /\ x = "DISCONNECTED" => app_pc' = "show"
      /\ x # "DISCONNECTED"
           => app_pc' \notin {"show", "disable", "delete", "shutDown"}
      /\ x = "CONNECTING" <=> app_pc' = "install"
      /\ app_pc' # "shutDown"
  BY DEF Receive
<1> PICK b : b = Begun
    OBVIOUS
<1> PICK b2 : b2 = Begun'
    OBVIOUS
<1> PICK c : c = BegunChecked
    OBVIOUS
<1> PICK c2 : c2 = BegunChecked'
    OBVIOUS
<1> PICK f : f = Installed
    OBVIOUS
<1> PICK f2 : f2 = Installed'
    OBVIOUS
<1> PICK d : d = Due
    OBVIOUS
<1> PICK n : n = DueNext
    OBVIOUS
<1>3. /\ b \in BOOLEAN /\ b2 \in BOOLEAN /\ c \in BOOLEAN /\ c2 \in BOOLEAN
      /\ f \in BOOLEAN /\ f2 \in BOOLEAN /\ d \in BOOLEAN /\ n \in BOOLEAN
  BY DEF Begun, BegunChecked, Installed, Due, DueNext
<1>4. d = Due' /\ n = DueNext'
  BY <1>1 DEF Due, DueNext
<1>5. 1 \in 1 .. Len(queue) /\ x = queue[1]
  BY <1>1
<1>6. ASSUME Ended
      PROVE  Ended' /\ (x = "CONNECTED" => session = "none")
  <2>1. Apart(queue, "DISCONNECTED", b, d)
    BY <1>6 DEF Ended
  <2>2. b2 => x = "CONNECTED" \/ (b /\ x # "DISCONNECTED")
    BY <1>1, <1>2 DEF Begun, Opening, Closing
  <2>3. Apart(Tail(queue), "DISCONNECTED", b2, d)
    BY <1>1, <1>3, <2>1, <2>2, ApartTail
  <2>4. x = "CONNECTED" => ~b
    <3>1. 0 \in 0 .. Len(queue) /\ 1 \in 1 .. Len(queue) + 1 /\ 0 < 1
          /\ 1 # Len(queue) + 1
      BY <1>5
    <3>2. ~\E k \in 0 + 1 .. 1 - 1 : queue[k] = "DISCONNECTED"
      OBVIOUS
    <3> QED BY <1>3, <1>5, <2>1, <3>1, <3>2 DEF Apart
  <2>5. ~b => session = "none"
    BY <1>1 DEF Begun, Closing
  <2> QED BY <1>1, <1>4, <2>3, <2>4, <2>5 DEF Ended
<1>7. ASSUME Checked
      PROVE  Checked' /\ (x = "CONNECTED" => session = "none")
  <2>1. /\ Apart(queue, "CONNECTING", c, n) /\ Driven(queue, f, n)
        /\ session # "none" => channel # "none"
    BY <1>1, <1>7 DEF Checked
  <2>2. c2 => x = "CONNECTED" \/ (c /\ x # "CONNECTING")
    BY <1>1, <1>2 DEF BegunChecked, Opening
  <2>3. Apart(Tail(queue), "CONNECTING", c2, n)
    BY <1>1, <1>3, <2>1, <2>2, ApartTail
  <2>4. (f /\ x # "DISCONNECTED" => f2) /\ (x = "CONNECTING" => f2)
    BY <1>1, <1>2 DEF Installed, Closing
  <2>5. Driven(Tail(queue), f2, n)
    BY <1>1, <1>3, <2>1, <2>4, DrivenTail
  <2>6. x = "CONNECTED" => ~c /\ f
    <3>1. 0 \in 0 .. Len(queue) /\ 1 \in 1 .. Len(queue) + 1 /\ 0 < 1
          /\ 1 # Len(queue) + 1
      BY <1>5
    <3>2. ~\E k \in 0 + 1 .. 1 - 1 : queue[k] = "CONNECTING"
      OBVIOUS
    <3>3. x = "CONNECTED" => ~c
      BY <1>3, <1>5, <2>1, <3>1, <3>2 DEF Apart
    <3>4. x = "CONNECTED" => Drives(queue, f, 1)
      BY <1>5, <2>1, <3>1 DEF Driven
    <3>5. Drives(queue, f, 1) => f
      BY <1>3 DEF Drives
    <3> QED BY <3>3, <3>4, <3>5
  <2>7. (~c => session = "none") /\ (f => channel # "none")
    BY <1>1 DEF BegunChecked, Installed
  <2>8. (Opening \/ (session # "none" /\ app_pc # "shutDown")
          => channel # "none")'
    BY <1>1, <1>2, <2>1, <2>6, <2>7 DEF Opening
  <2> QED BY <1>1, <1>4, <2>3, <2>5, <2>6, <2>7, <2>8 DEF Checked
<1>8. (OneOfThem /\ Opening => session = "none")'
  BY <1>1, <1>2, <1>6, <1>7 DEF TaskInv, OneOfThem, Opening
<1>9. OneTask'
  BY <1>1 DEF TaskInv, OneTask, OneOfThem
<1> QED BY <1>1, <1>6, <1>7, <1>8, <1>9 DEF TaskInv

LEMMA TaskRestart == Restart => TaskInv'
<1> SUFFICES ASSUME Restart PROVE TaskInv'
    OBVIOUS
<1>1. /\ Len(queue') = 0 /\ link' = "disconnected" /\ app_pc' = "receive"
      /\ session' = "none" /\ channel' = "none"
  BY DEF Restart
<1>2. Ended'
  BY <1>1 DEF Ended, Apart, Begun, Opening
<1>3. Checked'
  BY <1>1 DEF Checked, Apart, Driven, BegunChecked, DueNext, Opening
<1> QED BY <1>1, <1>2, <1>3 DEF TaskInv, OneTask, Opening

LEMMA TaskInit == Init => TaskInv
<1> SUFFICES ASSUME Init PROVE TaskInv
    OBVIOUS
<1>1. /\ Len(queue) = 0 /\ link = "disconnected" /\ app_pc = "receive"
      /\ session = "none" /\ channel = "none"
  BY DEF Init
<1>2. Ended
  BY <1>1 DEF Ended, Apart, Begun, Opening
<1>3. Checked
  BY <1>1 DEF Checked, Apart, Driven, BegunChecked, DueNext, Opening
<1> QED BY <1>1, <1>2, <1>3 DEF TaskInv, OneTask, Opening

LEMMA TaskStep == TypeOK /\ TaskInv /\ [Next]_vars => TaskInv'
<1> SUFFICES ASSUME TypeOK, TaskInv, [Next]_vars PROVE TaskInv'
    OBVIOUS
<1>0. CASE Restart
  BY <1>0, TaskRestart
<1>1. CASE StackStep
  <2> USE DEF Due, DueNext, Reports
  <2>1. CASE LinkConnecting
    BY <2>1, TaskReport DEF LinkConnecting
  <2>2. CASE LinkConnected
    BY <2>2, TaskReport DEF LinkConnected
  <2>3. CASE LinkDisconnecting
    BY <2>3, TaskReport DEF LinkDisconnecting
  <2>4. CASE LinkDisconnected
    BY <2>4, TaskReport DEF LinkDisconnected
  <2>5. ASSUME NEW e \in {"AUDIO_CFG", "OTHER"}, LinkAudio(e)
        PROVE  TaskInv'
    BY <2>5, TaskReport DEF LinkAudio
  <2>6. CASE DataTooEarly
    BY <1>0, <2>6 DEF DataTooEarly
  <2> QED BY <1>1, <2>1, <2>2, <2>3, <2>4, <2>5, <2>6 DEF StackStep
<1>2. CASE AppStep
  <2> USE DEF Begun, BegunChecked, Installed, Opening, Closing, Checked,
              OneTask, OneOfThem
  <2>1. CASE Receive
    BY <2>1, TaskReceive
  <2>2. CASE Install
    <3>1. TaskInv /\ (Checked => session = "none")
      BY <2>2 DEF Install
    <3> QED BY <2>2, <3>1, TaskOther DEF Install, TaskInv
  <2>3. CASE InstallAborts
    BY <1>0, <2>3 DEF InstallAborts
  <2>4. CASE Hide
    BY <2>4, TaskOther DEF Hide, TaskInv
  <2>5. CASE StartUp
    BY <2>5, TaskOther DEF StartUp, TaskInv
  <2>6. CASE ReconfDisable
    BY <2>6, TaskOther DEF ReconfDisable, TaskInv
  <2>7. CASE ReconfEnable
    BY <2>7, TaskOther DEF ReconfEnable, TaskInv
  <2>8. CASE Show
    BY <2>8, TaskOther DEF Show, TaskInv
  <2>9. CASE Disable
    BY <2>9, TaskOther DEF Disable, TaskInv
  <2>10. CASE Delete
    BY <2>10, TaskOther DEF Delete, TaskInv
  <2>11. CASE UninstallAborts
    BY <1>0, <2>11 DEF UninstallAborts
  <2>12. CASE ShutDown
    BY <2>12, TaskOther DEF ShutDown, TaskInv
  <2> QED BY <1>2, <2>1, <2>2, <2>3, <2>4, <2>5, <2>6, <2>7, <2>8, <2>9,
             <2>10, <2>11, <2>12 DEF AppStep
<1>3. ASSUME UNCHANGED <<link, queue, lost, channel, session, app_pc>>
      PROVE  TaskInv'
  BY <1>3 DEF TaskInv, Ended, Checked, OneTask, OneOfThem, Begun,
              BegunChecked, Installed, Due, DueNext, Opening, Closing
<1>4. CASE I2sStep
  BY <1>0, <1>3, <1>4 DEF I2sStep, WriteBegin, WriteEnd, I2sCrashes
<1>5. CASE UNCHANGED vars
  BY <1>3, <1>5 DEF vars
<1> QED BY <1>1, <1>2, <1>4, <1>5 DEF Next

LEMMA TaskInvariant == Spec => []TaskInv
<1> QED BY TaskInit, TaskStep, TypeCorrect, PTL DEF Spec

(* bt_i2s_task_start_up never finds the task of an earlier session, and    *)
(* never leaves one of two behind at the shut-down, unless both a          *)
(* CONNECTING and a DISCONNECTED are among the dropped reports: each of    *)
(* the two, alone, ends a session before the next one begins.              *)
THEOREM OneTaskOnly == Spec => []OneTask
<1>1. TaskInv => OneTask
  BY DEF TaskInv
<1> QED BY <1>1, TaskInvariant, PTL
=============================================================================
