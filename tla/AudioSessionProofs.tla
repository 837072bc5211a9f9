------------------------- MODULE AudioSessionProofs -------------------------
(***************************************************************************)
(* Proofs about AudioSession for every length of the queue and every size  *)
(* of the ring, the mark, the items and the packets: what the ring and the *)
(* connection handling, proved right one by one, do for each other.        *)
(***************************************************************************)
EXTENDS AudioSession, A2dpSinkProofs

(* A prefetch that has been measured is in the ring.                       *)
Prefetched == ringbuf # "NULL" => items_waiting >= PREFETCH_WATER

(* From the moment the data callback has seen PREFETCHING until the I2S    *)
(* task takes the semaphore, that task waits and nobody else gives.        *)
Handshake ==
  /\ ringbuffer_mode = "PREFETCHING" =>
       task \in {"none", "take"} /\ semaphore # "full"
  /\ write_pc \in {"info", "resume", "give"} =>
       task \in {"none", "take"} /\ semaphore # "full"
  /\ write_pc \in {"resume", "give"} => Prefetched
  /\ write_pc = "give" => ringbuffer_mode # "PREFETCHING"
  /\ semaphore = "full" => task \in {"none", "take"} /\ Prefetched
  /\ call \in {"mkSemaphore", "mkRingbuf"} =>
       write_pc \notin {"resume", "give"} /\ semaphore # "full"

(* The ring for itself: what has been created at each step of a start-up   *)
(* and a shut-down, and when the I2S task holds an item.                   *)
RingInv ==
  /\ Ring!TypeOK
  /\ Ring!NoDangling
  /\ call \in {"mkSemaphore", "mkRingbuf", "mkTask", "rmRingbuf",
               "rmSemaphore"} => task = "none"
  /\ call = "mkSemaphore" => semaphore = "NULL"
  /\ call \in {"mkRingbuf", "mkTask"} => semaphore # "NULL"
  /\ call \in {"mkSemaphore", "mkRingbuf", "rmSemaphore"} => ringbuf = "NULL"
  /\ call = "mkTask" => ringbuf # "NULL" /\ item_held = 0
  /\ ringbuf = "NULL" => items_waiting = 0 /\ item_held = 0
  /\ task \in {"take", "receive", "underflow"} => item_held = 0
  /\ task \in {"write", "return"} => item_held \in 1 .. ItemSizeUpTo
  /\ semaphore = "NULL" => ringbuf = "NULL"
  /\ overtaken \/ Handshake

(* Where the handler is while a start-up or a shut-down runs, and what a   *)
(* session has.                                                            *)
CallInv ==
  /\ call \in {"mkSemaphore", "mkRingbuf", "mkTask"} =>
       app_pc = "receive" /\ session = "up"
  /\ call = "rmTask" => app_pc = "shutDown"
  /\ call \in {"rmRingbuf", "rmSemaphore"} =>
       app_pc = "receive" /\ session = "none"
  /\ session = "none" => task = "none"
  /\ session = "none" /\ call \notin {"rmRingbuf", "rmSemaphore"} =>
       ringbuf = "NULL" /\ semaphore = "NULL"
  /\ session = "up" /\ call \in {"idle", "rmTask"} =>
       refused \/ (task # "none" /\ ringbuf # "NULL" /\ semaphore # "NULL")
  /\ i2s_pc # "wait" => task = "write"
  /\ stale \in BOOLEAN /\ refused \in BOOLEAN /\ unheard \in BOOLEAN

Up(l) == l \in {"connected", "disconnecting"}

ConnectedWaits == \E i \in 1 .. Len(queue) : queue[i] = "CONNECTED"

(* The report of the present connection, if it was sent, waits, or is      *)
(* being handled, or the session it calls for exists; the reports of       *)
(* earlier ones come first.                                                *)
UpInv ==
  Up(link) /\ ~unheard =>
    /\ \A i \in 1 .. Len(queue) :
         queue[i] \in {"CONNECTING", "DISCONNECTED"} =>
           \E j \in i + 1 .. Len(queue) : queue[j] = "CONNECTED"
    /\ \/ ConnectedWaits
       \/ app_pc \in {"hide", "startUp"}
       \/ app_pc \in {"receive", "reconfDisable", "reconfEnable"}
            /\ session = "up"

(* A data callback under which the link has not gone down is one of the    *)
(* present connection.                                                     *)
CallbackInv == write_pc # "idle" /\ ~stale => Up(link)

SessionInv ==
  /\ TypeOK /\ TaskInv /\ OneRing
  /\ RingInv /\ CallInv /\ UpInv /\ CallbackInv

-----------------------------------------------------------------------------
USE SinkAssumption, RingAssumption DEF SinkAssumption

(* A step of the composition is a step of the sink, or a restart of it.    *)
LEMMA SinkSteps == SessionNext => [Next]_vars \/ Restart
<1> USE DEF Next, StackStep, AppStep, I2sStep
<1>1. LinkStep => Next
  BY DEF LinkStep
<1>2. DataArrives \/ DataStep => UNCHANGED vars
  BY DEF DataArrives, DataStep
<1>3. TaskPanics \/ HandlerAborts => Restart
  BY DEF TaskPanics, HandlerAborts, Restarts
<1>4. HandlerStep => Next
  BY DEF HandlerStep
<1>5. StartUpBegins \/ ShutDownTask => Next
  BY DEF StartUpBegins, ShutDownTask
<1>6. StartUpStep \/ ShutDownBegins \/ ShutDownStep => UNCHANGED vars
  BY DEF StartUpStep, ShutDownBegins, ShutDownStep
<1>7. I2sTaskStep => [Next]_vars
  BY DEF I2sTaskStep, I2sOnRing, OutputBegins, OutputRefused, OutputEnds
<1> QED BY <1>1, <1>2, <1>3, <1>4, <1>5, <1>6, <1>7
        DEF SessionNext, AppTaskStep

LEMMA SinkKept ==
  ASSUME TypeOK, TaskInv, OneRing, [SessionNext]_sessionVars
  PROVE  TypeOK' /\ TaskInv' /\ OneRing'
<1>1. [Next]_vars \/ Restart
  BY SinkSteps DEF sessionVars
<1>2. CASE Restart
  <2>1. TypeOK' /\ OneRing'
    BY <1>2 DEF Restart, TypeOK, Links, OneRing
  <2> QED BY <1>2, <2>1, TaskRestart
<1>3. ASSUME [Next]_vars PROVE TypeOK' /\ TaskInv'
  BY <1>3, TypeStep, TaskStep
<1>4. UNCHANGED lost \/ Restart \/ OneRing'
  <2>1. CASE LinkStep
    BY <2>1 DEF LinkStep
  <2>2. CASE HandlerStep \/ StartUpBegins \/ ShutDownTask
    BY <2>2 DEF HandlerStep, StartUpBegins, ShutDownTask, Receive, Install,
                Hide, StartUp, ReconfDisable, ReconfEnable, Show, Disable,
                Delete, ShutDown
  <2>3. CASE TaskPanics \/ HandlerAborts
    BY <2>3 DEF TaskPanics, HandlerAborts, Restarts
  <2>4. CASE OutputBegins \/ OutputEnds
    BY <2>4 DEF OutputBegins, OutputEnds, WriteBegin, WriteEnd
  <2>5. CASE \/ DataArrives \/ DataStep \/ StartUpStep \/ ShutDownBegins
             \/ ShutDownStep \/ I2sOnRing \/ OutputRefused
             \/ UNCHANGED sessionVars
    BY <2>5 DEF DataArrives, DataStep, StartUpStep, ShutDownBegins,
                ShutDownStep, I2sOnRing, OutputRefused, sessionVars, vars
  <2> QED BY <2>1, <2>2, <2>3, <2>4, <2>5
          DEF SessionNext, AppTaskStep, I2sTaskStep
<1> QED BY <1>1, <1>2, <1>3, <1>4 DEF OneRing

(* What the reports that have been sent say of the handler.                *)
LEMMA HandlerFacts ==
  ASSUME TypeOK, TaskInv, OneRing
  PROVE  /\ session \in {"none", "up"}
         /\ app_pc = "startUp" => session = "none"
         /\ /\ app_pc = "receive" /\ queue = <<>>
            /\ ~Up(link) /\ "DISCONNECTED" \notin lost
            => session = "none"
<1>1. session \in {"none", "up"} /\ (app_pc = "startUp" => session = "none")
  BY DEF TaskInv, OneTask, OneOfThem, OneRing, Opening
<1>2. ASSUME app_pc = "receive", queue = <<>>, ~Up(link),
             "DISCONNECTED" \notin lost
      PROVE  session = "none"
  <2>1. Len(queue) = 0
    BY <1>2
  <2>2. Due
    BY <1>2 DEF Due, Up, TypeOK, Links
  <2>3. Ended
    BY <1>2 DEF TaskInv
  <2>4. 0 \in 0 .. Len(queue) /\ 1 \in 1 .. Len(queue) + 1 /\ 0 < 1
        /\ 1 = Len(queue) + 1
    BY <2>1
  <2>5. ~\E k \in 0 + 1 .. 1 - 1 : queue[k] = "DISCONNECTED"
    OBVIOUS
  <2>6. ~Begun
    <3> PICK b : b = Begun
        OBVIOUS
    <3>1. b \in BOOLEAN
      BY DEF Begun
    <3> QED BY <2>2, <2>3, <2>4, <2>5, <3>1 DEF Ended, Apart
  <2> QED BY <1>2, <2>6 DEF Begun, Closing
<1> QED BY <1>1, <1>2

-----------------------------------------------------------------------------
(* The ring.                                                               *)

LEMMA RingKept == RingInv /\ [Ring!Next \/ Ring!Reset]_ringVars => RingInv'
<1> SUFFICES ASSUME RingInv, [Ring!Next \/ Ring!Reset]_ringVars PROVE RingInv'
    OBVIOUS
<1>a. Ring!EnterStartUp => overtaken' \in BOOLEAN
  BY DEF Ring!EnterStartUp
<1> USE DEF RingInv, Ring!TypeOK, Ring!NoDangling, Ring!Modes, Handshake,
            Prefetched
<1>0. CASE Ring!Reset
  <2>1. overtaken' \in BOOLEAN
    BY <1>0, Zenon DEF Ring!Reset
  <2> QED BY <1>0, <2>1 DEF Ring!Reset
<1>1. CASE Ring!WriteEnter
  BY <1>1 DEF Ring!WriteEnter
<1>2. CASE Ring!WriteStep
  <2>1. CASE Ring!WritePanic
    BY <1>0, <2>1 DEF Ring!WritePanic
  <2>2. CASE Ring!WriteDropInfo
    BY <2>2 DEF Ring!WriteDropInfo
  <2>3. CASE Ring!WriteDropResume
    BY <2>3 DEF Ring!WriteDropResume
  <2>4. CASE \E size \in PacketSizes : Ring!WriteSend(size)
    <3> PICK size \in PacketSizes : Ring!WriteSend(size)
        BY <2>4
    <3> size \in Nat
        OBVIOUS
    <3> QED BY DEF Ring!WriteSend
  <2>5. CASE Ring!WriteOverflow
    BY <2>5 DEF Ring!WriteOverflow
  <2>6. CASE Ring!WriteTest
    BY <2>6 DEF Ring!WriteTest
  <2>7. CASE Ring!WriteInfo
    BY <2>7 DEF Ring!WriteInfo
  <2>8. CASE Ring!WriteResume
    BY <2>8 DEF Ring!WriteResume
  <2>9. CASE Ring!WriteGive
    BY <2>9 DEF Ring!WriteGive
  <2> QED BY <1>2, <2>1, <2>2, <2>3, <2>4, <2>5, <2>6, <2>7, <2>8, <2>9
          DEF Ring!WriteStep
<1>3. CASE Ring!I2sStep
  <2>1. CASE Ring!I2sTake
    BY <2>1 DEF Ring!I2sTake
  <2>2. CASE \E n \in 1 .. ItemSizeUpTo : Ring!I2sReceive(n)
    BY <2>2 DEF Ring!I2sReceive
  <2>3. CASE Ring!I2sTimeout
    BY <2>3 DEF Ring!I2sTimeout
  <2>4. CASE Ring!I2sUnderflow
    BY <2>4 DEF Ring!I2sUnderflow
  <2>5. CASE Ring!I2sWrite
    BY <2>5 DEF Ring!I2sWrite
  <2>6. CASE Ring!I2sReturn
    BY <2>6 DEF Ring!I2sReturn
  <2> QED BY <1>3, <2>1, <2>2, <2>3, <2>4, <2>5, <2>6 DEF Ring!I2sStep
<1>4. CASE Ring!AppStep
  <2>1. CASE Ring!StartUp
    <3>1. (overtaken \/ Handshake)'
      BY <2>1 DEF Ring!StartUp, Ring!EnterStartUp
    <3> HIDE DEF Handshake
    <3> QED BY <1>a, <2>1, <3>1 DEF Ring!StartUp, Ring!EnterStartUp
  <2>2. CASE Ring!CreateSemaphore
    BY <2>2 DEF Ring!CreateSemaphore
  <2>3. CASE Ring!CreateRingbuf
    BY <2>3 DEF Ring!CreateRingbuf
  <2>4. CASE Ring!CreateTask
    BY <2>4 DEF Ring!CreateTask
  <2>5. CASE Ring!ShutDown
    BY <2>5 DEF Ring!ShutDown
  <2>6. CASE Ring!DeleteTask
    BY <2>6 DEF Ring!DeleteTask
  <2>7. CASE Ring!DeleteRingbuf
    BY <2>7 DEF Ring!DeleteRingbuf
  <2>8. CASE Ring!DeleteSemaphore
    BY <2>8 DEF Ring!DeleteSemaphore
  <2> QED BY <1>4, <2>1, <2>2, <2>3, <2>4, <2>5, <2>6, <2>7, <2>8
          DEF Ring!AppStep
<1>5. CASE UNCHANGED ringVars
  BY <1>5 DEF ringVars
<1> QED BY <1>0, <1>1, <1>2, <1>3, <1>4, <1>5 DEF Ring!Next

(* Between two restarts the ring takes its own steps; a start-up finds     *)
(* nothing of the session before.                                          *)
LEMMA RingSteps ==
  ASSUME SessionInv, [SessionNext]_sessionVars
  PROVE  [Ring!Next \/ Ring!Reset]_ringVars
<1> USE DEF Ring!Next
<1>1. CASE LinkStep \/ HandlerStep \/ OutputBegins \/ UNCHANGED sessionVars
  BY <1>1 DEF LinkStep, HandlerStep, OutputBegins, sessionVars
<1>2. CASE DataArrives \/ DataStep
  BY <1>2 DEF DataArrives, DataStep, Ring!WriteStep
<1>3. CASE TaskPanics \/ HandlerAborts
  BY <1>3 DEF TaskPanics, HandlerAborts, Restarts
<1>4. CASE StartUpBegins
  <2>1. app_pc = "startUp" /\ session = "none"
    BY <1>4, HandlerFacts DEF StartUpBegins, StartUp, SessionInv
  <2>2. task = "none" /\ ringbuf = "NULL" /\ semaphore = "NULL"
    BY <1>4, <2>1 DEF SessionInv, CallInv, StartUpBegins, Ring!EnterStartUp
  <2> QED BY <1>4, <2>2 DEF StartUpBegins, Ring!StartUp, Ring!AppStep
<1>5. CASE StartUpStep \/ ShutDownBegins \/ ShutDownTask \/ ShutDownStep
  BY <1>5 DEF StartUpStep, ShutDownBegins, ShutDownTask, ShutDownStep,
              Ring!AppStep
<1>6. CASE I2sOnRing \/ OutputRefused \/ OutputEnds
  BY <1>6 DEF I2sOnRing, OutputRefused, OutputEnds, Ring!I2sStep
<1> QED BY <1>1, <1>2, <1>3, <1>4, <1>5, <1>6
        DEF SessionNext, AppTaskStep, I2sTaskStep

-----------------------------------------------------------------------------
(* The two together.                                                       *)

LEMMA CallKept ==
  ASSUME SessionInv, [SessionNext]_sessionVars
  PROVE  CallInv'
<1> USE DEF CallInv, SessionInv, RingInv, Ring!TypeOK
<1>1. CASE LinkStep
  <2>1. UNCHANGED <<app_pc, session, i2s_pc, ringVars, refused>>
    BY <1>1 DEF LinkStep, LinkConnecting, LinkConnected, LinkDisconnecting,
                LinkDisconnected, LinkAudio
  <2>2. stale' \in BOOLEAN /\ unheard' \in BOOLEAN
    BY <1>1 DEF LinkStep
  <2> QED BY <2>1, <2>2 DEF ringVars
<1>2. CASE DataArrives
  BY <1>2 DEF DataArrives, vars, history, Ring!WriteEnter
<1>3. CASE DataStep
  <2>1. UNCHANGED <<vars, task, call, ringbuf, refused, unheard>>
    BY <1>3 DEF DataStep, Ring!WriteDropInfo, Ring!WriteDropResume,
                Ring!WriteSend, Ring!WriteOverflow, Ring!WriteTest,
                Ring!WriteInfo, Ring!WriteResume, Ring!WriteGive
  <2>2. UNCHANGED semaphore \/ (semaphore # "NULL" /\ semaphore' # "NULL")
    BY <1>3 DEF DataStep, Ring!WriteDropInfo, Ring!WriteDropResume,
                Ring!WriteSend, Ring!WriteOverflow, Ring!WriteTest,
                Ring!WriteInfo, Ring!WriteResume, Ring!WriteGive
  <2>3. stale' \in BOOLEAN
    BY <1>3 DEF DataStep
  <2> QED BY <2>1, <2>2, <2>3 DEF vars
<1>4. CASE TaskPanics \/ HandlerAborts
  <2>1. /\ Restart /\ Ring!Reset
        /\ stale' = FALSE /\ refused' = FALSE /\ unheard' = FALSE
    BY <1>4 DEF TaskPanics, HandlerAborts, Restarts
  <2> QED BY <2>1 DEF Restart, Ring!Reset
<1>5. CASE HandlerStep
  <2>1. /\ UNCHANGED <<session, i2s_pc, ringVars, stale, refused, unheard>>
        /\ call = "idle"
    BY <1>5 DEF HandlerStep, history, Receive, Install, Hide, ReconfDisable,
                ReconfEnable, Show, Disable, Delete
  <2> QED BY <2>1 DEF ringVars
<1>6. CASE StartUpBegins
  <2>1. session = "none"
    BY <1>6, HandlerFacts DEF StartUpBegins, StartUp
  <2>2. /\ session' = "up" /\ app_pc' = "receive" /\ call' = "mkSemaphore"
        /\ UNCHANGED <<i2s_pc, task, stale, unheard>> /\ refused' = FALSE
    BY <1>6, <2>1 DEF StartUpBegins, StartUp, Ring!EnterStartUp
  <2> QED BY <2>2
<1>7. CASE StartUpStep
  <2>1. UNCHANGED <<app_pc, session, i2s_pc, stale, unheard>>
        /\ refused' \in BOOLEAN
    BY <1>7 DEF StartUpStep, vars
  <2>2. session = "up" /\ app_pc = "receive" /\ task = "none"
    BY <1>7 DEF StartUpStep, Ring!CreateSemaphore, Ring!CreateRingbuf,
                Ring!CreateTask
  <2>3. call' \in {"idle", "mkRingbuf", "mkTask"}
    BY <1>7 DEF StartUpStep, Ring!CreateSemaphore, Ring!CreateRingbuf,
                Ring!CreateTask
  <2>4. call' = "idle" =>
          refused' \/ (task' # "none" /\ ringbuf' # "NULL" /\ semaphore' # "NULL")
    BY <1>7 DEF StartUpStep, Ring!CreateSemaphore, Ring!CreateRingbuf,
                Ring!CreateTask
  <2> QED BY <2>1, <2>2, <2>3, <2>4
<1>8. CASE ShutDownBegins
  BY <1>8 DEF ShutDownBegins, Ring!ShutDown, vars, history
<1>9. CASE ShutDownTask
  <2>1. session \in {"none", "up"}
    BY HandlerFacts
  <2>2. /\ session' = "none" /\ app_pc' = "receive" /\ i2s_pc' = "wait"
        /\ call' = "rmRingbuf" /\ task' = "none" /\ refused' = FALSE
        /\ UNCHANGED <<stale, unheard>>
    BY <1>9, <2>1 DEF ShutDownTask, ShutDown, Ring!DeleteTask
  <2> QED BY <2>2
<1>10. CASE ShutDownStep
  <2>1. CASE Ring!DeleteRingbuf
    BY <1>10, <2>1 DEF ShutDownStep, Ring!DeleteRingbuf, vars, history
  <2>2. CASE Ring!DeleteSemaphore
    BY <1>10, <2>2 DEF ShutDownStep, Ring!DeleteSemaphore, vars, history
  <2> QED BY <1>10, <2>1, <2>2 DEF ShutDownStep
<1>11. CASE I2sOnRing
  <2>1. UNCHANGED <<vars, call, ringbuf, stale, refused, unheard>>
    BY <1>11 DEF history, I2sOnRing, Ring!I2sTake, Ring!I2sReceive, Ring!I2sTimeout,
                 Ring!I2sUnderflow, Ring!I2sReturn
  <2>2. task # "none" /\ task' # "none" /\ task # "write"
    BY <1>11 DEF I2sOnRing, Ring!I2sTake, Ring!I2sReceive, Ring!I2sTimeout,
                 Ring!I2sUnderflow, Ring!I2sReturn
  <2>3. UNCHANGED semaphore \/ (semaphore # "NULL" /\ semaphore' # "NULL")
    BY <1>11 DEF I2sOnRing, Ring!I2sTake, Ring!I2sReceive, Ring!I2sTimeout,
                 Ring!I2sUnderflow, Ring!I2sReturn
  <2> QED BY <2>1, <2>2, <2>3 DEF vars
<1>12. CASE OutputBegins
  BY <1>12 DEF OutputBegins, WriteBegin, ringVars, history
<1>13. CASE OutputRefused
  BY <1>13 DEF OutputRefused, Ring!I2sWrite, vars, history
<1>14. CASE OutputEnds
  BY <1>14 DEF OutputEnds, Ring!I2sWrite, WriteEnd, history
<1>15. CASE UNCHANGED sessionVars
  BY <1>15 DEF sessionVars, vars, ringVars, history
<1> QED BY <1>1, <1>2, <1>3, <1>4, <1>5, <1>6, <1>7, <1>8, <1>9, <1>10,
           <1>11, <1>12, <1>13, <1>14, <1>15
        DEF SessionNext, AppTaskStep, I2sTaskStep

(* A report that has been sent waits in the queue.                         *)
LEMMA ReportWaits ==
  ASSUME TypeOK, NEW e \in Reports, Report(e), queue' # queue
  PROVE  /\ Len(queue) \in Nat
         /\ Len(queue') = Len(queue) + 1
         /\ \A i \in 1 .. Len(queue) : queue'[i] = queue[i]
         /\ queue'[Len(queue) + 1] = e
<1>1. queue' = Append(queue, e)
  BY DEF Report
<1>2. queue \in Seq(Reports)
  BY DEF TypeOK
<1> QED BY <1>1, <1>2

LEMMA UpKept ==
  ASSUME SessionInv, [SessionNext]_sessionVars
  PROVE  UpInv'
<1> SUFFICES ASSUME Up(link'), ~unheard' PROVE UpInv'
    BY DEF UpInv, Up
<1>0. TypeOK /\ TaskInv /\ OneRing
  BY DEF SessionInv
<1>1. CASE LinkStep
  <2>1. UNCHANGED <<app_pc, session>>
    BY <1>1 DEF LinkStep, LinkConnecting, LinkConnected, LinkDisconnecting,
                LinkDisconnected, LinkAudio
  <2>2. CASE LinkConnected
    <3>1. Report("CONNECTED") /\ "CONNECTED" \in Reports /\ queue' # queue
      BY <1>1, <2>2 DEF LinkStep, LinkConnected, Reports
    <3>2. /\ Len(queue') \in 1 .. Len(queue')
          /\ queue'[Len(queue')] = "CONNECTED"
      BY <1>0, <3>1, ReportWaits
    <3>3. ConnectedWaits'
      BY <3>2 DEF ConnectedWaits
    <3>4. \A i \in 1 .. Len(queue') :
            queue'[i] \in {"CONNECTING", "DISCONNECTED"} =>
              \E j \in i + 1 .. Len(queue') : queue'[j] = "CONNECTED"
      BY <3>2
    <3> QED BY <3>3, <3>4 DEF UpInv
  <2>3. ASSUME NEW e \in Reports \ {"CONNECTING", "DISCONNECTED"}, Report(e),
               Up(link), link # "connecting"
        PROVE  UpInv'
    <3>1. UpInv /\ Up(link) /\ ~unheard
      <4>1. UpInv /\ unheard \in BOOLEAN
        BY DEF SessionInv, CallInv
      <4>2. link' \in {"connected", "disconnecting"}
        BY DEF Up
      <4>3. ~unheard
        BY <1>1, <2>3, <4>1, <4>2 DEF LinkStep
      <4> QED BY <2>3, <4>1, <4>3
    <3>2. CASE queue' = queue
      BY <2>1, <3>1, <3>2 DEF UpInv, ConnectedWaits
    <3>3. CASE queue' # queue
      <4>1. ConnectedWaits => ConnectedWaits'
        BY <1>0, <2>3, <3>3, ReportWaits DEF ConnectedWaits
      <4>2. \A i \in 1 .. Len(queue') :
              queue'[i] \in {"CONNECTING", "DISCONNECTED"} =>
                \E j \in i + 1 .. Len(queue') : queue'[j] = "CONNECTED"
        BY <1>0, <2>3, <3>1, <3>3, ReportWaits DEF UpInv
      <4> QED BY <2>1, <3>1, <4>1, <4>2 DEF UpInv
    <3> QED BY <3>2, <3>3
  <2>4. CASE LinkDisconnecting
    BY <2>3, <2>4 DEF LinkDisconnecting, Up, Reports
  <2>5. CASE LinkAudio("AUDIO_CFG")
    BY <2>3, <2>5 DEF LinkAudio, Up, Reports
  <2>6. CASE LinkConnecting \/ LinkDisconnected
    BY <2>6 DEF LinkConnecting, LinkDisconnected, Up
  <2> QED BY <1>1, <2>2, <2>4, <2>5, <2>6 DEF LinkStep
<1>2. CASE HandlerStep
  <2>1. CASE Receive
    <3>1. /\ queue' = Tail(queue) /\ queue # <<>> /\ queue \in Seq(Reports)
          /\ app_pc = "receive" /\ UNCHANGED <<link, session, unheard>>
      BY <1>0, <1>2, <2>1 DEF Receive, TypeOK, HandlerStep, history
    <3>2. /\ Len(queue) \in Nat \ {0} /\ Len(queue') = Len(queue) - 1
          /\ \A i \in 1 .. Len(queue) - 1 : queue'[i] = queue[i + 1]
          /\ Head(queue) = queue[1]
      BY <3>1
    <3>3. ASSUME NEW j \in 2 .. Len(queue), queue[j] = "CONNECTED"
          PROVE  ConnectedWaits'
      <4>1. j - 1 \in 1 .. Len(queue') /\ queue'[j - 1] = "CONNECTED"
        BY <3>2, <3>3
      <4> QED BY <4>1 DEF ConnectedWaits
    <3>4. UpInv /\ Up(link) /\ ~unheard
      BY <3>1 DEF SessionInv
    <3>5. ASSUME NEW i \in 1 .. Len(queue'),
                 queue'[i] \in {"CONNECTING", "DISCONNECTED"}
          PROVE  \E j \in i + 1 .. Len(queue') : queue'[j] = "CONNECTED"
      <4>1. /\ i + 1 \in 1 .. Len(queue)
            /\ queue[i + 1] \in {"CONNECTING", "DISCONNECTED"}
        BY <3>2, <3>5
      <4>2. PICK j \in i + 1 + 1 .. Len(queue) : queue[j] = "CONNECTED"
        BY <3>4, <4>1 DEF UpInv
      <4>3. j - 1 \in i + 1 .. Len(queue') /\ queue'[j - 1] = "CONNECTED"
        BY <3>2, <4>2
      <4> QED BY <4>3
    <3>6. \/ ConnectedWaits' \/ app_pc' \in {"hide", "startUp"}
          \/ app_pc' \in {"receive", "reconfDisable", "reconfEnable"}
               /\ session' = "up"
      <4>1. CASE Head(queue) = "CONNECTED"
        BY <2>1, <4>1 DEF Receive
      <4>2. CASE Head(queue) \in {"CONNECTING", "DISCONNECTED"}
        <5>1. \E j \in 2 .. Len(queue) : queue[j] = "CONNECTED"
          BY <3>2, <3>4, <4>2 DEF UpInv
        <5> QED BY <3>3, <5>1
      <4>3. CASE Head(queue) \notin {"CONNECTED", "CONNECTING",
                                    "DISCONNECTED"}
        <5>1. CASE ConnectedWaits
          <6>1. PICK j \in 1 .. Len(queue) : queue[j] = "CONNECTED"
            BY <5>1 DEF ConnectedWaits
          <6>2. j \in 2 .. Len(queue)
            BY <3>2, <4>3, <6>1
          <6> QED BY <3>3, <6>1, <6>2
        <5>2. CASE session = "up"
          <6>1. app_pc' \in {"receive", "reconfDisable"}
            BY <2>1, <4>3 DEF Receive
          <6> QED BY <3>1, <5>2, <6>1
        <5> QED BY <3>1, <3>4, <5>1, <5>2 DEF UpInv
      <4> QED BY <4>1, <4>2, <4>3
    <3> QED BY <3>5, <3>6 DEF UpInv
  <2>2. CASE ~Receive
    <3>1. UNCHANGED <<link, queue, session, unheard>>
      BY <1>2, <2>2 DEF HandlerStep, history, Install, Hide, ReconfDisable,
                        ReconfEnable, Show, Disable, Delete
    <3>2. /\ app_pc = "hide" => app_pc' = "startUp"
          /\ app_pc # "startUp" /\ app_pc # "receive"
          /\ app_pc = "reconfDisable" => app_pc' = "reconfEnable"
          /\ app_pc = "reconfEnable" => app_pc' = "receive"
      BY <1>2, <2>2 DEF HandlerStep, Install, Hide, ReconfDisable,
                        ReconfEnable, Show, Disable, Delete
    <3>3. UpInv /\ Up(link) /\ ~unheard
      BY <3>1 DEF SessionInv
    <3>4. ConnectedWaits => ConnectedWaits'
      BY <3>1 DEF ConnectedWaits
    <3> QED BY <3>1, <3>2, <3>3, <3>4 DEF UpInv
  <2> QED BY <2>1, <2>2
<1>3. CASE StartUpBegins
  <2>1. session = "none" /\ app_pc = "startUp"
    BY <1>0, <1>3, HandlerFacts DEF StartUpBegins, StartUp, SessionInv
  <2>2. /\ session' = "up" /\ app_pc' = "receive"
        /\ UNCHANGED <<link, queue, unheard>>
    BY <1>3, <2>1 DEF StartUpBegins, StartUp
  <2> QED BY <2>2 DEF SessionInv, UpInv
<1>4. CASE ShutDownTask
  <2>1. /\ app_pc = "shutDown" /\ UNCHANGED <<link, queue, unheard>>
    BY <1>4 DEF ShutDownTask, ShutDown
  <2>2. ConnectedWaits => ConnectedWaits'
    BY <2>1 DEF ConnectedWaits
  <2> QED BY <2>1, <2>2 DEF SessionInv, UpInv
<1>5. CASE TaskPanics \/ HandlerAborts
  <2>1. link' = "disconnected"
    BY <1>5 DEF TaskPanics, HandlerAborts, Restarts, Restart
  <2> QED BY <2>1 DEF Up
<1>6. ASSUME UNCHANGED <<link, queue, app_pc, session, unheard>> PROVE UpInv'
  BY <1>6 DEF SessionInv, UpInv, ConnectedWaits
<1>7. CASE \/ DataArrives \/ DataStep \/ StartUpStep \/ ShutDownBegins
           \/ ShutDownStep \/ I2sTaskStep \/ UNCHANGED sessionVars
  BY <1>6, <1>7
     DEF DataArrives, DataStep, StartUpStep, ShutDownBegins, ShutDownStep,
         I2sTaskStep, I2sOnRing, OutputBegins, OutputRefused, OutputEnds,
         WriteBegin, WriteEnd, sessionVars, vars, history
<1> QED BY <1>1, <1>2, <1>3, <1>4, <1>5, <1>7 DEF SessionNext, AppTaskStep

LEMMA CallbackKept ==
  ASSUME SessionInv, [SessionNext]_sessionVars
  PROVE  CallbackInv'
<1>1. CASE LinkStep
  <2>1. UNCHANGED write_pc
    BY <1>1 DEF LinkStep, ringVars
  <2> SUFFICES ASSUME write_pc # "idle", ~stale' PROVE Up(link')
      BY <2>1 DEF CallbackInv, Up
  <2>2. ~stale /\ link' # "disconnected"
    BY <1>1 DEF LinkStep
  <2>3. Up(link)
    BY <2>2 DEF SessionInv, CallbackInv
  <2> QED BY <1>1, <2>2, <2>3
          DEF LinkStep, LinkConnecting, LinkConnected, LinkDisconnecting,
              LinkDisconnected, LinkAudio, Up
<1>2. CASE DataArrives
  BY <1>2 DEF DataArrives, vars, CallbackInv, Up
<1>3. CASE DataStep
  <2>1. UNCHANGED link /\ write_pc # "idle"
    BY <1>3 DEF DataStep, vars, Ring!WriteDropInfo, Ring!WriteDropResume,
                Ring!WriteSend, Ring!WriteOverflow, Ring!WriteTest,
                Ring!WriteInfo, Ring!WriteResume, Ring!WriteGive
  <2>2. write_pc' # "idle" /\ ~stale' => ~stale
    BY <1>3 DEF DataStep
  <2> QED BY <2>1, <2>2 DEF SessionInv, CallbackInv, Up
<1>4. CASE TaskPanics \/ HandlerAborts
  <2>1. write_pc' = "idle"
    BY <1>4 DEF TaskPanics, HandlerAborts, Restarts, Ring!Reset
  <2> QED BY <2>1 DEF CallbackInv
<1>5. ASSUME UNCHANGED <<link, write_pc, stale>> PROVE CallbackInv'
  BY <1>5 DEF SessionInv, CallbackInv, Up
<1>6. CASE HandlerStep
  BY <1>5, <1>6 DEF HandlerStep, Receive, Install, Hide, ReconfDisable,
                    ReconfEnable, Show, Disable, Delete, ringVars, history
<1>7. CASE StartUpBegins \/ StartUpStep
  BY <1>5, <1>7 DEF StartUpBegins, StartUp, Ring!EnterStartUp, StartUpStep,
                    Ring!CreateSemaphore, Ring!CreateRingbuf,
                    Ring!CreateTask, vars, history
<1>8. CASE ShutDownBegins \/ ShutDownTask \/ ShutDownStep
  BY <1>5, <1>8 DEF ShutDownBegins, Ring!ShutDown, ShutDownTask, ShutDown,
                    Ring!DeleteTask, ShutDownStep, Ring!DeleteRingbuf,
                    Ring!DeleteSemaphore, vars, history
<1>9. CASE I2sOnRing
  BY <1>5, <1>9 DEF I2sOnRing, Ring!I2sTake, Ring!I2sReceive,
                    Ring!I2sTimeout, Ring!I2sUnderflow, Ring!I2sReturn, vars,
                    history
<1>10. CASE OutputBegins \/ OutputRefused \/ OutputEnds
  BY <1>5, <1>10 DEF OutputBegins, OutputRefused, OutputEnds, WriteBegin,
                     WriteEnd, Ring!I2sWrite, vars, ringVars, history
<1>11. CASE UNCHANGED sessionVars
  BY <1>5, <1>11 DEF sessionVars, vars, ringVars, history
<1> QED BY <1>1, <1>2, <1>3, <1>4, <1>6, <1>7, <1>8, <1>9, <1>10, <1>11
        DEF SessionNext, AppTaskStep, I2sTaskStep

-----------------------------------------------------------------------------
LEMMA SessionStarts == SessionInit => SessionInv
<1> SUFFICES ASSUME SessionInit PROVE SessionInv
    OBVIOUS
<1>1. /\ Init /\ Ring!Init
      /\ stale = FALSE /\ refused = FALSE /\ unheard = FALSE
  BY DEF SessionInit
<1>2. TypeOK /\ TaskInv /\ OneRing
  BY <1>1, TypeInit, TaskInit DEF Init, OneRing
<1>3. overtaken \in BOOLEAN
  BY <1>1, Zenon DEF Ring!Init
<1>4. RingInv
  BY <1>1, <1>3 DEF Ring!Init, RingInv, Ring!TypeOK, Ring!NoDangling,
                    Ring!Modes, Handshake, Prefetched
<1>5. CallInv /\ UpInv /\ CallbackInv
  BY <1>1 DEF Init, Ring!Init, CallInv, UpInv, CallbackInv, Up
<1> QED BY <1>2, <1>4, <1>5 DEF SessionInv

LEMMA SessionStep ==
  ASSUME SessionInv, [SessionNext]_sessionVars
  PROVE  SessionInv'
<1>1. TypeOK' /\ TaskInv' /\ OneRing'
  BY SinkKept DEF SessionInv
<1>2. RingInv'
  BY RingSteps, RingKept DEF SessionInv
<1> QED BY <1>1, <1>2, CallKept, UpKept, CallbackKept DEF SessionInv

LEMMA SessionInvariant == SessionSpec => []SessionInv
<1>1. SessionInv /\ [SessionNext]_sessionVars => SessionInv'
  BY SessionStep
<1> QED BY <1>1, SessionStarts, PTL DEF SessionSpec

(* Sink, ring and what connects them keep their ranges: a call of          *)
(* i2s_channel_write is one of a task that holds an item, and every task   *)
(* belongs to a session.                                                   *)
THEOREM SessionTypeCorrect == SessionSpec => []SessionTypeOK
<1>1. SessionInv => SessionTypeOK
  <2> SUFFICES ASSUME SessionInv PROVE SessionTypeOK
      OBVIOUS
  <2>1. session \in {"none", "up"}
    BY HandlerFacts DEF SessionInv
  <2> QED BY <2>1 DEF SessionInv, RingInv, CallInv, SessionTypeOK
<1> QED BY <1>1, SessionInvariant, PTL

(* The ring of a connection does what AudioRing says, whose theorems are   *)
(* therefore about the device: no start-up meets what a shut-down has left. *)
THEOREM RingImplemented == SessionSpec => ImplementsRing
<1>1. SessionInit => Ring!Init
  BY DEF SessionInit
<1>2. SessionInv /\ [SessionNext]_sessionVars
        => [Ring!Next \/ Ring!Reset]_ringVars
  BY RingSteps
<1> QED BY <1>1, <1>2, SessionInvariant, PTL DEF SessionSpec, ImplementsRing

(* The data callback panics in three windows only: before the report of    *)
(* the connection has been handled, for want of memory, or when the link   *)
(* has gone down under it.                                                 *)
THEOREM PanicsOnlyInWindows == SessionSpec => []DataFindsRing
<1>1. SessionInv => DataFindsRing
  <2> SUFFICES ASSUME SessionInv, write_pc # "idle", ~stale, ~refused,
                      ~unheard, ~ConnectedWaits, app_pc \notin {"hide", "startUp"},
                      call \notin {"mkSemaphore", "mkRingbuf"}
               PROVE  ringbuf # "NULL" /\ semaphore # "NULL"
      BY DEF DataFindsRing, ConnectedWaits
  <2>1. Up(link)
    BY DEF SessionInv, CallbackInv
  <2>2. /\ app_pc \in {"receive", "reconfDisable", "reconfEnable"}
        /\ session = "up"
    BY <2>1 DEF SessionInv, UpInv
  <2>3. call \in {"idle", "mkTask"}
    BY <2>2 DEF SessionInv, CallInv, RingInv, Ring!TypeOK
  <2> QED BY <2>2, <2>3 DEF SessionInv, CallInv, RingInv
<1> QED BY <1>1, SessionInvariant, PTL

(* An application task that has caught up leaves the device with the       *)
(* session the link calls for, or with nothing of one.                     *)
THEOREM SessionSettles == SessionSpec => []SessionSettled
<1>1. SessionInv => SessionSettled
  <2> SUFFICES ASSUME SessionInv, queue = <<>>, app_pc = "receive",
                      call = "idle"
               PROVE  SessionSettled
      BY DEF SessionSettled
  <2>1. CASE Up(link) /\ ~unheard
    <3>1. ~ConnectedWaits
      BY DEF ConnectedWaits
    <3>2. session = "up"
      BY <2>1, <3>1 DEF SessionInv, UpInv
    <3> QED BY <2>1, <3>2 DEF SessionInv, CallInv, SessionSettled, Up
  <2>2. CASE ~Up(link) /\ "DISCONNECTED" \notin lost
    <3>1. session = "none"
      BY <2>2, HandlerFacts DEF SessionInv
    <3> QED BY <2>2, <3>1 DEF SessionInv, CallInv, SessionSettled, Up
  <2> QED BY <2>1, <2>2 DEF SessionSettled, Up
<1> QED BY <1>1, SessionInvariant, PTL

(* In the device, too, the hand-shake of mode and semaphore holds: with    *)
(* every lag of the handler, every report dropped and every restart.       *)
THEOREM HandshakeInSession ==
  SessionSpec => [](/\ Ring!GiveNeverFails /\ Ring!PrefetchHonoured
                    /\ Ring!PrefetchingMeansWaiting)
<1>1. SessionInv => /\ Ring!GiveNeverFails /\ Ring!PrefetchHonoured
                    /\ Ring!PrefetchingMeansWaiting
  BY DEF SessionInv, RingInv, Handshake, Prefetched, Ring!NoDangling,
         Ring!GiveNeverFails, Ring!PrefetchHonoured,
         Ring!PrefetchingMeansWaiting
<1> QED BY <1>1, SessionInvariant, PTL

(* What A2dpSink shows of the connection stays true when a start-up and a  *)
(* shut-down take several steps, the I2S task plays what is in the ring,   *)
(* and the data callback may panic at any time: the checks of the driver   *)
(* pass, the device settles, and a deleted channel is written to until the *)
(* shut-down only.                                                         *)
THEOREM SinkInSession ==
  SessionSpec => [](ChecksPass /\ Settled /\ AstrayOnlyInShutDown)
<1>1. SessionInit => SinkInv
  BY TypeInit, InitExplained DEF SessionInit, SinkInv
<1>2. SinkInv /\ [SessionNext]_sessionVars => SinkInv'
  <2> SUFFICES ASSUME SinkInv, [SessionNext]_sessionVars PROVE SinkInv'
      OBVIOUS
  <2>1. [Next]_vars \/ Restart
    BY SinkSteps DEF sessionVars
  <2>2. CASE Restart
    <3>1. TypeOK'
      BY <2>2 DEF Restart, TypeOK, Links
    <3> QED BY <2>2, <3>1, RestartExplained DEF SinkInv
  <2> QED BY <2>1, <2>2, SinkStep
<1> QED BY <1>1, <1>2, SinkSafe, PTL DEF SessionSpec

-----------------------------------------------------------------------------
(* The promise of AudioPipe to the listener, in the device.                *)

Listener == INSTANCE AudioPipe
  WITH Capacity <- HIGHEST_WATER, Prefetch <- PREFETCH_WATER,
       Chunk <- ItemSizeUpTo, Packets <- PacketSizes,
       phase <- Ring!PipePhase, level <- items_waiting + item_held,
       early <- overtaken

LEMMA ListenerStep ==
  ASSUME RingInv, [Ring!Next]_ringVars
  PROVE  [Listener!Next \/ Ring!Reset]_(Listener!pipeVars)
<1> USE DEF RingInv, Ring!TypeOK, Ring!NoDangling, Handshake, Prefetched,
            Ring!PipePhase, Listener!pipeVars
<1>1. CASE Ring!WriteEnter
  BY <1>1 DEF Ring!WriteEnter
<1>2. CASE Ring!WriteStep
  <2>1. CASE \E size \in PacketSizes : Ring!WriteSend(size)
    <3> PICK size \in PacketSizes : Ring!WriteSend(size)
        BY <2>1
    <3> size \in Nat
        OBVIOUS
    <3>1. CASE items_waiting + item_held + size <= HIGHEST_WATER
      <4>1. Listener!Accept(size)
        BY <3>1 DEF Ring!WriteSend, Listener!Accept
      <4> QED BY <4>1 DEF Listener!Next
    <3>2. CASE items_waiting + item_held + size > HIGHEST_WATER
      BY <3>2 DEF Ring!WriteSend
    <3> QED BY <3>1, <3>2
  <2>2. CASE \/ Ring!WriteDropInfo \/ Ring!WriteDropResume \/ Ring!WriteOverflow
             \/ Ring!WriteTest \/ Ring!WriteInfo \/ Ring!WriteResume \/ Ring!WriteGive
    <3>1. UNCHANGED <<ringbuf, items_waiting, item_held, task, call,
                      overtaken>>
      BY <2>2 DEF Ring!WriteDropInfo, Ring!WriteDropResume, Ring!WriteOverflow,
                  Ring!WriteTest, Ring!WriteInfo, Ring!WriteResume, Ring!WriteGive
    <3> QED BY <3>1
  <2>3. CASE Ring!WritePanic
    BY <2>3 DEF Ring!WritePanic
  <2> QED BY <1>2, <2>1, <2>2, <2>3 DEF Ring!WriteStep
<1>3. CASE Ring!I2sStep
  <2>1. CASE Ring!I2sTake
    <3>1. Listener!Start
      BY <2>1 DEF Ring!I2sTake, Listener!Start
    <3> QED BY <3>1 DEF Listener!Next
  <2>2. CASE \E n \in 1 .. ItemSizeUpTo : Ring!I2sReceive(n)
    BY <2>2 DEF Ring!I2sReceive
  <2>3. CASE Ring!I2sTimeout
    <3>1. Listener!Starve
      BY <2>3 DEF Ring!I2sTimeout, Listener!Starve
    <3> QED BY <3>1 DEF Listener!Next
  <2>4. CASE Ring!I2sUnderflow
    BY <2>4 DEF Ring!I2sUnderflow
  <2>5. CASE Ring!I2sWrite
    BY <2>5 DEF Ring!I2sWrite
  <2>6. CASE Ring!I2sReturn
    <3>1. Listener!Play(item_held)
      BY <2>6 DEF Ring!I2sReturn, Listener!Play
    <3> QED BY <2>6, <3>1 DEF Ring!I2sReturn, Listener!Next
  <2> QED BY <1>3, <2>1, <2>2, <2>3, <2>4, <2>5, <2>6 DEF Ring!I2sStep
<1>4. CASE Ring!AppStep
  <2>1. CASE Ring!StartUp
    <3>1. Listener!Prepare
      BY <2>1 DEF Ring!StartUp, Ring!EnterStartUp, Listener!Prepare
    <3> QED BY <3>1 DEF Listener!Next
  <2>2. CASE Ring!CreateSemaphore
    BY <2>2 DEF Ring!CreateSemaphore
  <2>3. CASE Ring!CreateRingbuf
    <3>1. CASE ringbuf' = "live"
      <4>1. Listener!Open
        BY <2>3, <3>1 DEF Ring!CreateRingbuf, Listener!Open
      <4> QED BY <4>1 DEF Listener!Next
    <3>2. CASE UNCHANGED ringbuf
      BY <2>3, <3>2 DEF Ring!CreateRingbuf
    <3> QED BY <2>3, <3>1, <3>2 DEF Ring!CreateRingbuf
  <2>4. CASE Ring!CreateTask
    BY <2>4 DEF Ring!CreateTask
  <2>5. CASE Ring!ShutDown
    BY <2>5 DEF Ring!ShutDown
  <2>6. CASE Ring!DeleteTask
    <3>1. CASE ringbuf = "NULL"
      BY <2>6, <3>1 DEF Ring!DeleteTask
    <3>2. CASE ringbuf # "NULL"
      <4>1. Listener!Halt
        BY <2>6, <3>2 DEF Ring!DeleteTask, Listener!Halt
      <4> QED BY <4>1 DEF Listener!Next
    <3> QED BY <3>1, <3>2
  <2>7. CASE Ring!DeleteRingbuf
    <3>1. CASE ringbuf = "NULL"
      BY <2>7, <3>1 DEF Ring!DeleteRingbuf
    <3>2. CASE ringbuf # "NULL"
      <4>1. Listener!Close
        BY <2>7, <3>2 DEF Ring!DeleteRingbuf, Listener!Close
      <4> QED BY <4>1 DEF Listener!Next
    <3> QED BY <3>1, <3>2
  <2>8. CASE Ring!DeleteSemaphore
    BY <2>8 DEF Ring!DeleteSemaphore
  <2> QED BY <1>4, <2>1, <2>2, <2>3, <2>4, <2>5, <2>6, <2>7, <2>8 DEF Ring!AppStep
<1>5. CASE UNCHANGED ringVars
  BY <1>5 DEF ringVars
<1> QED BY <1>1, <1>2, <1>3, <1>4, <1>5 DEF Ring!Next

(* Whatever reports are dropped, however late the handler is and whichever *)
(* sessions a callback straddles: only a restart of the chip takes bytes   *)
(* away in the middle of a session, playback starts on a full prefetch and *)
(* stops on an empty ring.                                                 *)
THEOREM PromiseInSession ==
  SessionSpec =>
    Listener!Init /\ [][Listener!Next \/ Ring!Reset]_(Listener!pipeVars)
<1>1. SessionInit => Listener!Init
  BY DEF SessionInit, Ring!Init, Listener!Init, Ring!PipePhase
<1>2. SessionInv /\ [SessionNext]_sessionVars
        => [Listener!Next \/ Ring!Reset]_(Listener!pipeVars)
  <2> SUFFICES ASSUME SessionInv, [SessionNext]_sessionVars
               PROVE  [Listener!Next \/ Ring!Reset]_(Listener!pipeVars)
      OBVIOUS
  <2>1. [Ring!Next]_ringVars \/ Ring!Reset
    BY RingSteps
  <2> QED BY <2>1, ListenerStep DEF SessionInv
<1> QED BY <1>1, <1>2, SessionInvariant, PTL DEF SessionSpec
=============================================================================
