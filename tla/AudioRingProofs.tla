-------------------------- MODULE AudioRingProofs --------------------------
(***************************************************************************)
(* Proofs about AudioRing for every size of the ring, the mark, the items  *)
(* and the packets.                                                        *)
(***************************************************************************)
EXTENDS AudioRing, TLAPS

(* What the application task has and has not created at each of its steps; *)
(* the I2S task holds an item only between a retrieval and its return.     *)
SessionInv ==
  /\ TypeOK
  /\ NoDangling
  /\ app_pc \in {"mkSemaphore", "mkRingbuf", "mkTask", "rmRingbuf",
                 "rmSemaphore"} => i2s_pc = "none"
  /\ app_pc = "mkSemaphore" => semaphore = "NULL"
  /\ app_pc \in {"mkRingbuf", "mkTask"} => semaphore # "NULL"
  /\ app_pc \in {"mkSemaphore", "mkRingbuf", "rmSemaphore"} => ringbuf = "NULL"
  /\ app_pc = "mkTask" => ringbuf # "NULL" /\ item_held = 0
  /\ ringbuf = "NULL" => items_waiting = 0 /\ item_held = 0
  /\ i2s_pc \in {"take", "receive", "underflow"} => item_held = 0
  /\ i2s_pc \in {"write", "return"} => item_held \in 1 .. ItemSizeUpTo
  /\ semaphore = "NULL" => ringbuf = "NULL"

(* A prefetch that has been measured stays in the ring until the I2S task  *)
(* is released: nothing but that task takes bytes out of a live ring.      *)
Prefetched == ringbuf # "NULL" => items_waiting >= PREFETCH_WATER

(* From the moment the data callback has seen PREFETCHING until the I2S    *)
(* task takes the semaphore, that task waits and nobody else gives. Every  *)
(* start-up that does not overtake a release begins with these facts,      *)
(* whatever the last session has left of them.                             *)
Handshake ==
  /\ ringbuffer_mode = "PREFETCHING" =>
       i2s_pc \in {"none", "take"} /\ semaphore # "full"
  /\ write_pc \in {"info", "resume", "give"} =>
       i2s_pc \in {"none", "take"} /\ semaphore # "full"
  /\ write_pc \in {"resume", "give"} => Prefetched
  /\ write_pc = "give" => ringbuffer_mode # "PREFETCHING"
  /\ semaphore = "full" => i2s_pc \in {"none", "take"} /\ Prefetched
  /\ app_pc \in {"mkSemaphore", "mkRingbuf"} =>
       write_pc \notin {"resume", "give"} /\ semaphore # "full"

HandshakeInv == overtaken \/ Handshake

-----------------------------------------------------------------------------
USE WaterAssumption, PacketAssumption

LEMMA SessionInit == Init => SessionInv
<1>1. Init => overtaken \in BOOLEAN
  BY Zenon DEF Init
<1> QED BY <1>1 DEF Init, SessionInv, TypeOK, NoDangling, Modes

LEMMA SessionStep == SessionInv /\ [Next]_vars => SessionInv'
<1> SUFFICES ASSUME SessionInv, [Next]_vars PROVE SessionInv'
    OBVIOUS
<1> USE DEF SessionInv, TypeOK, NoDangling, Modes
<1>1. CASE WriteEnter
  BY <1>1 DEF WriteEnter
<1>2. CASE WriteStep
  <2>1. CASE WritePanic
    BY <2>1 DEF WritePanic, Reset
  <2>2. CASE WriteDropInfo
    BY <2>2 DEF WriteDropInfo
  <2>3. CASE WriteDropResume
    BY <2>3 DEF WriteDropResume
  <2>4. CASE \E size \in PacketSizes : WriteSend(size)
    <3> PICK size \in PacketSizes : WriteSend(size)
        BY <2>4
    <3> size \in Nat
        OBVIOUS
    <3> QED BY DEF WriteSend
  <2>5. CASE WriteOverflow
    BY <2>5 DEF WriteOverflow
  <2>6. CASE WriteTest
    BY <2>6 DEF WriteTest
  <2>7. CASE WriteInfo
    BY <2>7 DEF WriteInfo
  <2>8. CASE WriteResume
    BY <2>8 DEF WriteResume
  <2>9. CASE WriteGive
    BY <2>9 DEF WriteGive
  <2> QED BY <1>2, <2>1, <2>2, <2>3, <2>4, <2>5, <2>6, <2>7, <2>8, <2>9
          DEF WriteStep
<1>3. CASE I2sStep
  <2>1. CASE I2sTake
    BY <2>1 DEF I2sTake
  <2>2. CASE \E n \in 1 .. ItemSizeUpTo : I2sReceive(n)
    BY <2>2 DEF I2sReceive
  <2>3. CASE I2sTimeout
    BY <2>3 DEF I2sTimeout
  <2>4. CASE I2sUnderflow
    BY <2>4 DEF I2sUnderflow
  <2>5. CASE I2sWrite
    BY <2>5 DEF I2sWrite
  <2>6. CASE I2sReturn
    BY <2>6 DEF I2sReturn
  <2> QED BY <1>3, <2>1, <2>2, <2>3, <2>4, <2>5, <2>6 DEF I2sStep
<1>4. CASE AppStep
  <2>1. CASE StartUp
    BY <2>1 DEF StartUp, EnterStartUp
  <2>2. CASE CreateSemaphore
    BY <2>2 DEF CreateSemaphore
  <2>3. CASE CreateRingbuf
    BY <2>3 DEF CreateRingbuf
  <2>4. CASE CreateTask
    BY <2>4 DEF CreateTask
  <2>5. CASE ShutDown
    BY <2>5 DEF ShutDown
  <2>6. CASE DeleteTask
    BY <2>6 DEF DeleteTask
  <2>7. CASE DeleteRingbuf
    BY <2>7 DEF DeleteRingbuf
  <2>8. CASE DeleteSemaphore
    BY <2>8 DEF DeleteSemaphore
  <2> QED BY <1>4, <2>1, <2>2, <2>3, <2>4, <2>5, <2>6, <2>7, <2>8 DEF AppStep
<1>5. CASE UNCHANGED vars
  BY <1>5 DEF vars
<1> QED BY <1>1, <1>2, <1>3, <1>4, <1>5 DEF Next

(* The three tasks keep the ring, its item and its handles well formed, and *)
(* no byte count leaves the ring's capacity, for every size of the ring.    *)
THEOREM TypeCorrect == Spec => []TypeOK
<1> SessionInv => TypeOK
    BY DEF SessionInv
<1> QED BY SessionInit, SessionStep, PTL DEF Spec

(* The I2S task never runs without its ring and its semaphore, even if a   *)
(* data callback straddles two sessions.                                   *)
THEOREM TaskNeverDangles == Spec => []NoDangling
<1> SessionInv => NoDangling
    BY DEF SessionInv
<1> QED BY SessionInit, SessionStep, PTL DEF Spec

-----------------------------------------------------------------------------
LEMMA HandshakeInit == Init => HandshakeInv
  BY DEF Init, HandshakeInv, Handshake, Prefetched

LEMMA HandshakeStep ==
  ASSUME SessionInv, HandshakeInv, [Next]_vars
  PROVE  HandshakeInv'
<1> USE DEF SessionInv, TypeOK, NoDangling, Modes, HandshakeInv, Handshake,
            Prefetched
<1>1. CASE WriteEnter
  BY <1>1 DEF WriteEnter
<1>2. CASE WriteStep
  <2>1. CASE WritePanic
    BY <2>1 DEF WritePanic, Reset
  <2>2. CASE WriteDropInfo
    BY <2>2 DEF WriteDropInfo
  <2>3. CASE WriteDropResume
    BY <2>3 DEF WriteDropResume
  <2>4. CASE \E size \in PacketSizes : WriteSend(size)
    <3> PICK size \in PacketSizes : WriteSend(size)
        BY <2>4
    <3> size \in Nat
        OBVIOUS
    <3> QED BY DEF WriteSend
  <2>5. CASE WriteOverflow
    BY <2>5 DEF WriteOverflow
  <2>6. CASE WriteTest
    BY <2>6 DEF WriteTest
  <2>7. CASE WriteInfo
    BY <2>7 DEF WriteInfo
  <2>8. CASE WriteResume
    BY <2>8 DEF WriteResume
  <2>9. CASE WriteGive
    BY <2>9 DEF WriteGive
  <2> QED BY <1>2, <2>1, <2>2, <2>3, <2>4, <2>5, <2>6, <2>7, <2>8, <2>9
          DEF WriteStep
<1>3. CASE I2sStep
  <2>1. CASE I2sTake
    BY <2>1 DEF I2sTake
  <2>2. CASE \E n \in 1 .. ItemSizeUpTo : I2sReceive(n)
    BY <2>2 DEF I2sReceive
  <2>3. CASE I2sTimeout
    BY <2>3 DEF I2sTimeout
  <2>4. CASE I2sUnderflow
    BY <2>4 DEF I2sUnderflow
  <2>5. CASE I2sWrite
    BY <2>5 DEF I2sWrite
  <2>6. CASE I2sReturn
    BY <2>6 DEF I2sReturn
  <2> QED BY <1>3, <2>1, <2>2, <2>3, <2>4, <2>5, <2>6 DEF I2sStep
<1>4. CASE AppStep
  <2>1. CASE StartUp
    BY <2>1 DEF StartUp, EnterStartUp
  <2>2. CASE CreateSemaphore
    BY <2>2 DEF CreateSemaphore
  <2>3. CASE CreateRingbuf
    BY <2>3 DEF CreateRingbuf
  <2>4. CASE CreateTask
    BY <2>4 DEF CreateTask
  <2>5. CASE ShutDown
    BY <2>5 DEF ShutDown
  <2>6. CASE DeleteTask
    BY <2>6 DEF DeleteTask
  <2>7. CASE DeleteRingbuf
    BY <2>7 DEF DeleteRingbuf
  <2>8. CASE DeleteSemaphore
    BY <2>8 DEF DeleteSemaphore
  <2> QED BY <1>4, <2>1, <2>2, <2>3, <2>4, <2>5, <2>6, <2>7, <2>8 DEF AppStep
<1>5. CASE UNCHANGED vars
  BY <1>5 DEF vars
<1> QED BY <1>1, <1>2, <1>3, <1>4, <1>5 DEF Next

RingInv == SessionInv /\ HandshakeInv

LEMMA RingInvariant == Spec => []RingInv
<1>1. Init => RingInv
  BY SessionInit, HandshakeInit DEF RingInv
<1>2. RingInv /\ [Next]_vars => RingInv'
  BY SessionStep, HandshakeStep DEF RingInv
<1> QED BY <1>1, <1>2, PTL DEF Spec

(* The give in write_ringbuf finds the semaphore empty, so "semaphore give *)
(* failed" is never logged, whatever the three tasks do in between.        *)
THEOREM GiveSucceeds == Spec => []GiveNeverFails
<1> RingInv => GiveNeverFails
    BY DEF RingInv, HandshakeInv, Handshake, GiveNeverFails
<1> QED BY RingInvariant, PTL

(* The I2S task is released only on a ring that holds the prefetch.        *)
THEOREM ReleasedOnPrefetch == Spec => []PrefetchHonoured
<1> RingInv => PrefetchHonoured
    BY DEF RingInv, SessionInv, NoDangling, HandshakeInv, Handshake,
           Prefetched, PrefetchHonoured
<1> QED BY RingInvariant, PTL

(* In PREFETCHING mode the I2S task waits.                                 *)
THEOREM PrefetchingWaits ==
  Spec => []PrefetchingMeansWaiting
<1> RingInv => PrefetchingMeansWaiting
    BY DEF RingInv, HandshakeInv, Handshake, PrefetchingMeansWaiting
<1> QED BY RingInvariant, PTL

(* Nothing stalls a session but write_ringbuf, when it writes over an      *)
(* unanswered PREFETCHING that it has found the ring full or drained.      *)
THEOREM StallsHaveOneCause == Spec => StallsOnlyByLostMode
<1>1. ASSUME SessionInv, Next, ~Stalled, Stalled'
      PROVE  ringbuffer_mode = "PREFETCHING" /\ (WriteOverflow \/ WriteDropResume)
  <2> USE DEF Stalled
  <2>1. CASE WriteEnter
    BY <1>1, <2>1 DEF WriteEnter
  <2>2. CASE WriteStep
    <3>1. WriteResume \/ WriteGive => ~Stalled'
      BY DEF WriteResume, WriteGive
    <3>2. WritePanic => ~Stalled'
      BY DEF WritePanic, Reset
    <3>3. WriteDropInfo \/ WriteTest \/ WriteInfo =>
            UNCHANGED <<ringbuffer_mode, semaphore, i2s_pc, app_pc>>
              /\ write_pc # "give"
      BY DEF WriteDropInfo, WriteTest, WriteInfo
    <3>4. (\E size \in PacketSizes : WriteSend(size)) =>
            UNCHANGED <<ringbuffer_mode, semaphore, i2s_pc, app_pc>>
              /\ write_pc # "give"
      BY DEF WriteSend
    <3>5. CASE WriteOverflow \/ WriteDropResume
      BY <1>1, <3>5 DEF WriteOverflow, WriteDropResume
    <3> QED BY <1>1, <2>2, <3>1, <3>2, <3>3, <3>4, <3>5 DEF WriteStep
  <2>3. CASE I2sStep
    <3>1. UNCHANGED <<write_pc, app_pc>> /\ i2s_pc # "none"
      BY <2>3 DEF I2sStep, I2sTake, I2sReceive, I2sTimeout, I2sUnderflow,
                  I2sWrite, I2sReturn
    <3>2. app_pc \notin {"mkSemaphore", "mkRingbuf", "mkTask"}
      BY <1>1, <2>3, <3>1 DEF SessionInv
    <3>3. i2s_pc' # "take" \/ I2sUnderflow
      BY <2>3 DEF I2sStep, I2sTake, I2sReceive, I2sTimeout, I2sWrite, I2sReturn
    <3>4. I2sUnderflow => ~Stalled'
      BY DEF I2sUnderflow
    <3> QED BY <1>1, <3>1, <3>2, <3>3, <3>4
  <2>4. CASE AppStep
    <3>1. StartUp => ~Stalled'
      BY DEF StartUp, EnterStartUp
    <3>2. DeleteTask \/ DeleteRingbuf \/ DeleteSemaphore => ~Stalled'
      BY <1>1 DEF SessionInv, DeleteTask, DeleteRingbuf, DeleteSemaphore
    <3>3. CASE CreateSemaphore
      BY <1>1, <3>3 DEF SessionInv, CreateSemaphore
    <3>4. CASE CreateRingbuf \/ CreateTask \/ ShutDown
      BY <1>1, <3>4 DEF CreateRingbuf, CreateTask, ShutDown
    <3> QED BY <1>1, <2>4, <3>1, <3>2, <3>3, <3>4 DEF AppStep
  <2> QED BY <1>1, <2>1, <2>2, <2>3, <2>4 DEF Next
<1>2. SessionInv /\ [Next]_vars =>
        [~Stalled /\ Stalled' =>
           ringbuffer_mode = "PREFETCHING"
             /\ (WriteOverflow \/ WriteDropResume)]_vars
  BY <1>1 DEF vars
<1>3. Spec => []SessionInv
  BY SessionInit, SessionStep, PTL DEF Spec
<1> QED BY <1>2, <1>3, PTL DEF Spec, StallsOnlyByLostMode

-----------------------------------------------------------------------------
(* Refinement.  A step of the ring is a step of the pipe or leaves both    *)
(* the phase and the level unchanged.                                      *)
LEMMA PipeInit == Init => Pipe!Init
  BY DEF Init, Pipe!Init, PipePhase

LEMMA PipeStep ==
  ASSUME RingInv, [Next]_vars
  PROVE  [Pipe!Next]_(Pipe!pipeVars)
<1> USE DEF RingInv, SessionInv, TypeOK, NoDangling, HandshakeInv, Handshake,
            Prefetched, PipePhase, Pipe!pipeVars
<1>1. CASE WriteEnter
  BY <1>1 DEF WriteEnter
<1>2. CASE WriteStep
  <2>1. CASE \E size \in PacketSizes : WriteSend(size)
    <3> PICK size \in PacketSizes : WriteSend(size)
        BY <2>1
    <3> size \in Nat
        OBVIOUS
    <3>1. CASE items_waiting + item_held + size <= HIGHEST_WATER
      <4>1. Pipe!Accept(size)
        BY <3>1 DEF WriteSend, Pipe!Accept
      <4> QED BY <4>1 DEF Pipe!Next
    <3>2. CASE items_waiting + item_held + size > HIGHEST_WATER
      BY <3>2 DEF WriteSend
    <3> QED BY <3>1, <3>2
  <2>2. CASE \/ WriteDropInfo \/ WriteDropResume \/ WriteOverflow
             \/ WriteTest \/ WriteInfo \/ WriteResume \/ WriteGive
    <3>1. UNCHANGED <<ringbuf, items_waiting, item_held, i2s_pc, app_pc,
                      overtaken>>
      BY <2>2 DEF WriteDropInfo, WriteDropResume, WriteOverflow,
                  WriteTest, WriteInfo, WriteResume, WriteGive
    <3> QED BY <3>1
  <2>3. CASE WritePanic
    <3>1. Pipe!Prepare
      BY <2>3 DEF WritePanic, Reset, Pipe!Prepare
    <3> QED BY <3>1 DEF Pipe!Next
  <2> QED BY <1>2, <2>1, <2>2, <2>3 DEF WriteStep
<1>3. CASE I2sStep
  <2>1. CASE I2sTake
    <3>1. Pipe!Start
      BY <2>1 DEF I2sTake, Pipe!Start
    <3> QED BY <3>1 DEF Pipe!Next
  <2>2. CASE \E n \in 1 .. ItemSizeUpTo : I2sReceive(n)
    BY <2>2 DEF I2sReceive
  <2>3. CASE I2sTimeout
    <3>1. Pipe!Starve
      BY <2>3 DEF I2sTimeout, Pipe!Starve
    <3> QED BY <3>1 DEF Pipe!Next
  <2>4. CASE I2sUnderflow
    BY <2>4 DEF I2sUnderflow
  <2>5. CASE I2sWrite
    BY <2>5 DEF I2sWrite
  <2>6. CASE I2sReturn
    <3>1. Pipe!Play(item_held)
      BY <2>6 DEF I2sReturn, Pipe!Play
    <3> QED BY <2>6, <3>1 DEF I2sReturn, Pipe!Next
  <2> QED BY <1>3, <2>1, <2>2, <2>3, <2>4, <2>5, <2>6 DEF I2sStep
<1>4. CASE AppStep
  <2>1. CASE StartUp
    <3>1. Pipe!Prepare
      BY <2>1 DEF StartUp, EnterStartUp, Pipe!Prepare
    <3> QED BY <3>1 DEF Pipe!Next
  <2>2. CASE CreateSemaphore
    BY <2>2 DEF CreateSemaphore
  <2>3. CASE CreateRingbuf
    <3>1. CASE ringbuf' = "live"
      <4>1. Pipe!Open
        BY <2>3, <3>1 DEF CreateRingbuf, Pipe!Open
      <4> QED BY <4>1 DEF Pipe!Next
    <3>2. CASE UNCHANGED ringbuf
      BY <2>3, <3>2 DEF CreateRingbuf
    <3> QED BY <2>3, <3>1, <3>2 DEF CreateRingbuf
  <2>4. CASE CreateTask
    BY <2>4 DEF CreateTask
  <2>5. CASE ShutDown
    BY <2>5 DEF ShutDown
  <2>6. CASE DeleteTask
    <3>1. CASE ringbuf = "NULL"
      BY <2>6, <3>1 DEF DeleteTask
    <3>2. CASE ringbuf # "NULL"
      <4>1. Pipe!Halt
        BY <2>6, <3>2 DEF DeleteTask, Pipe!Halt
      <4> QED BY <4>1 DEF Pipe!Next
    <3> QED BY <3>1, <3>2
  <2>7. CASE DeleteRingbuf
    <3>1. CASE ringbuf = "NULL"
      BY <2>7, <3>1 DEF DeleteRingbuf
    <3>2. CASE ringbuf # "NULL"
      <4>1. Pipe!Close
        BY <2>7, <3>2 DEF DeleteRingbuf, Pipe!Close
      <4> QED BY <4>1 DEF Pipe!Next
    <3> QED BY <3>1, <3>2
  <2>8. CASE DeleteSemaphore
    BY <2>8 DEF DeleteSemaphore
  <2> QED BY <1>4, <2>1, <2>2, <2>3, <2>4, <2>5, <2>6, <2>7, <2>8 DEF AppStep
<1>5. CASE UNCHANGED vars
  BY <1>5 DEF vars
<1> QED BY <1>1, <1>2, <1>3, <1>4, <1>5 DEF Next

(* Ring buffer, modes and semaphore implement the pipe: every playback     *)
(* begins on a full prefetch, every gap on an empty ring, and every byte   *)
(* accepted is played or given up when the session closes.                 *)
THEOREM RingImplementsPipe == Spec => ImplementsPipe
<1>1. RingInv /\ [Next]_vars => [Pipe!Next]_(Pipe!pipeVars)
  BY PipeStep
<1> QED BY <1>1, PipeInit, RingInvariant, PTL
        DEF Spec, ImplementsPipe, Pipe!Spec

=============================================================================
