-------------------------- MODULE WorkQueueProofs --------------------------
(***************************************************************************)
(* Proofs about WorkQueue for every length of the two queues and every     *)
(* number of events.                                                       *)
(***************************************************************************)
EXTENDS WorkQueue, TLAPS

(* Events are numbered as they are dispatched, and no block belongs to an  *)
(* event that has not been dispatched yet.                                 *)
Numbering ==
  /\ dispatch_msg.id = events
  /\ \A i \in 1 .. Len(queue) : queue[i].id <= events
  /\ app_msg.id <= events
  /\ \A b \in heap : b.of <= events
  /\ dispatch_pc = "text" => dispatch_msg.kind = "meta"
  /\ dispatch_pc = "param" => dispatch_msg.kind # "bare"

(* Messages are handled in the order of the events and no two holders have *)
(* the same message, so that no block is freed twice.                      *)
InOrder ==
  /\ \A i, j \in 1 .. Len(queue) : i < j => queue[i].id < queue[j].id
  /\ \A i \in 1 .. Len(queue) :
       /\ app_pc # "receive" => app_msg.id < queue[i].id
       /\ dispatch_pc \in {"text", "param", "send"} =>
            queue[i].id < dispatch_msg.id
  /\ app_pc # "receive" /\ dispatch_pc \in {"text", "param", "send"} =>
       app_msg.id < dispatch_msg.id

QueueInv == TypeOK /\ Numbering /\ InOrder /\ OwnedIsLive /\ LeaksOnlyRefused

USE LengthAssumption

LEMMA StackUpIsMsg == StackUp \in Msg
  BY DEF StackUp, Msg, Kinds

-----------------------------------------------------------------------------
LEMMA TypeInit == Init => TypeOK
  BY StackUpIsMsg DEF Init, TypeOK

LEMMA TypeStep == TypeOK /\ [Next]_vars => TypeOK'
<1> SUFFICES ASSUME TypeOK, [Next]_vars PROVE TypeOK'
    OBVIOUS
<1> USE StackUpIsMsg DEF TypeOK, appVars
<1>1. CASE StackPost
  BY <1>1 DEF StackPost
<1>2. CASE BtcStep
  <2>1. CASE BtcOther
    BY <2>1 DEF BtcOther
  <2>2. CASE \E kind \in {"event", "meta"} : Callback(kind)
    <3> PICK kind \in {"event", "meta"} : Callback(kind)
        BY <2>2
    <3>1. [id |-> events + 1, kind |-> kind] \in Msg
      BY DEF Msg, Kinds
    <3> QED BY <3>1 DEF Callback
  <2>3. CASE AllocMetaBuffer
    <3>1. Text(dispatch_msg) \in [of : Nat \ {0}, part : {"param", "text"}]
      BY DEF Text, Msg
    <3> QED BY <2>3, <3>1 DEF AllocMetaBuffer
  <2>4. CASE AllocMetaBufferPanic
    BY <2>4 DEF AllocMetaBufferPanic
  <2>5. CASE WorkDispatch
    <3>1. Param(dispatch_msg) \in [of : Nat \ {0}, part : {"param", "text"}]
      BY DEF Param, Msg
    <3>2. dispatch_msg.id \in Nat \ {0}
      BY DEF Msg
    <3> QED BY <2>5, <3>1, <3>2 DEF WorkDispatch
  <2>6. CASE SendMsg
    BY <2>6 DEF SendMsg
  <2>7. CASE SendMsgTimeout
    <3>1. dispatch_msg.id \in Nat \ {0}
      BY DEF Msg
    <3> QED BY <2>7, <3>1 DEF SendMsgTimeout
  <2> QED BY <1>2, <2>1, <2>2, <2>3, <2>4, <2>5, <2>6, <2>7 DEF BtcStep
<1>3. CASE AppStep
  <2>1. CASE Receive
    BY <2>1 DEF Receive
  <2>2. CASE WorkDispatched
    BY <2>2 DEF WorkDispatched
  <2>3. CASE StackCall
    BY <2>3 DEF StackCall
  <2>4. CASE FreeParam
    BY <2>4 DEF FreeParam
  <2> QED BY <1>3, <2>1, <2>2, <2>3, <2>4 DEF AppStep
<1>4. CASE UNCHANGED vars
  BY <1>4 DEF vars
<1> QED BY <1>1, <1>2, <1>3, <1>4 DEF Next

-----------------------------------------------------------------------------
(* The blocks of messages and of sequences of messages.                    *)
LEMMA BlocksFacts ==
  ASSUME NEW m \in Msg
  PROVE  /\ Blocks(m) \subseteq {Param(m), Text(m)}
         /\ Param(m).of = m.id
         /\ Text(m).of = m.id
         /\ Param(m) # Text(m)
         /\ m.kind = "bare" => Blocks(m) = {}
         /\ m.kind = "event" => Blocks(m) = {Param(m)}
         /\ m.kind = "meta" => Blocks(m) = {Param(m), Text(m)}
<1>1. m.kind \in Kinds
  BY DEF Msg
<1> QED BY <1>1 DEF Blocks, Param, Text, Kinds

LEMMA QueueOwnsAppend ==
  ASSUME NEW q \in Seq(Msg), NEW m \in Msg
  PROVE  QueueOwns(Append(q, m)) = QueueOwns(q) \cup Blocks(m)
<1>1. Len(Append(q, m)) = Len(q) + 1
  OBVIOUS
<1>2. \A i \in 1 .. Len(q) : Append(q, m)[i] = q[i]
  OBVIOUS
<1>3. Append(q, m)[Len(q) + 1] = m
  OBVIOUS
<1>4. 1 .. Len(q) + 1 = 1 .. Len(q) \cup {Len(q) + 1}
  OBVIOUS
<1> QED BY <1>1, <1>2, <1>3, <1>4 DEF QueueOwns

LEMMA QueueOwnsTail ==
  ASSUME NEW q \in Seq(Msg), q # <<>>
  PROVE  QueueOwns(q) = Blocks(Head(q)) \cup QueueOwns(Tail(q))
<1>1. Len(Tail(q)) = Len(q) - 1 /\ Len(q) \in Nat \ {0} /\ Head(q) = q[1]
  OBVIOUS
<1>2. \A i \in 1 .. Len(q) - 1 : Tail(q)[i] = q[i + 1]
  OBVIOUS
<1>3. ASSUME NEW b \in QueueOwns(q)
      PROVE  b \in Blocks(Head(q)) \cup QueueOwns(Tail(q))
  <2>1. PICK i \in 1 .. Len(q) : b \in Blocks(q[i])
    BY DEF QueueOwns
  <2>2. CASE i = 1
    BY <1>1, <2>1, <2>2
  <2>3. CASE i # 1
    <3>1. i - 1 \in 1 .. Len(q) - 1 /\ q[(i - 1) + 1] = q[i]
      BY <1>1, <2>3
    <3>2. b \in Blocks(Tail(q)[i - 1])
      BY <1>2, <2>1, <3>1
    <3> QED BY <1>1, <3>1, <3>2 DEF QueueOwns
  <2> QED BY <2>2, <2>3
<1>4. ASSUME NEW b \in QueueOwns(Tail(q))
      PROVE  b \in QueueOwns(q)
  <2>1. PICK i \in 1 .. Len(q) - 1 : b \in Blocks(Tail(q)[i])
    BY <1>1 DEF QueueOwns
  <2>2. i + 1 \in 1 .. Len(q) /\ b \in Blocks(q[i + 1])
    BY <1>1, <1>2, <2>1
  <2> QED BY <2>2 DEF QueueOwns
<1>5. Blocks(Head(q)) \subseteq QueueOwns(q)
  BY <1>1 DEF QueueOwns
<1> QED BY <1>3, <1>4, <1>5

(* A block of a queued message bears the number of one of them.            *)
LEMMA QueueOwnsOf ==
  ASSUME NEW q \in Seq(Msg), NEW b \in QueueOwns(q)
  PROVE  \E i \in 1 .. Len(q) : b.of = q[i].id
<1>1. PICK i \in 1 .. Len(q) : b \in Blocks(q[i])
  BY DEF QueueOwns
<1>2. q[i] \in Msg
  OBVIOUS
<1> QED BY <1>1, <1>2, BlocksFacts

LEMMA QueueElements ==
  ASSUME TypeOK
  PROVE  \A i \in 1 .. Len(queue) : queue[i] \in Msg /\ queue[i].id \in Nat
<1>1. ASSUME NEW i \in 1 .. Len(queue) PROVE queue[i] \in Msg
  BY <1>1 DEF TypeOK
<1> QED BY <1>1 DEF Msg

-----------------------------------------------------------------------------
LEMMA OrderInit == Init => Numbering /\ InOrder
  BY DEF Init, Numbering, InOrder, StackUp

LEMMA OrderStep ==
  ASSUME TypeOK, Numbering, InOrder, [Next]_vars
  PROVE  Numbering' /\ InOrder'
<1> USE DEF TypeOK, Numbering, InOrder, appVars, Msg
<1>1. CASE StackPost
  BY <1>1 DEF StackPost
<1>2. CASE BtcStep
  <2>1. CASE BtcOther
    BY <2>1 DEF BtcOther
  <2>2. CASE \E kind \in {"event", "meta"} : Callback(kind)
    <3> PICK kind \in {"event", "meta"} : Callback(kind)
        BY <2>2
    <3>1. dispatch_msg'.id = events + 1 /\ dispatch_msg'.kind = kind
      BY DEF Callback
    <3>2. \A i \in 1 .. Len(queue) : queue[i].id \in Nat /\ queue[i].id <= events
      BY QueueElements
    <3>3. app_msg.id \in Nat /\ app_msg.id <= events
      OBVIOUS
    <3>4. \A b \in heap : b.of \in Nat /\ b.of <= events
      OBVIOUS
    <3>5. Numbering'
      BY <3>1, <3>2, <3>3, <3>4 DEF Callback
    <3>6. InOrder'
      BY <3>1, <3>2, <3>3 DEF Callback
    <3> QED BY <3>5, <3>6
  <2>3. CASE AllocMetaBuffer
    BY <2>3 DEF AllocMetaBuffer, Text
  <2>4. CASE AllocMetaBufferPanic
    BY <2>4 DEF AllocMetaBufferPanic, StackUp
  <2>5. CASE WorkDispatch
    BY <2>5 DEF WorkDispatch, Param
  <2>6. CASE SendMsg
    BY <2>6 DEF SendMsg
  <2>7. CASE SendMsgTimeout
    BY <2>7 DEF SendMsgTimeout
  <2> QED BY <1>2, <2>1, <2>2, <2>3, <2>4, <2>5, <2>6, <2>7 DEF BtcStep
<1>3. CASE AppStep
  <2>1. CASE Receive
    <3>1. /\ Len(queue') = Len(queue) - 1
          /\ Len(queue) \in Nat \ {0}
          /\ app_msg' = queue[1]
      BY <2>1 DEF Receive
    <3>2. \A i \in 1 .. Len(queue') : queue'[i] = queue[i + 1]
      BY <2>1, <3>1 DEF Receive
    <3>3. InOrder'
      BY <2>1, <3>1, <3>2 DEF Receive
    <3> QED BY <2>1, <3>1, <3>2, <3>3 DEF Receive
  <2>2. CASE WorkDispatched
    BY <2>2 DEF WorkDispatched
  <2>3. CASE StackCall
    BY <2>3 DEF StackCall
  <2>4. CASE FreeParam
    BY <2>4 DEF FreeParam
  <2> QED BY <1>3, <2>1, <2>2, <2>3, <2>4 DEF AppStep
<1>4. CASE UNCHANGED vars
  BY <1>4 DEF vars
<1> QED BY <1>1, <1>2, <1>3, <1>4 DEF Next

-----------------------------------------------------------------------------
(* Ownership.  OwnInv says where the blocks are; the numbering makes the   *)
(* blocks of different holders different.                                  *)
OwnInv == OwnedIsLive /\ LeaksOnlyRefused

LEMMA OwnInit == Init => OwnInv
  BY DEF Init, OwnInv, OwnedIsLive, LeaksOnlyRefused, Owned, QueueOwns, AppOwns,
         DispatchOwns, Blocks, StackUp

(* A step that changes neither the holders nor the heap.                   *)
LEMMA OwnUnchanged ==
  ASSUME OwnInv, Owned' = Owned, heap' = heap, refused \subseteq refused'
  PROVE  OwnInv'
  BY DEF OwnInv, OwnedIsLive, LeaksOnlyRefused

LEMMA OwnBtcStep ==
  ASSUME TypeOK, Numbering, InOrder, OwnInv, BtcStep
  PROVE  OwnInv'
<1> USE DEF TypeOK, appVars
<1> DEFINE d == dispatch_msg
<1>1. CASE BtcOther
  <2>1. Owned' = Owned
    BY <1>1 DEF BtcOther, Owned, QueueOwns, AppOwns, DispatchOwns
  <2> QED BY <1>1, <2>1, OwnUnchanged DEF BtcOther
<1>2. CASE \E kind \in {"event", "meta"} : Callback(kind)
  <2> PICK kind \in {"event", "meta"} : Callback(kind)
      BY <1>2
  <2>1. d' \in Msg /\ d'.kind = kind
    BY DEF Callback, Msg, Kinds
  <2>2. DispatchOwns' = {} /\ DispatchOwns = {}
    BY <2>1, BlocksFacts DEF Callback, DispatchOwns
  <2>3. AppOwns' = AppOwns /\ QueueOwns(queue)' = QueueOwns(queue)
    BY DEF Callback, AppOwns
  <2> QED BY <2>2, <2>3, OwnUnchanged DEF Callback, Owned
<1>3. CASE AllocMetaBuffer
  <2>1. d.kind = "meta" /\ d' = d
    BY <1>3 DEF AllocMetaBuffer, Numbering
  <2>2. DispatchOwns' = {Text(d)} /\ DispatchOwns = {}
    BY <1>3, <2>1, BlocksFacts DEF AllocMetaBuffer, DispatchOwns
  <2>3. AppOwns' = AppOwns /\ QueueOwns(queue)' = QueueOwns(queue)
    BY <1>3 DEF AllocMetaBuffer, AppOwns
  <2> QED BY <1>3, <2>2, <2>3
          DEF AllocMetaBuffer, Owned, OwnInv, OwnedIsLive, LeaksOnlyRefused
<1>4. CASE AllocMetaBufferPanic
  BY <1>4 DEF AllocMetaBufferPanic, OwnInv, OwnedIsLive, LeaksOnlyRefused,
              Owned, QueueOwns, AppOwns, DispatchOwns, Blocks, StackUp
<1>5. CASE WorkDispatch
  <2>1. AppOwns' = AppOwns /\ QueueOwns(queue)' = QueueOwns(queue) /\ d' = d
    BY <1>5 DEF WorkDispatch, AppOwns
  <2>2. d.kind # "bare" /\ d.kind \in Kinds
    BY <1>5 DEF WorkDispatch, Numbering, Msg
  <2>3. DispatchOwns = Blocks(d) \ {Param(d)} /\ Param(d) \in Blocks(d)
    BY <1>5, <2>2, BlocksFacts DEF WorkDispatch, DispatchOwns, Kinds
  <2>4. CASE dispatch_pc' = "send"
    <3>1. heap' = heap \cup {Param(d)} /\ refused' = refused
      BY <1>5, <2>4 DEF WorkDispatch
    <3>2. DispatchOwns' = DispatchOwns \cup {Param(d)}
      BY <2>1, <2>3, <2>4 DEF DispatchOwns
    <3> QED BY <2>1, <3>1, <3>2
            DEF Owned, OwnInv, OwnedIsLive, LeaksOnlyRefused
  <2>5. CASE dispatch_pc' = "idle"
    <3>1. heap' = heap /\ refused' = refused \cup {d.id}
      BY <1>5, <2>5 DEF WorkDispatch
    <3>2. DispatchOwns' = {} /\ \A b \in DispatchOwns : b.of = d.id
      BY <2>3, <2>5, BlocksFacts DEF DispatchOwns
    <3> QED BY <2>1, <3>1, <3>2
            DEF Owned, OwnInv, OwnedIsLive, LeaksOnlyRefused
  <2> QED BY <1>5, <2>4, <2>5 DEF WorkDispatch
<1>6. CASE SendMsg
  <2>1. QueueOwns(queue') = QueueOwns(queue) \cup Blocks(d)
    BY <1>6, QueueOwnsAppend DEF SendMsg
  <2>2. DispatchOwns = Blocks(d) /\ DispatchOwns' = {} /\ AppOwns' = AppOwns
    BY <1>6 DEF SendMsg, DispatchOwns, AppOwns
  <2>3. Owned' = Owned
    BY <2>1, <2>2 DEF Owned
  <2> QED BY <1>6, <2>3, OwnUnchanged DEF SendMsg
<1>7. CASE SendMsgTimeout
  <2>1. AppOwns' = AppOwns /\ QueueOwns(queue)' = QueueOwns(queue)
    BY <1>7 DEF SendMsgTimeout, AppOwns
  <2>2. heap' = heap /\ refused' = refused \cup {d.id}
    BY <1>7 DEF SendMsgTimeout
  <2>3. DispatchOwns = Blocks(d) /\ DispatchOwns' = {}
    BY <1>7 DEF SendMsgTimeout, DispatchOwns
  <2>4. \A b \in DispatchOwns : b.of = d.id
    BY <2>3, BlocksFacts
  <2> QED BY <2>1, <2>2, <2>3, <2>4
          DEF Owned, OwnInv, OwnedIsLive, LeaksOnlyRefused
<1> QED BY <1>1, <1>2, <1>3, <1>4, <1>5, <1>6, <1>7 DEF BtcStep

(* No other holder has a block of the message that is being handled.       *)
LEMMA AppBlocksApart ==
  ASSUME TypeOK, Numbering, InOrder, app_pc # "receive",
         NEW b \in QueueOwns(queue) \cup DispatchOwns
  PROVE  b # Text(app_msg) /\ b # Param(app_msg)
<1> USE DEF TypeOK
<1>1. CASE b \in QueueOwns(queue)
  <2>1. PICK i \in 1 .. Len(queue) : b.of = queue[i].id
    BY <1>1, QueueOwnsOf
  <2>2. queue[i] \in Msg
    OBVIOUS
  <2>3. app_msg.id < queue[i].id /\ queue[i].id \in Nat /\ app_msg.id \in Nat
    BY <2>2 DEF InOrder, Msg
  <2> QED BY <2>1, <2>3, BlocksFacts
<1>2. CASE b \in DispatchOwns
  <2>1. dispatch_pc \in {"param", "send"} /\ b \in Blocks(dispatch_msg)
    BY <1>2 DEF DispatchOwns
  <2>2. /\ app_msg.id < dispatch_msg.id
        /\ app_msg.id \in Nat /\ dispatch_msg.id \in Nat
    BY <2>1 DEF InOrder, Msg
  <2> QED BY <2>1, <2>2, BlocksFacts
<1> QED BY <1>1, <1>2

LEMMA OwnAppStep ==
  ASSUME TypeOK, Numbering, InOrder, OwnInv, AppStep
  PROVE  OwnInv'
<1> USE DEF TypeOK
<1> DEFINE a == app_msg
<1>1. CASE Receive
  <2>1. QueueOwns(queue) = Blocks(Head(queue)) \cup QueueOwns(queue')
    BY <1>1, QueueOwnsTail DEF Receive
  <2>2. AppOwns = {} /\ AppOwns' = Blocks(Head(queue))
    BY <1>1 DEF Receive, AppOwns
  <2>3. DispatchOwns' = DispatchOwns
    BY <1>1 DEF Receive, DispatchOwns
  <2>4. Owned' = Owned
    BY <2>1, <2>2, <2>3 DEF Owned
  <2> QED BY <1>1, <2>4, OwnUnchanged DEF Receive
<1>2. CASE WorkDispatched
  <2>1. DispatchOwns' = DispatchOwns /\ QueueOwns(queue)' = QueueOwns(queue)
    BY <1>2 DEF WorkDispatched, DispatchOwns
  <2>2. app_pc = "handle" /\ app_pc' \in {"call", "free"} /\ a' = a
        /\ refused' = refused
    BY <1>2 DEF WorkDispatched
  <2>3. AppOwns = Blocks(a) /\ AppOwns' = Blocks(a) \ {Text(a)}
    BY <2>2 DEF AppOwns
  <2>4. a.kind \in Kinds
    BY DEF Msg
  <2>5. CASE a.kind = "meta"
    <3>1. heap' = heap \ {Text(a)}
      BY <1>2, <2>5 DEF WorkDispatched
    <3> QED BY <2>1, <2>2, <2>3, <3>1, AppBlocksApart
            DEF Owned, OwnInv, OwnedIsLive, LeaksOnlyRefused
  <2>6. CASE a.kind # "meta"
    <3>1. heap' = heap
      BY <1>2, <2>6 DEF WorkDispatched
    <3>2. AppOwns' = AppOwns
      BY <2>3, <2>4, <2>6, BlocksFacts DEF Kinds
    <3> QED BY <2>1, <2>2, <3>1, <3>2, OwnUnchanged DEF Owned
  <2> QED BY <2>5, <2>6
<1>3. CASE StackCall
  <2>1. Owned' = Owned
    BY <1>3 DEF StackCall, Owned, AppOwns, DispatchOwns
  <2> QED BY <1>3, <2>1, OwnUnchanged DEF StackCall
<1>4. CASE FreeParam
  <2>1. DispatchOwns' = DispatchOwns /\ QueueOwns(queue)' = QueueOwns(queue)
    BY <1>4 DEF FreeParam, DispatchOwns
  <2>2. AppOwns = Blocks(a) \ {Text(a)} /\ AppOwns' = {} /\ app_pc = "free"
        /\ refused' = refused
    BY <1>4 DEF FreeParam, AppOwns
  <2>3. a.kind \in Kinds
    BY DEF Msg
  <2>4. CASE a.kind = "bare"
    <3>1. heap' = heap /\ AppOwns = {}
      BY <1>4, <2>2, <2>4, BlocksFacts DEF FreeParam
    <3> QED BY <2>1, <2>2, <3>1, OwnUnchanged DEF Owned
  <2>5. CASE a.kind # "bare"
    <3>1. heap' = heap \ {Param(a)} /\ AppOwns = {Param(a)}
      BY <1>4, <2>2, <2>3, <2>5, BlocksFacts DEF FreeParam, Kinds
    <3> QED BY <2>1, <2>2, <3>1, AppBlocksApart
            DEF Owned, OwnInv, OwnedIsLive, LeaksOnlyRefused
  <2> QED BY <2>4, <2>5
<1> QED BY <1>1, <1>2, <1>3, <1>4 DEF AppStep

LEMMA QueueInvStep == QueueInv /\ [Next]_vars => QueueInv'
<1> SUFFICES ASSUME QueueInv, [Next]_vars PROVE QueueInv'
    OBVIOUS
<1>1. TypeOK' /\ Numbering' /\ InOrder'
  BY TypeStep, OrderStep DEF QueueInv
<1>2. CASE BtcStep
  BY <1>1, <1>2, OwnBtcStep DEF QueueInv, OwnInv
<1>3. CASE AppStep
  BY <1>1, <1>3, OwnAppStep DEF QueueInv, OwnInv
<1>4. CASE StackPost \/ UNCHANGED vars
  <2>1. Owned' = Owned /\ heap' = heap /\ refused' = refused
    BY <1>4 DEF StackPost, vars, appVars, Owned, AppOwns, DispatchOwns
  <2> QED BY <1>1, <2>1, OwnUnchanged DEF QueueInv, OwnInv
<1> QED BY <1>2, <1>3, <1>4 DEF Next

LEMMA QueueInvariant == Spec => []QueueInv
<1>1. Init => QueueInv
  BY TypeInit, OrderInit, OwnInit DEF QueueInv, OwnInv
<1> QED BY <1>1, QueueInvStep, PTL DEF Spec

-----------------------------------------------------------------------------
(* The refinement of EventQueue.                                           *)
Ids(q) == {q[i].id : i \in 1 .. Len(q)}
Handled == IF app_pc = "receive" THEN 0 ELSE app_msg.id

LEMMA IdsAppend ==
  ASSUME NEW q \in Seq(Msg), NEW m \in Msg
  PROVE  Ids(Append(q, m)) = Ids(q) \cup {m.id}
<1>1. Len(Append(q, m)) = Len(q) + 1 /\ Len(q) \in Nat
  OBVIOUS
<1>2. \A i \in 1 .. Len(q) : Append(q, m)[i] = q[i]
  OBVIOUS
<1>3. Append(q, m)[Len(q) + 1] = m
  OBVIOUS
<1>4. 1 .. Len(q) + 1 = 1 .. Len(q) \cup {Len(q) + 1}
  BY <1>1
<1> QED BY <1>1, <1>2, <1>3, <1>4 DEF Ids

(* In a queue in order the head has the smallest number, and the numbers   *)
(* of the rest are the others.                                             *)
LEMMA IdsTail ==
  ASSUME NEW q \in Seq(Msg), q # <<>>,
         \A i, j \in 1 .. Len(q) : i < j => q[i].id < q[j].id
  PROVE  /\ Head(q).id \in Ids(q)
         /\ \A e \in Ids(q) : Head(q).id <= e
         /\ Ids(Tail(q)) = Ids(q) \ {Head(q).id}
<1>1. Len(Tail(q)) = Len(q) - 1 /\ Len(q) \in Nat \ {0} /\ Head(q) = q[1]
  OBVIOUS
<1>2. \A i \in 1 .. Len(q) - 1 : Tail(q)[i] = q[i + 1]
  OBVIOUS
<1>3. ASSUME NEW i \in 1 .. Len(q) PROVE q[i].id \in Nat
  <2>1. q[i] \in Msg
    OBVIOUS
  <2> QED BY <2>1 DEF Msg
<1>4. \A i \in 1 .. Len(q) : i # 1 => q[1].id < q[i].id
  BY <1>1
<1>5. Head(q).id \in Ids(q)
  BY <1>1 DEF Ids
<1>6. \A e \in Ids(q) : Head(q).id <= e
  BY <1>1, <1>3, <1>4 DEF Ids
<1>7. ASSUME NEW e \in Ids(Tail(q)) PROVE e \in Ids(q) \ {Head(q).id}
  <2>1. PICK i \in 1 .. Len(q) - 1 : e = Tail(q)[i].id
    BY <1>1 DEF Ids
  <2>2. i + 1 \in 1 .. Len(q) /\ e = q[i + 1].id
    BY <1>1, <1>2, <2>1
  <2>3. q[1].id < e /\ q[1].id \in Nat /\ e \in Nat
    BY <1>1, <1>3, <1>4, <2>2
  <2> QED BY <1>1, <2>2, <2>3 DEF Ids
<1>8. ASSUME NEW e \in Ids(q) \ {Head(q).id} PROVE e \in Ids(Tail(q))
  <2>1. PICK i \in 1 .. Len(q) : e = q[i].id
    BY DEF Ids
  <2>2. i # 1
    BY <1>1, <2>1
  <2>3. i - 1 \in 1 .. Len(q) - 1 /\ (i - 1) + 1 = i
    BY <1>1, <2>2
  <2>4. e = Tail(q)[i - 1].id
    BY <1>2, <2>1, <2>3
  <2> QED BY <1>1, <2>3, <2>4 DEF Ids
<1> QED BY <1>5, <1>6, <1>7, <1>8

LEMMA EventStep == QueueInv /\ [Next]_vars => [Events!Next]_(Events!eventVars)
<1> SUFFICES ASSUME QueueInv, [Next]_vars
             PROVE  [Events!Next]_(Events!eventVars)
    OBVIOUS
<1> USE DEF Events!eventVars, appVars
<1>1. /\ queue \in Seq(Msg) /\ dispatch_msg \in Msg
      /\ app_msg \in Msg /\ app_msg.id \in Nat \ {0}
      /\ dispatch_msg.id = events
  BY DEF QueueInv, TypeOK, Numbering, Msg
<1>2. CASE StackPost \/ UNCHANGED vars
  BY <1>2 DEF StackPost, vars
<1>3. CASE BtcStep
  <2>1. CASE BtcOther
    BY <2>1 DEF BtcOther
  <2>2. CASE \E kind \in {"event", "meta"} : Callback(kind)
    <3>1. Events!Happen
      BY <2>2 DEF Callback, Events!Happen
    <3> QED BY <3>1 DEF Events!Next
  <2>3. CASE AllocMetaBuffer
    BY <2>3 DEF AllocMetaBuffer
  <2>4. CASE AllocMetaBufferPanic
    <3>1. Events!Forget
      BY <2>4 DEF AllocMetaBufferPanic, Events!Forget
    <3> QED BY <3>1 DEF Events!Next
  <2>5. CASE WorkDispatch
    <3>1. CASE dispatch_pc' = "send"
      BY <2>5, <3>1 DEF WorkDispatch
    <3>2. CASE dispatch_pc' = "idle"
      <4>1. Events!Refuse
        BY <2>5, <3>2 DEF WorkDispatch, Events!Refuse
      <4> QED BY <4>1 DEF Events!Next
    <3> QED BY <2>5, <3>1, <3>2 DEF WorkDispatch
  <2>6. CASE SendMsg
    <3>1. Ids(queue') = Ids(queue) \cup {events}
      BY <1>1, <2>6, IdsAppend DEF SendMsg
    <3>2. Events!Accept
      BY <2>6, <3>1 DEF SendMsg, Events!Accept, Ids
    <3> QED BY <3>2 DEF Events!Next
  <2>7. CASE SendMsgTimeout
    <3>1. Events!Refuse
      BY <2>7 DEF SendMsgTimeout, Events!Refuse
    <3> QED BY <3>1 DEF Events!Next
  <2> QED BY <1>3, <2>1, <2>2, <2>3, <2>4, <2>5, <2>6, <2>7 DEF BtcStep
<1>4. CASE AppStep
  <2>1. CASE Receive
    <3> DEFINE e == Head(queue).id
    <3>1. queue # <<>> /\ queue' = Tail(queue)
      BY <2>1 DEF Receive
    <3>2. /\ e \in Ids(queue)
          /\ \A f \in Ids(queue) : e <= f
          /\ Ids(queue') = Ids(queue) \ {e}
      BY <1>1, <3>1, IdsTail DEF QueueInv, InOrder
    <3>3. Handled = 0 /\ Handled' = e
      BY <2>1 DEF Receive, Handled
    <3>4. Events!Oldest(e)
      BY <3>2 DEF Events!Oldest, Ids
    <3>5. Events!Take
      BY <2>1, <3>2, <3>3, <3>4 DEF Receive, Events!Take, Ids, Handled
    <3> QED BY <3>5 DEF Events!Next
  <2>2. CASE WorkDispatched
    BY <2>2 DEF WorkDispatched
  <2>3. CASE StackCall
    BY <2>3 DEF StackCall
  <2>4. CASE FreeParam
    <3>1. Handled # 0 /\ Handled' = 0
      BY <1>1, <2>4 DEF FreeParam, Handled
    <3>2. Events!Finish
      BY <2>4, <3>1 DEF FreeParam, Events!Finish, Handled
    <3> QED BY <3>2 DEF Events!Next
  <2> QED BY <1>4, <2>1, <2>2, <2>3, <2>4 DEF AppStep
<1> QED BY <1>2, <1>3, <1>4 DEF Next

(* Accepted events are handled oldest first, each once, and an event whose *)
(* dispatch returned false never is: the hand-over with its memory and its *)
(* waiting is a refinement of EventQueue.                                  *)
THEOREM EventsImplemented == Spec => ImplementsEvents
<1>1. Init => Events!Init
  BY DEF Init, Events!Init, StackUp
<1> QED BY <1>1, EventStep, QueueInvariant, PTL
        DEF Spec, ImplementsEvents, Events!Spec

-----------------------------------------------------------------------------
(* Queue, dispatcher and application task stay well formed: neither queue  *)
(* exceeds its length, whatever the number of events.                      *)
THEOREM TypeCorrect == Spec => []TypeOK
<1> QueueInv => TypeOK
    BY DEF QueueInv
<1> QED BY QueueInvariant, PTL

(* No message in flight points to a block that has been freed.             *)
THEOREM NoUseAfterFree == Spec => []OwnedIsLive
<1> QueueInv => OwnedIsLive
    BY DEF QueueInv
<1> QED BY QueueInvariant, PTL

(* What leaks are blocks of events whose dispatch returned false.          *)
THEOREM OnlyRefusedLeak == Spec => []LeaksOnlyRefused
<1> QueueInv => LeaksOnlyRefused
    BY DEF QueueInv
<1> QED BY QueueInvariant, PTL

=============================================================================
