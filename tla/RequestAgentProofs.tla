------------------------- MODULE RequestAgentProofs -------------------------
(***************************************************************************)
(* Theorems about RequestAgent, for any set of requests.  The argument is  *)
(* the inductive invariant DeliveryInv; the lemmas on queues reduce what   *)
(* the actions do to mainQueue to membership (Holds) and order (InOrder).  *)
(***************************************************************************)
EXTENDS RequestAgent, TLAPS

-----------------------------------------------------------------------------
(* Queues.                                                                 *)

\* A block posted to the queue is in it, and nothing else is new.
LEMMA HoldsAppend ==
    ASSUME NEW q \in Seq(Blocks), NEW b \in Blocks, NEW k, NEW r
    PROVE  Holds(Append(q, b), k, r) <=> Holds(q, k, r) \/ b = Block(k, r)
<1>1. /\ Len(Append(q, b)) = Len(q) + 1
      /\ Append(q, b)[Len(q) + 1] = b
      /\ \A i \in 1..Len(q) : Append(q, b)[i] = q[i]
      /\ Len(q) \in Nat
  OBVIOUS
<1>2. ASSUME Holds(Append(q, b), k, r)
      PROVE  Holds(q, k, r) \/ b = Block(k, r)
  <2>1. PICK i \in 1..(Len(q) + 1) : Append(q, b)[i] = Block(k, r)
    BY <1>1, <1>2 DEF Holds
  <2>2. CASE i = Len(q) + 1  BY <1>1, <2>1, <2>2
  <2>3. CASE i # Len(q) + 1
    <3>1. i \in 1..Len(q)  BY <1>1, <2>3
    <3>2. q[i] = Block(k, r)  BY <1>1, <2>1, <3>1
    <3> QED  BY <3>1, <3>2 DEF Holds
  <2> QED  BY <2>2, <2>3
<1>3. ASSUME Holds(q, k, r)
      PROVE  Holds(Append(q, b), k, r)
  <2>1. PICK i \in 1..Len(q) : q[i] = Block(k, r)  BY <1>3 DEF Holds
  <2>2. i \in 1..(Len(q) + 1)  BY <1>1
  <2> QED  BY <1>1, <2>1, <2>2 DEF Holds
<1>4. ASSUME b = Block(k, r)
      PROVE  Holds(Append(q, b), k, r)
  <2>1. Len(q) + 1 \in 1..(Len(q) + 1)  BY <1>1
  <2> QED  BY <1>1, <1>4, <2>1 DEF Holds
<1> QED  BY <1>2, <1>3, <1>4

\* Running the block at the head takes it out of the queue and leaves the rest.
LEMMA HoldsTail ==
    ASSUME NEW q \in Seq(Blocks), q # <<>>, NEW k, NEW r
    PROVE  Holds(q, k, r) <=> Holds(Tail(q), k, r) \/ Head(q) = Block(k, r)
<1>1. /\ Len(Tail(q)) = Len(q) - 1
      /\ Head(q) = q[1]
      /\ \A i \in 1..(Len(q) - 1) : Tail(q)[i] = q[i + 1]
      /\ Len(q) \in Nat \ {0}
  OBVIOUS
<1>2. ASSUME Holds(q, k, r), Head(q) # Block(k, r)
      PROVE  Holds(Tail(q), k, r)
  <2>1. PICK i \in 1..Len(q) : q[i] = Block(k, r)  BY <1>2 DEF Holds
  <2>2. i # 1  BY <1>1, <1>2, <2>1
  <2>3. i - 1 \in 1..(Len(q) - 1) /\ (i - 1) + 1 = i  BY <1>1, <2>2
  <2>4. Tail(q)[i - 1] = Block(k, r)  BY <1>1, <2>1, <2>3
  <2> QED  BY <1>1, <2>3, <2>4 DEF Holds
<1>3. ASSUME Holds(Tail(q), k, r)
      PROVE  Holds(q, k, r)
  <2>1. PICK i \in 1..(Len(q) - 1) : Tail(q)[i] = Block(k, r)
    BY <1>1, <1>3 DEF Holds
  <2>2. i + 1 \in 1..Len(q)  BY <1>1
  <2> QED  BY <1>1, <2>1, <2>2 DEF Holds
<1>4. ASSUME Head(q) = Block(k, r)
      PROVE  Holds(q, k, r)
  <2>1. 1 \in 1..Len(q)  BY <1>1
  <2> QED  BY <1>1, <1>4, <2>1 DEF Holds
<1> QED  BY <1>2, <1>3, <1>4

\* Posting keeps a queue in order, provided that no callback is posted for a
\* request that has a callback or a cleanup in the queue.
LEMMA InOrderAppend ==
    ASSUME NEW q \in Seq(Blocks), NEW b \in Blocks, InOrder(q),
           \A r \in Requests : b = Block("callback", r) =>
               ~Holds(q, "callback", r) /\ ~Holds(q, "cleanup", r)
    PROVE  InOrder(Append(q, b))
<1>1. /\ Len(Append(q, b)) = Len(q) + 1
      /\ Append(q, b)[Len(q) + 1] = b
      /\ \A i \in 1..Len(q) : Append(q, b)[i] = q[i]
      /\ Len(q) \in Nat
  OBVIOUS
<1> SUFFICES ASSUME NEW i \in 1..(Len(q) + 1), NEW j \in 1..(Len(q) + 1),
                    NEW r \in Requests, Append(q, b)[i] = Block("callback", r)
             PROVE  /\ Append(q, b)[j] = Block("callback", r) => i = j
                    /\ Append(q, b)[j] = Block("cleanup", r) => i < j
  BY <1>1 DEF InOrder
<1>2. Block("callback", r) # Block("cleanup", r)  BY DEF Block
<1>3. CASE i = Len(q) + 1
  <2>1. b = Block("callback", r)  BY <1>1, <1>3
  <2>2. ~Holds(q, "callback", r) /\ ~Holds(q, "cleanup", r)  BY <2>1
  <2>3. CASE j = Len(q) + 1  BY <1>1, <1>2, <1>3, <2>1, <2>3
  <2>4. CASE j # Len(q) + 1
    <3>1. j \in 1..Len(q) /\ Append(q, b)[j] = q[j]  BY <1>1, <2>4
    <3> QED  BY <2>2, <3>1 DEF Holds
  <2> QED  BY <2>3, <2>4
<1>4. CASE i # Len(q) + 1
  <2>1. i \in 1..Len(q) /\ q[i] = Block("callback", r)  BY <1>1, <1>4
  <2>2. CASE j = Len(q) + 1
    <3>1. Holds(q, "callback", r)  BY <2>1 DEF Holds
    <3>2. b # Block("callback", r)  BY <3>1
    <3>3. i < j  BY <1>1, <2>1, <2>2
    <3> QED  BY <1>1, <2>2, <3>2, <3>3
  <2>3. CASE j # Len(q) + 1
    <3>1. j \in 1..Len(q) /\ Append(q, b)[j] = q[j]  BY <1>1, <2>3
    <3> QED  BY <1>1, <2>1, <3>1 DEF InOrder
  <2> QED  BY <2>2, <2>3
<1> QED  BY <1>3, <1>4

\* Taking the head keeps a queue in order; behind a callback there is no other
\* callback of its request, and behind a cleanup there is none.
LEMMA InOrderTail ==
    ASSUME NEW q \in Seq(Blocks), q # <<>>, InOrder(q)
    PROVE  /\ InOrder(Tail(q))
           /\ \A r \in Requests :
                 Head(q) \in {Block("callback", r), Block("cleanup", r)} =>
                     ~Holds(Tail(q), "callback", r)
<1>1. /\ Len(Tail(q)) = Len(q) - 1
      /\ Head(q) = q[1]
      /\ \A i \in 1..(Len(q) - 1) : Tail(q)[i] = q[i + 1]
      /\ Len(q) \in Nat \ {0}
  OBVIOUS
<1>2. \A i \in 1..(Len(q) - 1) : i + 1 \in 1..Len(q)  BY <1>1
<1>3. InOrder(Tail(q))
  <2> SUFFICES ASSUME NEW i \in 1..(Len(q) - 1), NEW j \in 1..(Len(q) - 1),
                      NEW r \in Requests, Tail(q)[i] = Block("callback", r)
               PROVE  /\ Tail(q)[j] = Block("callback", r) => i = j
                      /\ Tail(q)[j] = Block("cleanup", r) => i < j
    BY <1>1 DEF InOrder
  <2>1. i + 1 \in 1..Len(q) /\ j + 1 \in 1..Len(q)  BY <1>2
  <2>2. q[i + 1] = Block("callback", r) /\ q[j + 1] = Tail(q)[j]  BY <1>1
  <2>3. /\ q[j + 1] = Block("callback", r) => i + 1 = j + 1
        /\ q[j + 1] = Block("cleanup", r) => i + 1 < j + 1
    BY <2>1, <2>2 DEF InOrder
  <2> QED  BY <1>1, <2>2, <2>3
<1>4. ASSUME NEW r \in Requests, Holds(Tail(q), "callback", r),
             Head(q) \in {Block("callback", r), Block("cleanup", r)}
      PROVE  FALSE
  <2>1. PICK i \in 1..(Len(q) - 1) : Tail(q)[i] = Block("callback", r)
    BY <1>1, <1>4 DEF Holds
  <2>2. i + 1 \in 1..Len(q) /\ 1 \in 1..Len(q)  BY <1>1, <1>2
  <2>3. q[i + 1] = Block("callback", r)  BY <1>1, <2>1
  <2>4. i + 1 = 1 \/ i + 1 < 1  BY <1>1, <1>4, <2>2, <2>3 DEF InOrder
  <2> QED  BY <1>1, <2>4
<1> QED  BY <1>3, <1>4

\* The accessory posts one block or none.
LEMMA PostsAtMostOne ==
    ASSUME NEW q \in Seq(Blocks), NEW r \in Requests
    PROVE  /\ q \o RequestWillStart(r) \in {q, Append(q, Block("show", r))}
           /\ q \o RequestWillStop(r) \in {q, Append(q, Block("hide", r))}
<1>1. q \o <<>> = q  OBVIOUS
<1>2. \A b \in Blocks : q \o <<b>> = Append(q, b)  OBVIOUS
<1>3. Block("show", r) \in Blocks /\ Block("hide", r) \in Blocks
  BY DEF Blocks, Block
<1> QED  BY <1>1, <1>2, <1>3 DEF RequestWillStart, RequestWillStop

-----------------------------------------------------------------------------
(* Types.                                                                  *)

LEMMA BlocksAreBlocks ==
    \A r \in Requests : /\ Block("show", r) \in Blocks
                        /\ Block("hide", r) \in Blocks
                        /\ Block("callback", r) \in Blocks
                        /\ Block("cleanup", r) \in Blocks
BY DEF Blocks, Block

\* The state of the request layer is always well formed.
THEOREM TypeCorrect == Spec => []TypeOK
<1>1. Init => TypeOK
  BY DEF Init, TypeOK, Stages, Outcomes
<1>2. TypeOK /\ [Next]_vars => TypeOK'
  <2> SUFFICES ASSUME TypeOK, [Next]_vars
               PROVE  TypeOK'
    OBVIOUS
  <2> USE DEF TypeOK, Stages, Outcomes
  <2>0. ASSUME NEW r \in Requests
        PROVE  /\ mainQueue \o RequestWillStart(r) \in Seq(Blocks)
               /\ mainQueue \o RequestWillStop(r) \in Seq(Blocks)
               /\ mainQueue # <<>> =>
                     Tail(mainQueue) \o RequestWillStop(r) \in Seq(Blocks)
    <3>1. RequestWillStart(r) \in Seq(Blocks) /\ RequestWillStop(r) \in Seq(Blocks)
      BY BlocksAreBlocks DEF RequestWillStart, RequestWillStop
    <3> QED  BY <3>1
  <2>1. ASSUME NEW r \in Requests, StartUnsent(r) PROVE TypeOK'
    <3>1. mainQueue' \in Seq(Blocks)
      BY <2>0, <2>1, BlocksAreBlocks DEF StartUnsent
    <3> QED  BY <2>1, <3>1 DEF StartUnsent, Attach
  <2>2. ASSUME NEW r \in Requests, Start(r) PROVE TypeOK'
    <3>1. mainQueue' \in Seq(Blocks)  BY <2>0, <2>2 DEF Start
    <3> QED  BY <2>2, <3>1 DEF Start, Attach
  <2>3. ASSUME NEW r \in Requests, Stop(r) PROVE TypeOK'
    <3>1. mainQueue' \in Seq(Blocks)  BY <2>0, <2>3 DEF Stop, StopEffect
    <3> QED  BY <2>3, <3>1 DEF Stop, StopEffect
  <2>4. ASSUME NEW r \in Requests, CancelNext(r) PROVE TypeOK'
    <3>1. mainQueue' \in Seq(Blocks)  BY <2>0, <2>4 DEF CancelNext, StopEffect
    <3> QED  BY <2>4, <3>1 DEF CancelNext, StopEffect
  <2>5. ASSUME CancelAllRequests PROVE TypeOK'
    BY <2>5 DEF CancelAllRequests
  <2>6. ASSUME NEW r \in Requests, HandleRequestResult(r) PROVE TypeOK'
    <3>1. CASE IgnoreAnswer(r)  BY <3>1 DEF IgnoreAnswer
    <3>2. CASE AcceptAnswer(r)  BY <3>2 DEF AcceptAnswer
    <3>3. CASE PostCallback(r)  BY <3>3, BlocksAreBlocks DEF PostCallback
    <3>4. CASE PostCleanup(r)  BY <3>4, BlocksAreBlocks DEF PostCleanup
    <3> QED  BY <2>6, <3>1, <3>2, <3>3, <3>4 DEF HandleRequestResult
  <2>7. ASSUME NEW r \in Requests, RunMainQueue(r) PROVE TypeOK'
    <3>1. CASE RunShow(r)  BY <3>1 DEF RunShow, AtHead
    <3>2. CASE RunHide(r)  BY <3>2 DEF RunHide, AtHead
    <3>3. CASE RunCallback(r)
      <4>1. Told(r) \in Tellings  BY DEF Told, Tellings
      <4>2. heard' \in [Requests -> Seq(Tellings)]
        BY <3>3, <4>1 DEF RunCallback
      <4>3. mainQueue' \in Seq(Blocks)  BY <2>0, <3>3 DEF RunCallback, AtHead
      <4> QED  BY <3>3, <4>2, <4>3 DEF RunCallback
    <3>4. CASE RunCleanup(r)  BY <3>4 DEF RunCleanup, AtHead
    <3> QED  BY <2>7, <3>1, <3>2, <3>3, <3>4 DEF RunMainQueue
  <2>8. CASE UNCHANGED vars  BY <2>8 DEF vars
  <2> QED
    BY <2>1, <2>2, <2>3, <2>4, <2>5, <2>6, <2>7, <2>8 DEF Next
<1> QED  BY <1>1, <1>2, PTL DEF Spec

-----------------------------------------------------------------------------
(* The inductive invariant.                                                *)

\* What a step does to the queue, in terms of Holds and InOrder: it posts
\* blocks of one request, or runs the block at the head.
LEMMA Posting ==
    ASSUME TypeOK, InOrder(mainQueue), NEW b \in Blocks,
           mainQueue' \in {mainQueue, Append(mainQueue, b)},
           \A r \in Requests : b = Block("callback", r) =>
               ~Queued("callback", r) /\ ~Queued("cleanup", r)
    PROVE  /\ InOrder(mainQueue')
           /\ \A k, r : Queued(k, r)' => Queued(k, r) \/ b = Block(k, r)
           /\ \A k, r : Queued(k, r) => Queued(k, r)'
<1>1. mainQueue \in Seq(Blocks)  BY DEF TypeOK
<1>2. CASE mainQueue' = mainQueue  BY <1>2 DEF Queued
<1>3. CASE mainQueue' = Append(mainQueue, b)
  <2>1. InOrder(Append(mainQueue, b))  BY <1>1, InOrderAppend DEF Queued
  <2>2. \A k, r : Holds(Append(mainQueue, b), k, r)
                      <=> Holds(mainQueue, k, r) \/ b = Block(k, r)
    BY <1>1, HoldsAppend
  <2> QED  BY <1>3, <2>1, <2>2 DEF Queued
<1> QED  BY <1>2, <1>3

LEMMA Running ==
    ASSUME TypeOK, InOrder(mainQueue), mainQueue # <<>>, NEW s \in Requests,
           mainQueue' \in {Tail(mainQueue),
                           Append(Tail(mainQueue), Block("hide", s))}
    PROVE  /\ InOrder(mainQueue')
           /\ \A k, r : k # "hide" =>
                 (Queued(k, r) <=> Queued(k, r)' \/ Head(mainQueue) = Block(k, r))
           /\ \A r \in Requests :
                 Head(mainQueue) \in {Block("callback", r), Block("cleanup", r)}
                     => ~Queued("callback", r)'
<1> DEFINE t == Tail(mainQueue)
           h == Block("hide", s)
<1>1. mainQueue \in Seq(Blocks) /\ t \in Seq(Blocks) /\ h \in Blocks
  BY BlocksAreBlocks DEF TypeOK
<1>2. /\ InOrder(t)
      /\ \A r \in Requests :
            Head(mainQueue) \in {Block("callback", r), Block("cleanup", r)} =>
                ~Holds(t, "callback", r)
  BY <1>1, InOrderTail
<1>3. \A k, r : Holds(mainQueue, k, r) <=> Holds(t, k, r) \/ Head(mainQueue) = Block(k, r)
  BY <1>1, HoldsTail
<1>4. \A k, r : k # "hide" => h # Block(k, r)  BY DEF Block
<1>5. InOrder(Append(t, h))
  <2>1. \A r \in Requests : h # Block("callback", r)  BY <1>4
  <2> QED  BY <1>1, <1>2, <2>1, InOrderAppend
<1>6. \A k, r : k # "hide" => (Holds(Append(t, h), k, r) <=> Holds(t, k, r))
  <2> HIDE DEF t, h
  <2> QED  BY <1>1, <1>4, HoldsAppend
<1>7. CASE mainQueue' = t  BY <1>2, <1>3, <1>7 DEF Queued
<1>8. CASE mainQueue' = Append(t, h)
  BY <1>2, <1>3, <1>5, <1>6, <1>8 DEF Queued
<1> QED  BY <1>7, <1>8

\* A request none of whose state a step touches keeps its part of the invariant.
LEMMA Untouched ==
    ASSUME NEW s \in Requests, Delivery(s),
           task'[s] = task[s], heard'[s] = heard[s],
           s \in record' <=> s \in record,
           s \in sweep' <=> s \in sweep,
           s \in stopped' <=> s \in stopped,
           s \in blocks' <=> s \in blocks,
           s \in delegates' <=> s \in delegates,
           Queued("callback", s)' <=> Queued("callback", s),
           Queued("cleanup", s)' <=> Queued("cleanup", s)
    PROVE  Delivery(s)'
BY DEF Delivery

\* Stopping r, by stop or by cancelAllRequests.
LEMMA StoppingStep ==
    ASSUME TypeOK, DeliveryInv, NEW r \in Requests, StopEffect(r),
           task[r] # "new", task' = task, heard' = heard,
           sweep' \in {sweep, sweep \ {r}}
    PROVE  DeliveryInv'
<1>1. mainQueue' \in {mainQueue, Append(mainQueue, Block("hide", r))}
  BY PostsAtMostOne DEF StopEffect, TypeOK
<1>2. \A k, s : k # "hide" => Block("hide", r) # Block(k, s)  BY DEF Block
<1>3. /\ InOrder(mainQueue')
      /\ \A k, s : k # "hide" => (Queued(k, s)' <=> Queued(k, s))
  <2>1. Block("hide", r) \in Blocks  BY BlocksAreBlocks
  <2>2. InOrder(mainQueue)  BY DEF DeliveryInv
  <2>3. \A s \in Requests : Block("hide", r) # Block("callback", s)  BY <1>2
  <2>4. /\ InOrder(mainQueue')
        /\ \A k, s : Queued(k, s)' => Queued(k, s) \/ Block("hide", r) = Block(k, s)
        /\ \A k, s : Queued(k, s) => Queued(k, s)'
    BY <1>1, <2>1, <2>2, <2>3, Posting
  <2> QED  BY <1>2, <2>4
<1>4. ASSUME NEW s \in Requests PROVE Delivery(s)'
  <2>1. Delivery(s)  BY DEF DeliveryInv
  <2>2. /\ Queued("callback", s)' <=> Queued("callback", s)
        /\ Queued("cleanup", s)' <=> Queued("cleanup", s)
    BY <1>3
  <2>3. CASE s = r  BY <2>1, <2>2, <2>3 DEF Delivery, StopEffect
  <2>4. CASE s # r
    BY <2>1, <2>2, <2>4, Untouched DEF StopEffect
  <2> QED  BY <2>3, <2>4
<1> QED  BY <1>3, <1>4 DEF DeliveryInv

LEMMA StartingStep ==
    ASSUME TypeOK, DeliveryInv, NEW r \in Requests, StartUnsent(r) \/ Start(r)
    PROVE  DeliveryInv'
<1>1. /\ task[r] = "new" /\ Delivery(r) /\ InOrder(mainQueue)
      /\ mainQueue \in Seq(Blocks)
  BY DEF StartUnsent, Start, DeliveryInv, TypeOK
<1>2. /\ ~Queued("callback", r) /\ ~Queued("cleanup", r)
      /\ r \notin stopped /\ heard[r] = <<>>
  BY <1>1 DEF Delivery
<1> DEFINE q == mainQueue \o RequestWillStart(r)
           c == Block("callback", r)
<1>3. q \in {mainQueue, Append(mainQueue, Block("show", r))}
  BY <1>1, PostsAtMostOne
<1>4. /\ \A k, s : k # "show" => Block("show", r) # Block(k, s)
      /\ \A k, s : c = Block(k, s) => k = "callback" /\ s = r
  BY DEF Block
<1>5. Block("show", r) \in Blocks /\ c \in Blocks  BY BlocksAreBlocks
<1>6. /\ q \in Seq(Blocks) /\ InOrder(q)
      /\ \A k, s : k # "show" => (Holds(q, k, s) <=> Queued(k, s))
  <2>1. InOrder(Append(mainQueue, Block("show", r)))
    <3>1. \A s \in Requests : Block("show", r) # Block("callback", s)  BY <1>4
    <3> QED  BY <1>1, <1>5, <3>1, InOrderAppend
  <2>2. \A k, s : k # "show" =>
            (Holds(Append(mainQueue, Block("show", r)), k, s) <=> Queued(k, s))
    BY <1>1, <1>4, <1>5, HoldsAppend DEF Queued
  <2>3. Append(mainQueue, Block("show", r)) \in Seq(Blocks)  BY <1>1, <1>5
  <2> HIDE DEF q
  <2> QED  BY <1>1, <1>3, <2>1, <2>2, <2>3 DEF Queued
<1>7. CASE Start(r)
  <2>1. mainQueue' = q  BY <1>7 DEF Start
  <2>2. /\ InOrder(mainQueue')
        /\ \A k, s : k # "show" => (Queued(k, s)' <=> Queued(k, s))
    BY <1>6, <2>1 DEF Queued
  <2>3. ASSUME NEW s \in Requests PROVE Delivery(s)'
    <3>1. Delivery(s)  BY DEF DeliveryInv
    <3>2. /\ Queued("callback", s)' <=> Queued("callback", s)
          /\ Queued("cleanup", s)' <=> Queued("cleanup", s)
      BY <2>2
    <3>3. CASE s = r
      BY <1>2, <1>7, <3>1, <3>2, <3>3 DEF Delivery, Start, Attach, TypeOK
    <3>4. CASE s # r
      BY <1>7, <3>1, <3>2, <3>4, Untouched DEF Start, Attach, TypeOK
    <3> QED  BY <3>3, <3>4
  <2> QED  BY <2>2, <2>3 DEF DeliveryInv
<1>8. CASE StartUnsent(r)
  <2>1. mainQueue' = Append(q, c)
    <3>1. mainQueue' = q \o <<c>>  BY <1>8 DEF StartUnsent
    <3> HIDE DEF q, c
    <3> QED  BY <1>5, <1>6, <3>1
  <2>2. InOrder(mainQueue')
    <3>1. ~Holds(q, "callback", r) /\ ~Holds(q, "cleanup", r)  BY <1>2, <1>6
    <3>2. \A s \in Requests : c = Block("callback", s) => s = r  BY <1>4
    <3> HIDE DEF q, c
    <3> QED  BY <1>5, <1>6, <2>1, <3>1, <3>2, InOrderAppend
  <2>3. \A k, s : Holds(mainQueue', k, s) <=> Holds(q, k, s) \/ c = Block(k, s)
    <3> HIDE DEF q, c
    <3> QED  BY <1>5, <1>6, <2>1, HoldsAppend
  <2>4. ASSUME NEW s \in Requests PROVE Delivery(s)'
    <3>1. Delivery(s)  BY DEF DeliveryInv
    <3>2. /\ Queued("callback", s)' <=> Queued("callback", s) \/ s = r
          /\ Queued("cleanup", s)' <=> Queued("cleanup", s)
      BY <1>4, <1>6, <2>3 DEF Queued
    <3>3. CASE s = r
      BY <1>2, <1>8, <3>1, <3>2, <3>3 DEF Delivery, StartUnsent, Attach, TypeOK
    <3>4. CASE s # r
      BY <1>8, <3>1, <3>2, <3>4, Untouched DEF StartUnsent, Attach, TypeOK
    <3> QED  BY <3>3, <3>4
  <2> QED  BY <2>2, <2>4 DEF DeliveryInv
<1> QED  BY <1>7, <1>8

LEMMA HandlingStep ==
    ASSUME TypeOK, DeliveryInv, NEW r \in Requests, HandleRequestResult(r)
    PROVE  DeliveryInv'
<1>1. Delivery(r) /\ InOrder(mainQueue)  BY DEF DeliveryInv
<1>2. \A s \in Requests : Delivery(s)  BY DEF DeliveryInv
<1>3. CASE IgnoreAnswer(r) \/ AcceptAnswer(r)
  <2>1. mainQueue' = mainQueue /\ (task'[r] = "handling" \/ (task'[r] = "ended" /\ r \in stopped))
    BY <1>1, <1>3 DEF IgnoreAnswer, AcceptAnswer, Delivery, TypeOK
  <2>2. InOrder(mainQueue') /\ \A k, s : Queued(k, s)' <=> Queued(k, s)
    BY <1>1, <2>1 DEF Queued
  <2>3. ASSUME NEW s \in Requests PROVE Delivery(s)'
    <3>1. /\ Queued("callback", s)' <=> Queued("callback", s)
          /\ Queued("cleanup", s)' <=> Queued("cleanup", s)
      BY <2>2
    <3>2. CASE s = r
      BY <1>1, <1>3, <2>1, <3>1, <3>2 DEF IgnoreAnswer, AcceptAnswer, Delivery, TypeOK
    <3>3. CASE s # r
      BY <1>2, <1>3, <3>1, <3>3, Untouched DEF IgnoreAnswer, AcceptAnswer, TypeOK
    <3> QED  BY <3>2, <3>3
  <2> QED  BY <2>2, <2>3 DEF DeliveryInv
<1>4. CASE PostCallback(r) \/ PostCleanup(r)
  <2> DEFINE k == IF task[r] = "handling" THEN "callback" ELSE "cleanup"
  <2>1. /\ mainQueue' = Append(mainQueue, Block(k, r))
        /\ Block(k, r) \in Blocks
    BY <1>4, BlocksAreBlocks DEF PostCallback, PostCleanup
  <2>2. task[r] = "handling" => ~Queued("callback", r) /\ ~Queued("cleanup", r)
    BY <1>1 DEF Delivery
  <2>3. \A j, s : Block(k, r) = Block(j, s) <=> j = k /\ s = r
    BY DEF Block
  <2>4. \A s \in Requests : Block(k, r) = Block("callback", s) =>
            ~Queued("callback", s) /\ ~Queued("cleanup", s)
    BY <2>2, <2>3
  <2>5. /\ InOrder(mainQueue')
        /\ \A j, s : Queued(j, s)' => Queued(j, s) \/ Block(k, r) = Block(j, s)
        /\ \A j, s : Queued(j, s) => Queued(j, s)'
    <3> HIDE DEF k
    <3> QED  BY <1>1, <2>1, <2>4, Posting
  <2>6. mainQueue \in Seq(Blocks)  BY DEF TypeOK
  <2>7. \A j, s : Queued(j, s)' <=> Queued(j, s) \/ (j = k /\ s = r)
    <3> HIDE DEF k
    <3> QED  BY <2>1, <2>3, <2>6, HoldsAppend DEF Queued
  <2>8. ASSUME NEW s \in Requests PROVE Delivery(s)'
    <3>1. /\ Queued("callback", s)' <=>
                Queued("callback", s) \/ (task[r] = "handling" /\ s = r)
          /\ Queued("cleanup", s)' <=>
                Queued("cleanup", s) \/ (task[r] # "handling" /\ s = r)
      BY <2>7
    <3>2. CASE s = r
      BY <1>1, <1>4, <3>1, <3>2 DEF PostCallback, PostCleanup, Delivery, TypeOK
    <3>3. CASE s # r
      BY <1>2, <1>4, <3>1, <3>3, Untouched DEF PostCallback, PostCleanup, TypeOK
    <3> QED  BY <3>2, <3>3
  <2> QED  BY <2>5, <2>8 DEF DeliveryInv
<1> QED  BY <1>3, <1>4 DEF HandleRequestResult

LEMMA RunningStep ==
    ASSUME TypeOK, DeliveryInv, NEW r \in Requests, RunMainQueue(r)
    PROVE  DeliveryInv'
<1>1. Delivery(r) /\ InOrder(mainQueue) /\ mainQueue # <<>>
  BY DEF DeliveryInv, RunMainQueue, RunShow, RunHide, RunCallback, RunCleanup, AtHead
<1>2. \A s \in Requests : Delivery(s)  BY DEF DeliveryInv
<1>3. mainQueue' \in {Tail(mainQueue), Append(Tail(mainQueue), Block("hide", r))}
  <2>1. Tail(mainQueue) \in Seq(Blocks)  BY <1>1 DEF TypeOK
  <2>2. Tail(mainQueue) \o RequestWillStop(r)
            \in {Tail(mainQueue), Append(Tail(mainQueue), Block("hide", r))}
    BY <2>1, PostsAtMostOne
  <2> QED
    BY <2>2 DEF RunMainQueue, RunShow, RunHide, RunCallback, RunCleanup
<1>4. /\ InOrder(mainQueue')
      /\ \A k, s : k # "hide" =>
            (Queued(k, s) <=> Queued(k, s)' \/ Head(mainQueue) = Block(k, s))
      /\ \A s \in Requests :
            Head(mainQueue) \in {Block("callback", s), Block("cleanup", s)}
                => ~Queued("callback", s)'
  BY <1>1, <1>3, Running
<1>5. \A j, k, s : Block(j, r) = Block(k, s) <=> j = k /\ s = r  BY DEF Block
<1>6. PICK k \in {"show", "hide", "callback", "cleanup"} :
         /\ Head(mainQueue) = Block(k, r)
         /\ k = "show" => RunShow(r)
         /\ k = "hide" => RunHide(r)
         /\ k = "callback" => RunCallback(r)
         /\ k = "cleanup" => RunCleanup(r)
  <2>1. CASE RunShow(r)  BY <2>1 DEF RunShow, AtHead
  <2>2. CASE RunHide(r)  BY <2>2 DEF RunHide, AtHead
  <2>3. CASE RunCallback(r)  BY <2>3 DEF RunCallback, AtHead
  <2>4. CASE RunCleanup(r)  BY <2>4 DEF RunCleanup, AtHead
  <2> QED  BY <2>1, <2>2, <2>3, <2>4 DEF RunMainQueue
<1>7. ASSUME NEW s \in Requests PROVE Delivery(s)'
  <2>1. /\ Queued("callback", s) <=>
              Queued("callback", s)' \/ (k = "callback" /\ s = r)
        /\ Queued("cleanup", s) <=>
              Queued("cleanup", s)' \/ (k = "cleanup" /\ s = r)
    BY <1>4, <1>5, <1>6
  <2>2. s = r /\ k \in {"callback", "cleanup"} => ~Queued("callback", s)'
    BY <1>4, <1>6
  <2>3. task' = task /\ stopped' = stopped /\ sweep' = sweep /\ delegates' = delegates
    BY <1>6 DEF RunShow, RunHide, RunCallback, RunCleanup
  <2>4. CASE k \in {"show", "hide"}
    <3>1. heard' = heard /\ record' = record /\ blocks' = blocks
      BY <1>6, <2>4 DEF RunShow, RunHide
    <3> QED  BY <1>2, <2>1, <2>3, <2>4, <3>1, Untouched
  <2>5. CASE k = "callback"
    <3>1. record' = record /\ blocks' = blocks
      BY <1>6, <2>5 DEF RunCallback
    <3>2. CASE s # r
      <4>1. heard'[s] = heard[s]  BY <1>6, <2>5, <3>2 DEF RunCallback, TypeOK
      <4> QED  BY <1>2, <2>1, <2>3, <2>5, <3>1, <3>2, <4>1, Untouched
    <3>3. CASE s = r
      <4>1. /\ heard[r] = <<>> /\ task[r] \in {"unsent", "posted", "ended"}
        BY <1>1, <2>1, <2>5, <3>3 DEF Delivery
      <4>2. heard'[r] = IF r \in blocks \cup delegates
                        THEN Append(<<>>, Told(r)) ELSE <<>>
        BY <1>6, <2>5, <4>1 DEF RunCallback, TypeOK
      <4>3. Append(<<>>, Told(r)) # <<>> /\ Len(Append(<<>>, Told(r))) = 1
        OBVIOUS
      <4>4. Len(heard'[r]) <= 1  BY <4>2, <4>3
      <4> QED
        BY <1>1, <2>1, <2>2, <2>3, <2>5, <3>1, <3>3, <4>1, <4>2, <4>3, <4>4
        DEF Delivery
    <3> QED  BY <3>2, <3>3
  <2>6. CASE k = "cleanup"
    <3>1. heard' = heard /\ record' = record \ {r} /\ blocks' = blocks \ {r}
      BY <1>6, <2>6 DEF RunCleanup
    <3>2. CASE s # r
      BY <1>2, <2>1, <2>3, <2>6, <3>1, <3>2, Untouched
    <3>3. CASE s = r
      <4>1. task[r] = "ended" /\ ~Queued("callback", r)
        BY <1>1, <2>1, <2>2, <2>6, <3>3 DEF Delivery
      <4> QED  BY <1>1, <2>1, <2>2, <2>3, <2>6, <3>1, <3>3, <4>1 DEF Delivery
    <3> QED  BY <3>2, <3>3
  <2> QED  BY <1>6, <2>4, <2>5, <2>6
<1> QED  BY <1>4, <1>7 DEF DeliveryInv

\* The stage of the task, the queue, the record and what the client heard go
\* together in every reachable state.
THEOREM DeliveryCorrect == Spec => []DeliveryInv
<1>1. Init => DeliveryInv
  <2> SUFFICES ASSUME Init PROVE DeliveryInv
    OBVIOUS
  <2>1. Len(<<>>) = 0 /\ ~(\E i \in 1..0 : TRUE)  OBVIOUS
  <2>2. InOrder(mainQueue)  BY <2>1 DEF Init, InOrder
  <2>3. \A k, r : ~Queued(k, r)  BY <2>1 DEF Init, Queued, Holds
  <2>4. ASSUME NEW r \in Requests PROVE Delivery(r)
    BY <2>1, <2>3 DEF Init, Delivery
  <2> QED  BY <2>2, <2>4 DEF DeliveryInv
<1>2. TypeOK /\ DeliveryInv /\ [Next]_vars => DeliveryInv'
  <2> SUFFICES ASSUME TypeOK, DeliveryInv, [Next]_vars
               PROVE  DeliveryInv'
    OBVIOUS
  <2>1. ASSUME NEW r \in Requests, StartUnsent(r) \/ Start(r)
        PROVE  DeliveryInv'
    BY <2>1, StartingStep
  <2>2. ASSUME NEW r \in Requests, Stop(r) PROVE DeliveryInv'
    BY <2>2, StoppingStep DEF Stop
  <2>3. ASSUME NEW r \in Requests, CancelNext(r) PROVE DeliveryInv'
    <3>1. task[r] # "new"  BY <2>3 DEF CancelNext, DeliveryInv, Delivery
    <3> QED  BY <2>3, <3>1, StoppingStep DEF CancelNext
  <2>4. ASSUME NEW r \in Requests, HandleRequestResult(r) PROVE DeliveryInv'
    BY <2>4, HandlingStep
  <2>5. ASSUME NEW r \in Requests, RunMainQueue(r) PROVE DeliveryInv'
    BY <2>5, RunningStep
  <2>6. CASE CancelAllRequests
    <3>1. /\ UNCHANGED <<task, record, blocks, delegates, mainQueue, heard, stopped>>
          /\ sweep' = record
      BY <2>6 DEF CancelAllRequests
    <3>2. InOrder(mainQueue') /\ \A k, r : Queued(k, r)' <=> Queued(k, r)
      BY <3>1 DEF DeliveryInv, Queued
    <3>3. ASSUME NEW r \in Requests PROVE Delivery(r)'
      BY <3>1, <3>2 DEF DeliveryInv, Delivery
    <3> QED  BY <3>2, <3>3 DEF DeliveryInv
  <2>7. CASE UNCHANGED vars
    <3>1. UNCHANGED <<task, record, blocks, delegates, mainQueue, heard, stopped, sweep>>
      BY <2>7 DEF vars
    <3>2. InOrder(mainQueue') /\ \A k, r : Queued(k, r)' <=> Queued(k, r)
      BY <3>1 DEF DeliveryInv, Queued
    <3>3. ASSUME NEW r \in Requests PROVE Delivery(r)'
      BY <3>1, <3>2 DEF DeliveryInv, Delivery
    <3> QED  BY <3>2, <3>3 DEF DeliveryInv
  <2> QED
    BY <2>1, <2>2, <2>3, <2>4, <2>5, <2>6, <2>7 DEF Next
<1> QED  BY <1>1, <1>2, TypeCorrect, PTL DEF Spec

-----------------------------------------------------------------------------
(* What follows from it.                                                   *)

\* One answer, one callback: no interleaving of stop, cancelAllRequests, the
\* processing queue and the main queue calls a client twice.
THEOREM CalledAtMostOnce == Spec => []AtMostOneCallback
<1>1. DeliveryInv => AtMostOneCallback
  BY DEF DeliveryInv, Delivery, AtMostOneCallback
<1> QED  BY <1>1, DeliveryCorrect, PTL

\* Until a client has heard or has stopped, its request can be found in the
\* record.
THEOREM RecordedUntilThen == Spec => []RecordedUntilHeard
<1>1. DeliveryInv => RecordedUntilHeard
  BY DEF DeliveryInv, Delivery, RecordedUntilHeard
<1> QED  BY <1>1, DeliveryCorrect, PTL

\* After stop, silence.
THEOREM StopSilences == Spec => SilentOnceStopped
<1>1. TypeOK /\ DeliveryInv /\ [Next]_vars =>
         [\A r \in Requests : r \in stopped => heard'[r] = heard[r]]_vars
  <2> SUFFICES ASSUME TypeOK, DeliveryInv, Next, NEW s \in Requests, s \in stopped
               PROVE  heard'[s] = heard[s]
    OBVIOUS
  <2>1. s \notin blocks \cup delegates  BY DEF DeliveryInv, Delivery
  <2>2. CASE heard' = heard  BY <2>2
  <2>3. ASSUME NEW r \in Requests, RunCallback(r) PROVE heard'[s] = heard[s]
    BY <2>1, <2>3 DEF RunCallback, TypeOK
  <2>4. heard' = heard \/ \E r \in Requests : RunCallback(r)
    BY DEF Next, CancelAllRequests, StartUnsent, Start, Stop, CancelNext,
           HandleRequestResult, IgnoreAnswer, AcceptAnswer, PostCallback,
           PostCleanup, RunMainQueue, RunShow, RunHide, RunCleanup
  <2> QED  BY <2>2, <2>3, <2>4
<1> QED  BY <1>1, TypeCorrect, DeliveryCorrect, PTL DEF Spec, SilentOnceStopped

\* The request layer implements its promise: each of its steps is a step of
\* RequestPromise or leaves it where it is.
THEOREM ImplementsPromise == Spec => KeepsPromise
<1> USE DEF Promise!Status, Promise!Moves
<1>1. Init => Promise!Init
  BY DEF Init, Promise!Init, status
<1>2. TypeOK /\ DeliveryInv /\ [Next]_vars => [Promise!Next]_status
  <2> SUFFICES ASSUME TypeOK, DeliveryInv, [Next]_vars
               PROVE  Promise!Next \/ status' = status
    OBVIOUS
  <2>1. status' \in [Requests -> Promise!Status]  BY DEF status
  <2>2. ASSUME NEW s \in Requests
        PROVE  status'[s] = status[s] \/ <<status[s], status'[s]>> \in Promise!Moves
    <3>1. Delivery(s)  BY DEF DeliveryInv
    <3>2. /\ status[s] = IF task[s] = "new" THEN "idle"
                         ELSE IF heard[s] # <<>> THEN "answered"
                         ELSE IF s \in stopped THEN "withdrawn"
                         ELSE "pending"
          /\ status'[s] = IF task'[s] = "new" THEN "idle"
                          ELSE IF heard'[s] # <<>> THEN "answered"
                          ELSE IF s \in stopped' THEN "withdrawn"
                          ELSE "pending"
      BY DEF status
    <3>3. CASE task'[s] = task[s] /\ heard'[s] = heard[s] /\ stopped' = stopped
      BY <3>2, <3>3
    <3>4. ASSUME NEW r \in Requests, StartUnsent(r) \/ Start(r)
          PROVE  \/ status'[s] = status[s]
                 \/ <<status[s], status'[s]>> \in Promise!Moves
      <4>1. /\ heard' = heard /\ stopped' = stopped
            /\ task[r] = "new" /\ task'[r] # "new"
            /\ s # r => task'[s] = task[s]
        BY <3>4 DEF StartUnsent, Start, TypeOK
      <4> QED  BY <3>1, <3>2, <4>1 DEF Delivery
    <3>5. ASSUME NEW r \in Requests, StopEffect(r), task[r] # "new",
                 task' = task, heard' = heard
          PROVE  \/ status'[s] = status[s]
                 \/ <<status[s], status'[s]>> \in Promise!Moves
      BY <3>2, <3>5 DEF StopEffect
    <3>6. ASSUME NEW r \in Requests, CancelNext(r)
          PROVE  \/ status'[s] = status[s]
                 \/ <<status[s], status'[s]>> \in Promise!Moves
      <4>1. task[r] # "new"  BY <3>6 DEF CancelNext, DeliveryInv, Delivery
      <4> QED  BY <3>5, <3>6, <4>1 DEF CancelNext
    <3>7. ASSUME NEW r \in Requests, HandleRequestResult(r)
          PROVE  \/ status'[s] = status[s]
                 \/ <<status[s], status'[s]>> \in Promise!Moves
      <4>1. /\ heard' = heard /\ stopped' = stopped
            /\ task'[s] # "new" <=> task[s] # "new"
        BY <3>7 DEF HandleRequestResult, IgnoreAnswer, AcceptAnswer,
                    PostCallback, PostCleanup, TypeOK
      <4> QED  BY <3>2, <4>1
    <3>8. ASSUME NEW r \in Requests, RunCallback(r)
          PROVE  \/ status'[s] = status[s]
                 \/ <<status[s], status'[s]>> \in Promise!Moves
      <4>1. task' = task /\ stopped' = stopped  BY <3>8 DEF RunCallback
      <4>2. \/ heard'[s] = heard[s]
            \/ /\ s \in blocks \cup delegates
               /\ heard'[s] = Append(heard[s], Told(s))
        BY <3>8 DEF RunCallback, TypeOK
      <4>3. CASE heard'[s] = heard[s]  BY <3>2, <4>1, <4>3
      <4>4. CASE s \in blocks \cup delegates /\ heard'[s] = Append(heard[s], Told(s))
        <5>1. s \notin stopped  BY <3>1, <4>4 DEF Delivery
        <5>2. heard[s] \in Seq(Tellings) /\ Told(s) \in Tellings
          BY DEF TypeOK, Told, Tellings
        <5>3. heard'[s] # <<>>  BY <4>4, <5>2
        <5> QED  BY <3>2, <4>1, <5>1, <5>3
      <4> QED  BY <4>2, <4>3, <4>4
    <3>9. CASE UNCHANGED <<task, heard, stopped>>  BY <3>3, <3>9
    <3>10. \/ UNCHANGED <<task, heard, stopped>>
           \/ \E r \in Requests :
                 \/ StartUnsent(r) \/ Start(r) \/ Stop(r) \/ CancelNext(r)
                 \/ HandleRequestResult(r) \/ RunCallback(r)
      BY DEF Next, vars, CancelAllRequests, RunMainQueue, RunShow, RunHide,
             RunCleanup
    <3> QED
      BY <3>4, <3>5, <3>6, <3>7, <3>8, <3>9, <3>10 DEF Stop
  <2> QED  BY <2>1, <2>2 DEF Promise!Next
<1> QED
  BY <1>1, <1>2, TypeCorrect, DeliveryCorrect, PTL
  DEF Spec, KeepsPromise, Promise!Spec
-----------------------------------------------------------------------------
(* Letting go.                                                             *)

\* A cleanup stays in the queue until it is run.
LEMMA CleanupStays ==
    ASSUME TypeOK, DeliveryInv, [Next]_vars, NEW r \in Requests,
           Queued("cleanup", r), ~ RunCleanup(r)
    PROVE  Queued("cleanup", r)'
<1>1. InOrder(mainQueue) /\ mainQueue \in Seq(Blocks)
  BY DEF DeliveryInv, TypeOK
<1>2. CASE mainQueue' = mainQueue
  BY <1>2 DEF Queued
<1>3. ASSUME NEW q \in Seq(Blocks), Holds(q, "cleanup", r), NEW b \in Blocks
      PROVE  Holds(Append(q, b), "cleanup", r)
  BY <1>3, HoldsAppend
<1>4. ASSUME NEW s \in Requests, mainQueue' = mainQueue \o RequestWillStop(s)
      PROVE  Queued("cleanup", r)'
  BY <1>1, <1>2, <1>3, <1>4, PostsAtMostOne, BlocksAreBlocks DEF Queued
<1>5. ASSUME NEW s \in Requests, StartUnsent(s) \/ Start(s)
      PROVE  Queued("cleanup", r)'
  <2> DEFINE q == mainQueue \o RequestWillStart(s)
  <2>1. q \in {mainQueue, Append(mainQueue, Block("show", s))}
    BY <1>1, PostsAtMostOne
  <2>2. mainQueue' \in {q, q \o <<Block("callback", s)>>}
    BY <1>5 DEF StartUnsent, Start
  <2> HIDE DEF q
  <2>3. q \in Seq(Blocks) /\ Holds(q, "cleanup", r)
    <3>1. Block("show", s) \in Blocks /\ Holds(mainQueue, "cleanup", r)
      BY BlocksAreBlocks DEF Queued
    <3>2. CASE q = mainQueue
      BY <1>1, <3>1, <3>2
    <3>3. CASE q = Append(mainQueue, Block("show", s))
      <4>1. Append(mainQueue, Block("show", s)) \in Seq(Blocks)
        BY <1>1, <3>1
      <4>2. Holds(Append(mainQueue, Block("show", s)), "cleanup", r)
        BY <1>1, <1>3, <3>1
      <4> QED
        BY <3>3, <4>1, <4>2
    <3> QED
      BY <2>1, <3>2, <3>3
  <2>4. q \o <<Block("callback", s)>> = Append(q, Block("callback", s))
    BY <2>3
  <2> QED
    BY <1>3, <2>2, <2>3, <2>4, BlocksAreBlocks DEF Queued
<1>6. ASSUME NEW s \in Requests, HandleRequestResult(s)
      PROVE  Queued("cleanup", r)'
  <2>1. \/ mainQueue' = mainQueue
        \/ mainQueue' = Append(mainQueue, Block("callback", s))
        \/ mainQueue' = Append(mainQueue, Block("cleanup", s))
    BY <1>6 DEF HandleRequestResult, IgnoreAnswer, AcceptAnswer, PostCallback, PostCleanup
  <2> QED
    BY <1>1, <1>2, <1>3, <2>1, BlocksAreBlocks DEF Queued
<1>7. ASSUME NEW s \in Requests, RunMainQueue(s)
      PROVE  Queued("cleanup", r)'
  <2>1. mainQueue # <<>>
    BY <1>7 DEF RunMainQueue, RunShow, RunHide, RunCallback, RunCleanup, AtHead
  <2>2. Head(mainQueue) # Block("cleanup", r)
    <3>1. \A k : Block(k, s) = Block("cleanup", r) => k = "cleanup" /\ s = r
      BY DEF Block
    <3> QED
      BY <1>7, <3>1 DEF RunMainQueue, RunShow, RunHide, RunCallback, RunCleanup, AtHead
  <2>3. Tail(mainQueue) \in Seq(Blocks) /\ Holds(Tail(mainQueue), "cleanup", r)
    BY <1>1, <2>1, <2>2, HoldsTail DEF Queued
  <2>4. \/ mainQueue' = Tail(mainQueue)
        \/ mainQueue' = Tail(mainQueue) \o RequestWillStop(s)
    BY <1>7 DEF RunMainQueue, RunShow, RunHide, RunCallback, RunCleanup
  <2>5. Tail(mainQueue) \o RequestWillStop(s)
            \in {Tail(mainQueue), Append(Tail(mainQueue), Block("hide", s))}
    BY <2>3, PostsAtMostOne
  <2> QED
    BY <1>3, <2>3, <2>4, <2>5, BlocksAreBlocks DEF Queued
<1>8. CASE Next
  <2>1. ASSUME NEW s \in Requests, Stop(s) \/ CancelNext(s)
        PROVE  Queued("cleanup", r)'
    BY <1>4, <2>1 DEF Stop, CancelNext, StopEffect
  <2> QED
    BY <1>2, <1>5, <1>6, <1>7, <1>8, <2>1 DEF Next, CancelAllRequests
<1> QED
  BY <1>2, <1>8 DEF vars

\* A task whose result has been handled leaves its request with the cleanup
\* in the queue, or free.
LetGo(r) == task[r] = "ended" => Queued("cleanup", r) \/ r \notin record \cup blocks

LEMMA LetGoStep ==
    ASSUME TypeOK, DeliveryInv, [Next]_vars, NEW r \in Requests, LetGo(r)
    PROVE  LetGo(r)'
<1> SUFFICES ASSUME task'[r] = "ended", ~ Queued("cleanup", r)'
             PROVE  r \notin record' \cup blocks'
  BY DEF LetGo
<1>1. CASE RunCleanup(r)
  BY <1>1 DEF RunCleanup
<1>2. CASE ~ RunCleanup(r)
  <2>1. ~ Queued("cleanup", r)
    BY <1>2, CleanupStays
  <2>2. CASE task[r] = "ended"
    <3>1. r \notin record \cup blocks
      BY <2>1, <2>2 DEF LetGo
    <3>2. ASSUME NEW s \in Requests, StartUnsent(s) \/ Start(s)
          PROVE  r \notin record' \cup blocks'
      <4>1. s # r
        BY <2>2, <3>2 DEF StartUnsent, Start
      <4> QED
        BY <3>1, <3>2, <4>1 DEF StartUnsent, Start, Attach
    <3>3. ASSUME NEW s \in Requests, Stop(s) \/ CancelNext(s)
          PROVE  r \notin record' \cup blocks'
      BY <3>1, <3>3 DEF Stop, CancelNext, StopEffect
    <3>4. ASSUME NEW s \in Requests, HandleRequestResult(s) \/ RunMainQueue(s)
          PROVE  r \notin record' \cup blocks'
      BY <3>1, <3>4 DEF HandleRequestResult, IgnoreAnswer, AcceptAnswer, PostCallback,
                        PostCleanup, RunMainQueue, RunShow, RunHide, RunCallback, RunCleanup
    <3> QED
      BY <3>1, <3>2, <3>3, <3>4 DEF Next, vars, CancelAllRequests
  <2>3. CASE task[r] # "ended"
    <3>0. task'[r] = "ended" /\ task'[r] # task[r]
      BY <2>3
    <3>t. ASSUME NEW s \in Requests, s # r, HandleRequestResult(s)
          PROVE  task'[r] = task[r]
      BY <3>t DEF TypeOK, HandleRequestResult, IgnoreAnswer, AcceptAnswer, PostCallback,
                  PostCleanup
    <3>a. ASSUME NEW s \in Requests, StartUnsent(s) \/ Start(s)
          PROVE  task'[r] # "ended" \/ task'[r] = task[r]
      BY <3>a DEF TypeOK, StartUnsent, Start
    <3>b. ASSUME NEW s \in Requests, Stop(s) \/ CancelNext(s) \/ RunMainQueue(s)
          PROVE  task'[r] = task[r]
      BY <3>b DEF Stop, CancelNext, StopEffect, RunMainQueue, RunShow, RunHide, RunCallback,
                  RunCleanup
    <3>c. HandleRequestResult(r)
      BY <3>0, <3>t, <3>a, <3>b DEF Next, vars, CancelAllRequests
    <3>1. IgnoreAnswer(r) \/ PostCleanup(r)
      BY <3>0, <3>c DEF TypeOK, HandleRequestResult, AcceptAnswer, PostCallback
    <3>2. CASE IgnoreAnswer(r)
      <4>1. r \in stopped
        BY <3>2 DEF IgnoreAnswer, DeliveryInv, Delivery
      <4> QED
        BY <3>2, <4>1 DEF IgnoreAnswer, DeliveryInv, Delivery
    <3>3. CASE PostCleanup(r)
      <4>1. Queued("cleanup", r)'
        BY <3>3, HoldsAppend, BlocksAreBlocks DEF PostCleanup, Queued, TypeOK
      <4> QED
        BY <4>1
    <3> QED
      BY <3>1, <3>2, <3>3
  <2> QED
    BY <2>2, <2>3
<1> QED
  BY <1>1, <1>2

\* When handleRequestResult has returned and its blocks have run, the agent
\* holds the request no more and its blocks are cleared, however stop and
\* cancelAllRequests came in between.
THEOREM NothingIsRetained == Spec => []NothingRetained
<1> DEFINE Inv == \A r \in Requests : LetGo(r)
<1>1. Init => Inv
  BY DEF Init, LetGo
<1>2. TypeOK /\ DeliveryInv /\ Inv /\ [Next]_vars => Inv'
  BY LetGoStep
<1>3. Inv => NothingRetained
  BY DEF LetGo, NothingRetained
<1> QED
  BY <1>1, <1>2, <1>3, TypeCorrect, DeliveryCorrect, PTL DEF Spec

-----------------------------------------------------------------------------
(* The expired token.                                                      *)

\* Once the client has heard, the answer is not judged again, and blocks are
\* only ever taken away.
LEMMA ExpiryStep ==
    ASSUME TypeOK, DeliveryInv, ExpiryTakenFromBlocks, [Next]_vars
    PROVE  ExpiryTakenFromBlocks'
<1> SUFFICES ASSUME NEW r \in Requests, heard'[r] # <<>>, r \in blocks'
             PROVE  heard'[r][1] = "relogin" <=> outcome'[r] = "expired"
  BY DEF ExpiryTakenFromBlocks
<1>1. CASE RunCallback(r)
  <2>1. Queued("callback", r)
    BY <1>1, HoldsTail DEF RunCallback, AtHead, Queued, TypeOK
  <2>2. heard[r] = <<>>
    BY <2>1 DEF DeliveryInv, Delivery
  <2>3. r \in blocks /\ outcome' = outcome
    BY <1>1 DEF RunCallback
  <2>4. heard'[r] = Append(<<>>, Told(r))
    BY <1>1, <2>2, <2>3 DEF RunCallback, TypeOK
  <2>5. heard'[r][1] = Told(r)
    BY <2>4
  <2> QED
    BY <2>3, <2>5 DEF Told
<1>2. CASE ~ RunCallback(r)
  <2>1. heard'[r] = heard[r]
    BY <1>2 DEF TypeOK, Next, vars, CancelAllRequests, StartUnsent, Start, Stop, CancelNext,
                HandleRequestResult, IgnoreAnswer, AcceptAnswer, PostCallback, PostCleanup,
                RunMainQueue, RunShow, RunHide, RunCallback, RunCleanup
  <2>2. heard[r] # <<>> /\ task[r] \notin {"new", "running", "handling"}
    BY <2>1 DEF DeliveryInv, Delivery
  <2>3. ASSUME NEW s \in Requests, StartUnsent(s) \/ Start(s)
        PROVE  r \in blocks /\ outcome'[r] = outcome[r]
    <3>1. s # r
      BY <2>2, <2>3 DEF StartUnsent, Start
    <3> QED
      BY <2>3, <3>1 DEF StartUnsent, Start, Attach, TypeOK
  <2>4. ASSUME NEW s \in Requests, HandleRequestResult(s)
        PROVE  r \in blocks /\ outcome'[r] = outcome[r]
    BY <2>2, <2>4 DEF HandleRequestResult, IgnoreAnswer, AcceptAnswer, PostCallback,
                      PostCleanup, TypeOK
  <2>5. ASSUME NEW s \in Requests, Stop(s) \/ CancelNext(s) \/ RunMainQueue(s)
        PROVE  r \in blocks /\ outcome'[r] = outcome[r]
    BY <2>5 DEF Stop, CancelNext, StopEffect, RunMainQueue, RunShow, RunHide, RunCallback,
                RunCleanup
  <2>6. r \in blocks /\ outcome'[r] = outcome[r]
    BY <2>3, <2>4, <2>5 DEF Next, vars, CancelAllRequests
  <2> QED
    BY <2>1, <2>2, <2>6 DEF ExpiryTakenFromBlocks
<1> QED
  BY <1>1, <1>2

\* A client that gave blocks hears of an expired token as such, and of nothing
\* else so, whatever is stopped and started meanwhile.
THEOREM ExpiryIsTaken == Spec => []ExpiryTakenFromBlocks
<1>1. Init => ExpiryTakenFromBlocks
  BY DEF Init, ExpiryTakenFromBlocks
<1>2. TypeOK /\ DeliveryInv /\ ExpiryTakenFromBlocks /\ [Next]_vars => ExpiryTakenFromBlocks'
  BY ExpiryStep
<1> QED
  BY <1>1, <1>2, TypeCorrect, DeliveryCorrect, PTL DEF Spec
=============================================================================
