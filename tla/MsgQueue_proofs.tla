--------------------------- MODULE MsgQueue_proofs ---------------------------
(***************************************************************************)
(* The circular array of queue.c is a first-in first-out queue for every   *)
(* MAX_QUEUE_SIZE and every set of messages.                               *)
(***************************************************************************)
EXTENDS MsgQueue, SequenceTheorems, TLAPS

\* Indices never run further than once round the array.
Wrap(a) == IF a < MAX_QUEUE_SIZE THEN a ELSE a - MAX_QUEUE_SIZE

LEMMA ModOnce ==
    ASSUME NEW a \in 0 .. 2 * MAX_QUEUE_SIZE - 1
    PROVE  a % MAX_QUEUE_SIZE = Wrap(a)
  BY SizeAssumption DEF Wrap

\* What adding a message, taking one and taking them all does to the indices.
LEMMA IndexSteps ==
    ASSUME NEW f \in Slots, NEW n \in 0 .. MAX_QUEUE_SIZE
    PROVE  /\ (f + n) % MAX_QUEUE_SIZE = Wrap(f + n) /\ Wrap(f + n) \in Slots
           /\ After(f) = Wrap(f + 1) /\ After(f) \in Slots
           /\ n < MAX_QUEUE_SIZE => After(Wrap(f + n)) = Wrap(f + n + 1)
           /\ n > 0 => Wrap(Wrap(f + 1) + n - 1) = Wrap(f + n)
<1>1. /\ f + n \in 0 .. 2 * MAX_QUEUE_SIZE - 1 /\ f + 1 \in 0 .. 2 * MAX_QUEUE_SIZE - 1
      /\ Wrap(f + n) \in Slots /\ Wrap(f + 1) \in Slots
      /\ Wrap(f + n) + 1 \in 0 .. 2 * MAX_QUEUE_SIZE - 1
  BY SizeAssumption DEF Slots, Wrap
<1>2. (f + n) % MAX_QUEUE_SIZE = Wrap(f + n) /\ After(f) = Wrap(f + 1)
  BY <1>1, ModOnce DEF After
<1>3. After(Wrap(f + n)) = Wrap(Wrap(f + n) + 1)
  BY <1>1, ModOnce DEF After
<1>4. n < MAX_QUEUE_SIZE => Wrap(Wrap(f + n) + 1) = Wrap(f + n + 1)
  BY SizeAssumption DEF Slots, Wrap
<1>5. n > 0 => Wrap(Wrap(f + 1) + n - 1) = Wrap(f + n)
  BY SizeAssumption DEF Slots, Wrap
<1> QED
  BY <1>1, <1>2, <1>3, <1>4, <1>5

----------------------------------------------------------------------------
(* The three counters.                                                     *)

IInv == TypeOK /\ CountersAgree

LEMMA InitIInv == Init => IInv
<1>1. 0 \in Slots /\ 0 \in 0 .. MAX_QUEUE_SIZE
  BY SizeAssumption DEF Slots
<1>2. (0 + 0) % MAX_QUEUE_SIZE = 0
  BY <1>1, IndexSteps, SizeAssumption DEF Wrap
<1> QED
  BY <1>1, <1>2 DEF Init, IInv, TypeOK, CountersAgree

LEMMA NextIInv == IInv /\ [Next]_vars => IInv'
<1> SUFFICES ASSUME IInv, [Next]_vars PROVE IInv'
  OBVIOUS
<1>1. /\ front \in Slots /\ end \in Slots /\ size \in 0 .. MAX_QUEUE_SIZE
      /\ end = Wrap(front + size)
  BY IndexSteps DEF IInv, TypeOK, CountersAgree
<1>2. ASSUME NEW m \in Messages, queue_add(m) PROVE IInv'
  <2>1. size < MAX_QUEUE_SIZE /\ size' = size + 1 /\ front' = front /\ end' = After(end)
    BY <1>1, <1>2, SizeAssumption DEF queue_add, queue_is_full
  <2>2. size' \in 0 .. MAX_QUEUE_SIZE /\ end' \in Slots
    BY <1>1, <2>1, SizeAssumption, IndexSteps
  <2>3. end' = Wrap(front' + size')
    <3>1. end' = Wrap(front + size + 1)
      BY <1>1, <2>1, IndexSteps
    <3>2. front' + size' = front + size + 1
      BY <1>1, <2>1 DEF Slots
    <3> QED
      BY <3>1, <3>2
  <2>4. CountersAgree'
    BY <1>1, <2>1, <2>2, <2>3, IndexSteps DEF CountersAgree
  <2> QED
    BY <1>1, <1>2, <2>1, <2>2, <2>4 DEF queue_add, IInv, TypeOK
<1>3. CASE queue_add_fails \/ queue_front_fails
  BY <1>3 DEF queue_add_fails, queue_front_fails, IInv, TypeOK, CountersAgree
<1>4. CASE queue_front
  <2>1. size > 0 /\ size' = size - 1 /\ front' = Wrap(front + 1) /\ front' \in Slots /\ end' = end
    BY <1>1, <1>4, IndexSteps DEF queue_front, queue_is_empty
  <2>2. size' \in 0 .. MAX_QUEUE_SIZE
    BY <1>1, <2>1, SizeAssumption
  <2>3. Wrap(front' + size') = Wrap(front + size)
    <3>1. Wrap(Wrap(front + 1) + size - 1) = Wrap(front + size)
      BY <1>1, <2>1, IndexSteps
    <3>2. front' + size' = Wrap(front + 1) + size - 1
      BY <1>1, <2>1 DEF Slots
    <3> QED
      BY <3>1, <3>2
  <2>4. CountersAgree'
    BY <1>1, <2>1, <2>2, <2>3, IndexSteps DEF CountersAgree
  <2> QED
    BY <1>4, <2>1, <2>2, <2>4 DEF queue_front, IInv, TypeOK
<1>5. CASE queue_destroy
  <2>1. front' = end /\ size' = 0 /\ end' = end
    BY <1>1, <1>5, IndexSteps DEF queue_destroy
  <2>2. 0 \in 0 .. MAX_QUEUE_SIZE /\ Wrap(end + 0) = end
    BY <1>1, SizeAssumption DEF Wrap, Slots
  <2>3. CountersAgree'
    BY <1>1, <2>1, <2>2, IndexSteps DEF CountersAgree
  <2> QED
    BY <1>1, <1>5, <2>1, <2>2, <2>3 DEF queue_destroy, IInv, TypeOK
<1>6. CASE UNCHANGED vars
  BY <1>6 DEF vars, IInv, TypeOK, CountersAgree
<1> QED
  BY <1>2, <1>3, <1>4, <1>5, <1>6 DEF Next

\* The counters stay in range and agree.
THEOREM QueueCounters == Spec => [](TypeOK /\ CountersAgree)
  BY InitIInv, NextIInv, PTL DEF Spec, IInv

\* Every index stays inside the array, and what is in a slot is a message or nothing.
THEOREM QueueTypeCorrect == Spec => []TypeOK
<1>1. TypeOK /\ CountersAgree => TypeOK
  OBVIOUS
<1> QED
  BY <1>1, QueueCounters, PTL

----------------------------------------------------------------------------
(* The refinement.                                                         *)

Contents == Messages \cup {Null}

\* The slot of the i-th message.
SlotOf(f, i) == Wrap(f + (i - 1))

LEMMA ItemsOfSlots ==
    ASSUME NEW ms \in [Slots -> Contents], NEW f \in Slots, NEW n \in 0 .. MAX_QUEUE_SIZE,
           NEW s, s = [i \in 1 .. n |-> ms[(f + i - 1) % MAX_QUEUE_SIZE]]
    PROVE  /\ s \in Seq(Contents) /\ Len(s) = n
           /\ \A i \in 1 .. n : s[i] = ms[SlotOf(f, i)]
           /\ \A i \in 1 .. n : SlotOf(f, i) \in Slots
<1> USE SizeAssumption DEF Slots
<1>1. ASSUME NEW i \in 1 .. n
      PROVE  (f + i - 1) % MAX_QUEUE_SIZE = SlotOf(f, i) /\ SlotOf(f, i) \in Slots
  <2>1. i - 1 \in 0 .. MAX_QUEUE_SIZE /\ f + i - 1 = f + (i - 1)
    OBVIOUS
  <2> QED
    BY <2>1, IndexSteps DEF SlotOf
<1>2. s \in [1 .. n -> Contents]
  BY <1>1
<1>3. n \in Nat
  OBVIOUS
<1>4. s \in Seq(Contents) /\ Len(s) = n
  BY <1>2, <1>3, SeqDef, LenProperties
<1> QED
  BY <1>1, <1>4

LEMMA ItemsAreSlots ==
    ASSUME IInv
    PROVE  /\ Items \in Seq(Contents) /\ Len(Items) = size
           /\ \A i \in 1 .. size : Items[i] = msgs[SlotOf(front, i)]
           /\ \A i \in 1 .. size : SlotOf(front, i) \in Slots
  BY ItemsOfSlots DEF IInv, TypeOK, Items, Contents

LEMMA NextItemsAreSlots ==
    ASSUME IInv'
    PROVE  /\ Items' \in Seq(Contents) /\ Len(Items') = size'
           /\ \A i \in 1 .. size' : Items'[i] = msgs'[SlotOf(front', i)]
  BY ItemsOfSlots DEF IInv, TypeOK, Items, Contents

LEMMA AddRefines ==
    ASSUME IInv, IInv', NEW m \in Messages, queue_add(m)
    PROVE  Items' = Append(Items, m) /\ Len(Items) < MAX_QUEUE_SIZE
<1> USE SizeAssumption DEF IInv, TypeOK, Slots
<1>1. /\ size < MAX_QUEUE_SIZE /\ size' = size + 1 /\ front' = front
      /\ msgs' = [msgs EXCEPT ![end] = m]
  BY DEF queue_add, queue_is_full
<1>2. end = SlotOf(front, size + 1)
  <2>1. end = Wrap(front + size)
    BY IndexSteps DEF CountersAgree
  <2>2. size = (size + 1) - 1
    OBVIOUS
  <2> QED
    BY <2>1, <2>2 DEF SlotOf
<1>3. \A i \in 1 .. size : SlotOf(front, i) # end
  BY <1>1, <1>2 DEF SlotOf, Wrap
<1>4. /\ Items' \in Seq(Contents) /\ Len(Items') = size + 1
      /\ \A i \in 1 .. size + 1 : Items'[i] = msgs'[SlotOf(front, i)]
  BY <1>1, NextItemsAreSlots
<1>5. /\ Append(Items, m) \in Seq(Contents) /\ Len(Append(Items, m)) = size + 1
      /\ \A i \in 1 .. size : Append(Items, m)[i] = msgs[SlotOf(front, i)]
      /\ Append(Items, m)[size + 1] = m
  BY ItemsAreSlots, AppendProperties DEF Contents
<1>6. \A i \in 1 .. size : msgs'[SlotOf(front, i)] = msgs[SlotOf(front, i)]
  BY <1>1, <1>3, ItemsAreSlots
<1>7. msgs'[SlotOf(front, size + 1)] = m
  BY <1>1, <1>2
<1>8. ASSUME NEW i \in 1 .. size + 1 PROVE Items'[i] = Append(Items, m)[i]
  <2>1. CASE i \in 1 .. size
    BY <1>4, <1>5, <1>6, <2>1
  <2>2. CASE i = size + 1
    BY <1>4, <1>5, <1>7, <2>2
  <2> QED
    BY <2>1, <2>2, SMTT(40)
<1>9. Items' = Append(Items, m)
  BY <1>4, <1>5, <1>8, SeqEqual
<1> QED
  BY <1>1, <1>9, ItemsAreSlots

LEMMA TakeRefines ==
    ASSUME IInv, IInv', queue_front
    PROVE  Items # << >> /\ got' = Head(Items) /\ Items' = Tail(Items)
<1> USE SizeAssumption DEF IInv, TypeOK, Slots
<1>1. /\ size > 0 /\ size' = size - 1 /\ msgs' = msgs /\ got' = msgs[front]
      /\ front' = Wrap(front + 1)
  BY IndexSteps DEF queue_front, queue_is_empty
<1>2. Items \in Seq(Contents) /\ Len(Items) = size
  BY ItemsAreSlots
<1>3. Items # << >>
  BY <1>1, <1>2, EmptySeq
<1>4. got' = Head(Items)
  <2>1. SlotOf(front, 1) = front /\ 1 \in 1 .. size
    BY <1>1 DEF SlotOf, Wrap
  <2>2. Items[1] = msgs[front]
    BY <2>1, ItemsAreSlots
  <2>3. Head(Items) = Items[1]
    BY <1>2, <1>3, HeadTailProperties
  <2> QED
    BY <1>1, <2>2, <2>3
<1>5. ASSUME NEW i \in 1 .. size - 1
      PROVE  SlotOf(front', i) = SlotOf(front, i + 1) /\ i + 1 \in 1 .. size
  <2>1. i \in 0 .. MAX_QUEUE_SIZE /\ i > 0 /\ (i + 1) - 1 = i /\ i + 1 \in 1 .. size
    OBVIOUS
  <2>2. Wrap(Wrap(front + 1) + i - 1) = Wrap(front + i)
    BY <2>1, IndexSteps
  <2>3. front' \in Slots
    BY <1>1, IndexSteps
  <2>4. front' + (i - 1) = Wrap(front + 1) + i - 1
    BY <1>1, <2>1, <2>3
  <2> QED
    BY <2>1, <2>2, <2>4 DEF SlotOf
<1>6. /\ Items' \in Seq(Contents) /\ Len(Items') = size - 1
      /\ \A i \in 1 .. size - 1 : Items'[i] = msgs[SlotOf(front, i + 1)]
  <2>1. /\ Items' \in Seq(Contents) /\ Len(Items') = size'
        /\ \A i \in 1 .. size' : Items'[i] = msgs'[SlotOf(front', i)]
    BY NextItemsAreSlots
  <2> QED
    BY <1>1, <1>5, <2>1
<1>7. /\ Tail(Items) \in Seq(Contents) /\ Len(Tail(Items)) = size - 1
      /\ \A i \in 1 .. size - 1 : Tail(Items)[i] = Items[i + 1]
  BY <1>2, <1>3, HeadTailProperties
<1>8. \A i \in 1 .. size - 1 : Items'[i] = Tail(Items)[i]
  BY <1>5, <1>6, <1>7, ItemsAreSlots
<1>9. Items' = Tail(Items)
  BY <1>6, <1>7, <1>8, SeqEqual
<1> QED
  BY <1>3, <1>4, <1>9

LEMMA StepRefines ==
    ASSUME IInv, IInv', [Next]_vars
    PROVE  [Queue!Next]_<<Items, ok, got>>
<1>1. ASSUME NEW m \in Messages, queue_add(m) PROVE Queue!Next
  BY <1>1, AddRefines DEF queue_add, Queue!Next, Queue!Add
<1>2. CASE queue_add_fails
  BY <1>2 DEF queue_add_fails, Items, Queue!Next, Queue!AddRefused
<1>3. CASE queue_front
  BY <1>3, TakeRefines DEF queue_front, Queue!Next, Queue!Take
<1>4. CASE queue_front_fails
  <2>1. Items = << >>
    BY <1>4, ItemsAreSlots, EmptySeq DEF queue_front_fails, queue_is_empty
  <2> QED
    BY <1>4, <2>1 DEF queue_front_fails, Items, Queue!Next, Queue!TakeRefused
<1>5. CASE queue_destroy
  <2>1. Items' = << >>
    <3>1. Items' \in Seq(Contents) /\ Len(Items') = 0
      BY <1>5, NextItemsAreSlots DEF queue_destroy
    <3> QED
      BY <3>1, EmptySeq
  <2> QED
    BY <1>5, <2>1 DEF queue_destroy, Queue!Next, Queue!Clear
<1>6. CASE UNCHANGED vars
  BY <1>6 DEF vars, Items
<1> QED
  BY <1>1, <1>2, <1>3, <1>4, <1>5, <1>6 DEF Next

\* No message is lost, overwritten, repeated or reordered by the circular array.
THEOREM QueueIsFifo == Spec => ImplementsFifo
<1>1. Init => Queue!Init
  <2> SUFFICES ASSUME Init PROVE Queue!Init
    OBVIOUS
  <2>1. Items = << >>
    BY InitIInv, ItemsAreSlots, EmptySeq DEF Init
  <2> QED
    BY <2>1 DEF Init, Queue!Init
<1> QED
  BY <1>1, InitIInv, NextIInv, StepRefines, PTL DEF Spec, ImplementsFifo, Queue!Spec
=============================================================================
