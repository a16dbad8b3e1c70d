--------------------------- MODULE SpscRingProofs ---------------------------
(***************************************************************************)
(* Proofs about SpscRing, for every Capacity, Modulus and MaxRows that     *)
(* RingAssumption allows.                                                  *)
(*                                                                         *)
(* The argument relates the wrapped counters to the history counters       *)
(* (Counters), orders the history counters and the two stale views of them *)
(* (Views), and from that derives that a side past its check is alone at   *)
(* its slot (Turns) and that the unread rows are in theirs (Contents).     *)
(* None of the four is inductive without the others.                       *)
(***************************************************************************)
EXTENDS SpscRing, TLAPS

-----------------------------------------------------------------------------
(* Arithmetic of wrapped counters.                                         *)

\* Division with remainder, the fact the other lemmas of this part rest on.
LEMMA DivMod ==
    ASSUME NEW x \in Int, NEW C \in Nat, C > 0
    PROVE  /\ x % C \in 0..(C - 1)
           /\ x \div C \in Int
           /\ x = C * (x \div C) + (x % C)
  OBVIOUS

\* A product with a positive factor is at least the other factor.
LEMMA MultAtLeast ==
    ASSUME NEW C \in Nat, NEW k \in Int, k >= 1
    PROVE  C * k >= C
  <1>1. C * k = C * (k - 1) + C
    OBVIOUS
  <1>2. C * (k - 1) >= 0
    OBVIOUS
  <1> QED
    BY <1>1, <1>2

\* The remainder is unique.
LEMMA ModUnique ==
    ASSUME NEW C \in Nat, C > 0, NEW x \in Int, NEW q \in Int, NEW r \in 0..(C - 1),
           x = C * q + r
    PROVE  x % C = r
  <1> DEFINE d == x \div C
             m == x % C
  <1>1. m \in 0..(C - 1) /\ d \in Int /\ x = C * d + m
    BY DivMod
  <1> HIDE DEF d, m
  <1>2. C * (q - d) = m - r /\ C * (d - q) = r - m
    <2>1. C * q \in Int /\ C * d \in Int
      BY <1>1
    <2>2. C * (q - d) = C * q - C * d /\ C * (d - q) = C * d - C * q
      BY <1>1
    <2> QED
      BY <1>1, <2>1, <2>2
  <1>3. CASE q - d >= 1
    <2>1. C * (q - d) >= C
      BY <1>1, <1>3, MultAtLeast
    <2> QED
      BY <1>1, <1>2, <2>1
  <1>4. CASE d - q >= 1
    <2>1. C * (d - q) >= C
      BY <1>1, <1>4, MultAtLeast
    <2> QED
      BY <1>1, <1>2, <2>1
  <1>5. CASE q = d
    <2>1. C * q = C * d
      BY <1>5
    <2>2. C * q \in Int /\ C * d \in Int
      BY <1>1
    <2>3. m = r
      BY <1>1, <2>1, <2>2
    <2> QED
      BY <2>3 DEF m
  <1> QED
    BY <1>1, <1>3, <1>4, <1>5

\* A number below the modulus is its own remainder.
LEMMA ModSmall ==
    ASSUME NEW C \in Nat, C > 0, NEW x \in 0..(C - 1)
    PROVE  x % C = x
  OBVIOUS

\* Modular subtraction recovers a difference below the modulus: the reason
\* `head - tail` "stays correct across their own overflow" (spsc_ring.hpp).
LEMMA ModShift ==
    ASSUME NEW C \in Nat, C > 0, NEW x \in Int, NEW y \in Int,
           x - y \in 0..(C - 1)
    PROVE  ((x % C) - (y % C)) % C = x - y
  <1> DEFINE dx == x \div C  mx == x % C  dy == y \div C  my == y % C
  <1>1. /\ mx \in Int /\ dx \in Int /\ x = C * dx + mx
        /\ my \in Int /\ dy \in Int /\ y = C * dy + my
    BY DivMod
  <1> HIDE DEF dx, mx, dy, my
  <1>2. C * (dy - dx) = C * dy - C * dx /\ C * dy \in Int /\ C * dx \in Int
    BY <1>1
  <1>3. mx - my = C * (dy - dx) + (x - y)
    BY <1>1, <1>2
  <1>4. (mx - my) % C = x - y
    <2>1. dy - dx \in Int /\ mx - my \in Int
      BY <1>1
    <2> QED
      BY <1>3, <2>1, ModUnique
  <1> QED
    BY <1>4 DEF mx, my

\* Incrementing a wrapped counter wraps the incremented one.
LEMMA ModInc ==
    ASSUME NEW C \in Nat, C > 0, NEW x \in Int
    PROVE  ((x % C) + 1) % C = (x + 1) % C
  <1> DEFINE d == x \div C  m == x % C  e == (x + 1) \div C  n == (x + 1) % C
  <1>1. /\ m \in Int /\ d \in Int /\ x = C * d + m
        /\ n \in 0..(C - 1) /\ e \in Int /\ x + 1 = C * e + n
    BY DivMod
  <1> HIDE DEF d, m, e, n
  <1>2. C * (e - d) = C * e - C * d /\ C * e \in Int /\ C * d \in Int
    BY <1>1
  <1>3. m + 1 = C * (e - d) + n
    BY <1>1, <1>2
  <1>4. (m + 1) % C = n
    <2>1. e - d \in Int /\ m + 1 \in Int
      BY <1>1
    <2> QED
      BY <1>1, <1>3, <2>1, ModUnique
  <1> QED
    BY <1>4 DEF m, n

\* Masking a wrapped counter masks the counter, the capacity dividing 2^w.
LEMMA ModMod ==
    ASSUME NEW C \in Nat, C > 0, NEW k \in Nat, k > 0, NEW M \in Nat, M = k * C, NEW x \in Int
    PROVE  (x % M) % C = x % C
  <1>1. M > 0
    <2>1. C * k >= C
      BY MultAtLeast
    <2> QED
      BY <2>1
  <1> DEFINE d == x \div C  m == x % C  e == x \div M  n == x % M
  <1>2. /\ m \in 0..(C - 1) /\ d \in Int /\ x = C * d + m
        /\ n \in Int /\ e \in Int /\ x = M * e + n
    BY <1>1, DivMod
  <1> HIDE DEF d, m, e, n
  <1>3. M * e = C * (k * e) /\ k * e \in Int
    BY <1>2
  <1>4. C * (d - k * e) = C * d - C * (k * e) /\ C * d \in Int /\ C * (k * e) \in Int
    BY <1>2, <1>3
  <1>5. n = C * (d - k * e) + m
    BY <1>2, <1>3, <1>4
  <1>6. n % C = m
    <2>1. d - k * e \in Int
      BY <1>2, <1>3
    <2> QED
      BY <1>2, <1>5, <2>1, ModUnique
  <1> QED
    BY <1>6 DEF m, n

\* Numbers closer than the modulus with the same remainder are equal.
LEMMA ModDistinct ==
    ASSUME NEW C \in Nat, C > 0, NEW x \in Int, NEW y \in Int,
           x - y \in 0..(C - 1), x % C = y % C
    PROVE  x = y
  <1>1. ((x % C) - (y % C)) % C = x - y
    BY ModShift
  <1>2. (x % C) - (y % C) = 0
    BY DivMod
  <1>3. 0 % C = 0
    BY ModSmall
  <1> QED
    BY <1>1, <1>2, <1>3

-----------------------------------------------------------------------------
(* The counters of the ring.                                               *)

\* What RingAssumption says of size_t's range: it is a multiple of the capacity
\* and larger.
LEMMA ModulusFacts ==
    /\ Capacity \in Nat /\ Capacity >= 2
    /\ Modulus \in Nat /\ Modulus > Capacity
    /\ MaxRows \in Nat
    /\ \E k \in Nat : k > 0 /\ Modulus = k * Capacity
  <1>1. PICK k \in 2..Modulus : Modulus = k * Capacity
    BY RingAssumption
  <1>2. Capacity * (k - 1) >= Capacity
    BY <1>1, RingAssumption, MultAtLeast
  <1>3. k * Capacity = Capacity * (k - 1) + Capacity
    BY <1>1, RingAssumption
  <1>4. Modulus > Capacity
    BY <1>1, <1>2, <1>3, RingAssumption
  <1> QED
    BY <1>1, <1>4, RingAssumption

\* The size_t increment of a counter, in terms of what it counts.
LEMMA CounterInc ==
    ASSUME NEW n \in Nat
    PROVE  n % Modulus \in 0..(Modulus - 1) /\ Inc(n % Modulus) = (n + 1) % Modulus
  <1>1. n \in Int /\ Modulus \in Nat /\ Modulus > 0
    BY ModulusFacts
  <1>2. n % Modulus \in 0..(Modulus - 1)
    BY <1>1, DivMod
  <1>3. ((n % Modulus) + 1) % Modulus = (n + 1) % Modulus
    BY <1>1, ModInc
  <1> QED
    BY <1>2, <1>3 DEF Inc

\* The size_t difference of two counters at most a ring apart is the difference
\* of what they count.
LEMMA CounterSub ==
    ASSUME NEW a \in Nat, NEW b \in Nat, a - b \in 0..Capacity
    PROVE  Sub(a % Modulus, b % Modulus) = a - b
  <1>1. a \in Int /\ b \in Int /\ Modulus \in Nat /\ Modulus > 0
    BY ModulusFacts
  <1>2. a - b \in 0..(Modulus - 1)
    BY ModulusFacts
  <1>3. ((a % Modulus) - (b % Modulus)) % Modulus = a - b
    BY <1>1, <1>2, ModShift
  <1> QED
    BY <1>3 DEF Sub

\* Counters at most a ring apart that are equal count the same.
LEMMA CounterEqual ==
    ASSUME NEW a \in Nat, NEW b \in Nat, a - b \in 0..Capacity, a % Modulus = b % Modulus
    PROVE  a = b
  <1>1. a \in Int /\ b \in Int /\ Modulus \in Nat /\ Modulus > 0
    BY ModulusFacts
  <1>2. a - b \in 0..(Modulus - 1)
    BY ModulusFacts
  <1> QED
    BY <1>1, <1>2, ModDistinct

\* The slot of a counter, in terms of what it counts.
LEMMA CounterSlot ==
    ASSUME NEW n \in Nat
    PROVE  SlotOf(n % Modulus) = n % Capacity /\ n % Capacity \in 0..(Capacity - 1)
  <1>1. PICK k \in Nat : k > 0 /\ Modulus = k * Capacity
    BY ModulusFacts
  <1>2. n \in Int /\ Modulus \in Nat /\ Capacity \in Nat /\ Capacity > 0
    BY ModulusFacts
  <1>3. (n % Modulus) % Capacity = n % Capacity
    BY <1>1, <1>2, ModMod
  <1>4. n % Capacity \in 0..(Capacity - 1)
    BY <1>2, DivMod
  <1> QED
    BY <1>3, <1>4 DEF SlotOf

\* Two rows less than a ring apart have different slots.
LEMMA SlotsDistinct ==
    ASSUME NEW a \in Nat, NEW b \in Nat, a - b \in 1..(Capacity - 1)
    PROVE  a % Capacity # b % Capacity
  <1>1. a \in Int /\ b \in Int /\ Capacity \in Nat /\ Capacity > 0
    BY ModulusFacts
  <1>2. a - b \in 0..(Capacity - 1) /\ a # b
    BY <1>1
  <1> QED
    BY <1>1, <1>2, ModDistinct

-----------------------------------------------------------------------------
(* The inductive invariant.                                                *)

\* What each side has learned lies between what the other did and the last time
\* it looked, and the ring is never overfull even by the producer's stale view.
Views ==
    /\ poppedSeen <= popped /\ popped <= pushedSeen
    /\ pushedSeen <= pushed /\ pushed <= poppedSeen + Capacity
    /\ pushed <= MaxRows

\* The four size_t indices are the history counters, wrapped.
Counters ==
    /\ head = pushed % Modulus /\ tail_cache = poppedSeen % Modulus
    /\ tail = popped % Modulus /\ head_cache = pushedSeen % Modulus

\* A side that has gone past its check has room, or a row.
Turns ==
    /\ Pushing => pushed < MaxRows
    /\ ppc \in {"write", "publish"} => pushed < poppedSeen + Capacity
    /\ cpc \in {"copy", "free"} => popped < pushedSeen

\* Every unread row is in its slot, whole.
Contents ==
    /\ \A i \in popped..(pushed - 1) : slots[i % Capacity] = i
    /\ ppc = "publish" => slots[pushed % Capacity] = pushed
    /\ cpc = "free" => out = popped

\* The inductive invariant.
RingInv == TypeOK /\ Views /\ Counters /\ Turns /\ Contents /\ SizeWithinCapacity

USE DEF Pushing, Popping

\* The invariant holds of a ring just constructed.
LEMMA InvInit == Init => RingInv
  <1> SUFFICES ASSUME Init PROVE RingInv
    OBVIOUS
  <1>1. 0 % Modulus = 0 /\ 0 \in 0..(Modulus - 1)
    BY ModulusFacts, ModSmall
  <1>2. TypeOK
    BY <1>1, ModulusFacts DEF Init, TypeOK, NoRow
  <1>3. Views /\ Turns /\ SizeWithinCapacity
    BY ModulusFacts DEF Init, Views, Turns, SizeWithinCapacity
  <1>4. Counters
    BY <1>1 DEF Init, Counters
  <1>5. Contents
    BY DEF Init, Contents
  <1> QED
    BY <1>2, <1>3, <1>4, <1>5 DEF RingInv

\* try_push's first comparison sends it to the slot only when one is free.
LEMMA InvPushBegin == ASSUME RingInv, PushBegin PROVE RingInv'
  <1> USE DEF PushBegin, consumerVars
  <1>1. TypeOK'
    BY DEF RingInv, TypeOK
  <1>2. Sub(head, tail_cache) = pushed - poppedSeen
    <2>1. pushed - poppedSeen \in 0..Capacity
      BY ModulusFacts DEF RingInv, TypeOK, Views
    <2> QED
      BY <2>1, CounterSub DEF RingInv, TypeOK, Counters
  <1>3. Turns'
    BY <1>2, ModulusFacts DEF RingInv, TypeOK, Turns
  <1>4. Views' /\ Counters' /\ SizeWithinCapacity'
    BY DEF RingInv, Views, Counters, SizeWithinCapacity
  <1>5. Contents'
    BY DEF RingInv, Contents
  <1> QED
    BY <1>1, <1>3, <1>4, <1>5 DEF RingInv

\* The acquire load of tail_ moves the producer's view forward, never past the pops.
LEMMA InvPushLoadTail == ASSUME RingInv, PushLoadTail PROVE RingInv'
  <1>1. PICK t \in poppedSeen..popped :
           /\ tail_cache' = t % Modulus /\ poppedSeen' = t
    BY DEF PushLoadTail
  <1>2. t \in Nat
    BY <1>1 DEF RingInv, TypeOK
  <1>3. tail_cache' \in 0..(Modulus - 1)
    BY <1>1, <1>2, CounterInc
  <1> USE DEF PushLoadTail, consumerVars
  <1>4. TypeOK'
    BY <1>1, <1>2, <1>3 DEF RingInv, TypeOK
  <1>5. Views'
    BY <1>1, <1>2, ModulusFacts DEF RingInv, TypeOK, Views
  <1>6. Counters'
    BY <1>1 DEF RingInv, Counters
  <1>7. Sub(head, tail_cache') = pushed - t
    <2>1. pushed - t \in 0..Capacity
      BY <1>1, <1>2, ModulusFacts DEF RingInv, TypeOK, Views
    <2> QED
      BY <1>1, <1>2, <2>1, CounterSub DEF RingInv, TypeOK, Counters
  <1>8. Turns'
    BY <1>1, <1>2, <1>7, ModulusFacts DEF RingInv, TypeOK, Turns
  <1>9. Contents' /\ SizeWithinCapacity'
    BY DEF RingInv, Contents, SizeWithinCapacity
  <1> QED
    BY <1>4, <1>5, <1>6, <1>8, <1>9 DEF RingInv

\* The write goes to a slot that holds no unread row.
LEMMA InvPushWrite == ASSUME RingInv, PushWrite PROVE RingInv'
  <1> USE DEF PushWrite, consumerVars
  <1>1. /\ SlotOf(head) = pushed % Capacity
        /\ pushed % Capacity \in 0..(Capacity - 1)
    BY CounterSlot DEF RingInv, TypeOK, Counters
  <1>2. TypeOK'
    BY <1>1 DEF RingInv, TypeOK
  <1>3. Views' /\ Counters' /\ SizeWithinCapacity'
    BY DEF RingInv, Views, Counters, SizeWithinCapacity
  <1>4. Turns'
    BY DEF RingInv, Turns
  <1>5. Contents'
    <2>1. slots'[pushed % Capacity] = pushed
      BY <1>1 DEF RingInv, TypeOK
    <2>2. ASSUME NEW i \in popped..(pushed - 1)
          PROVE  slots'[i % Capacity] = i
      <3>1. i \in Nat /\ pushed - i \in 1..(Capacity - 1)
        BY ModulusFacts DEF RingInv, TypeOK, Views, Turns
      <3>2. pushed % Capacity # i % Capacity
        BY <3>1, SlotsDistinct DEF RingInv, TypeOK
      <3>3. i % Capacity \in 0..(Capacity - 1)
        BY <3>1, CounterSlot
      <3>4. slots'[i % Capacity] = slots[i % Capacity]
        BY <1>1, <3>2, <3>3 DEF RingInv, TypeOK
      <3> QED
        BY <3>4 DEF RingInv, Contents
    <2> QED
      BY <2>1, <2>2 DEF RingInv, Contents
  <1> QED
    BY <1>2, <1>3, <1>4, <1>5 DEF RingInv

\* The release store of head_ adds the row just written to the contents.
LEMMA InvPushPublish == ASSUME RingInv, PushPublish PROVE RingInv'
  <1> USE DEF PushPublish, consumerVars
  <1>1. head' = (pushed + 1) % Modulus /\ pushed' \in Nat
    BY CounterInc DEF RingInv, TypeOK, Counters
  <1>2. head' \in 0..(Modulus - 1)
    BY <1>1, CounterInc
  <1>3. TypeOK'
    BY <1>1, <1>2 DEF RingInv, TypeOK
  <1>4. Views' /\ Turns'
    BY ModulusFacts DEF RingInv, TypeOK, Views, Turns
  <1>5. Counters'
    BY <1>1 DEF RingInv, Counters
  <1>6. Contents'
    <2>1. ASSUME NEW i \in popped..pushed
          PROVE  slots[i % Capacity] = i
      <3>1. CASE i = pushed
        BY <3>1 DEF RingInv, Contents
      <3>2. CASE i # pushed
        BY <3>2 DEF RingInv, Contents, TypeOK
      <3> QED
        BY <3>1, <3>2
    <2>2. pushed' - 1 = pushed
      BY DEF RingInv, TypeOK
    <2> QED
      BY <2>1, <2>2 DEF RingInv, Contents
  <1>7. SizeWithinCapacity'
    BY DEF RingInv, SizeWithinCapacity
  <1> QED
    BY <1>3, <1>4, <1>5, <1>6, <1>7 DEF RingInv

\* try_pop's first comparison sends it to the slot only when a row is there.
LEMMA InvPopBegin == ASSUME RingInv, PopBegin PROVE RingInv'
  <1> USE DEF PopBegin, producerVars
  <1>1. TypeOK'
    BY DEF RingInv, TypeOK
  <1>2. Views' /\ Counters' /\ SizeWithinCapacity'
    BY DEF RingInv, Views, Counters, SizeWithinCapacity
  <1>3. tail # head_cache => popped < pushedSeen
    BY DEF RingInv, TypeOK, Views, Counters
  <1>4. Turns' /\ Contents'
    BY <1>3 DEF RingInv, Turns, Contents
  <1> QED
    BY <1>1, <1>2, <1>4 DEF RingInv

\* The acquire load of head_ moves the consumer's view forward, never past the pushes.
LEMMA InvPopLoadHead == ASSUME RingInv, PopLoadHead PROVE RingInv'
  <1>1. PICK h \in pushedSeen..pushed :
           /\ head_cache' = h % Modulus /\ pushedSeen' = h
    BY DEF PopLoadHead
  <1>2. h \in Nat
    BY <1>1 DEF RingInv, TypeOK
  <1>3. head_cache' \in 0..(Modulus - 1)
    BY <1>1, <1>2, CounterInc
  <1> USE DEF PopLoadHead, producerVars
  <1>4. TypeOK'
    BY <1>1, <1>2, <1>3 DEF RingInv, TypeOK
  <1>5. Views'
    BY <1>1, <1>2 DEF RingInv, TypeOK, Views
  <1>6. Counters'
    BY <1>1 DEF RingInv, Counters
  <1>7. tail # head_cache' => popped < h
    BY <1>1, <1>2 DEF RingInv, TypeOK, Views, Counters
  <1>8. Turns' /\ Contents' /\ SizeWithinCapacity'
    BY <1>1, <1>7 DEF RingInv, Turns, Contents, SizeWithinCapacity
  <1> QED
    BY <1>4, <1>5, <1>6, <1>8 DEF RingInv

\* The copy reads the oldest unread row.
LEMMA InvPopCopy == ASSUME RingInv, PopCopy PROVE RingInv'
  <1> USE DEF PopCopy, producerVars
  <1>1. SlotOf(tail) = popped % Capacity
    BY CounterSlot DEF RingInv, TypeOK, Counters
  <1>2. popped \in popped..(pushed - 1)
    BY DEF RingInv, TypeOK, Views, Turns
  <1>3. out' = popped
    BY <1>1, <1>2 DEF RingInv, Contents
  <1>4. TypeOK'
    BY <1>3 DEF RingInv, TypeOK
  <1>5. Views' /\ Counters' /\ SizeWithinCapacity' /\ Turns'
    BY DEF RingInv, Views, Counters, SizeWithinCapacity, Turns
  <1>6. Contents'
    BY <1>3 DEF RingInv, Contents
  <1> QED
    BY <1>4, <1>5, <1>6 DEF RingInv

\* The release store of tail_ takes the row just copied out of the contents.
LEMMA InvPopFree == ASSUME RingInv, PopFree PROVE RingInv'
  <1> USE DEF PopFree, producerVars
  <1>1. tail' = (popped + 1) % Modulus /\ popped' \in Nat
    BY CounterInc DEF RingInv, TypeOK, Counters
  <1>2. tail' \in 0..(Modulus - 1)
    BY <1>1, CounterInc
  <1>3. TypeOK'
    BY <1>1, <1>2 DEF RingInv, TypeOK
  <1>4. Views' /\ Turns'
    BY DEF RingInv, TypeOK, Views, Turns
  <1>5. Counters'
    BY <1>1 DEF RingInv, Counters
  <1>6. Contents'
    <2>1. \A i \in popped'..(pushed' - 1) : i \in popped..(pushed - 1)
      BY DEF RingInv, TypeOK
    <2> QED
      BY <2>1 DEF RingInv, Contents
  <1>7. SizeWithinCapacity'
    BY DEF RingInv, SizeWithinCapacity
  <1> QED
    BY <1>3, <1>4, <1>5, <1>6, <1>7 DEF RingInv

\* size() computes a difference that cannot wrap, whichever of its loads is stale.
LEMMA InvSize == ASSUME RingInv, SizeByProducer \/ SizeByConsumer PROVE RingInv'
  <1>1. depth' \in 0..Capacity
    <2>1. CASE SizeByProducer
      <3>1. PICK t \in poppedSeen..popped : depth' = Sub(head, t % Modulus)
        BY <2>1 DEF SizeByProducer
      <3>2. t \in Nat /\ pushed - t \in 0..Capacity
        BY <3>1, ModulusFacts DEF RingInv, TypeOK, Views
      <3> QED
        BY <3>1, <3>2, CounterSub DEF RingInv, TypeOK, Counters
    <2>2. CASE SizeByConsumer
      <3>1. PICK h \in pushedSeen..pushed : depth' = Sub(h % Modulus, tail)
        BY <2>2 DEF SizeByConsumer
      <3>2. h \in Nat /\ h - popped \in 0..Capacity
        BY <3>1, ModulusFacts DEF RingInv, TypeOK, Views
      <3> QED
        BY <3>1, <3>2, CounterSub DEF RingInv, TypeOK, Counters
    <2> QED
      BY <2>1, <2>2
  <1>2. UNCHANGED <<slots, producerVars, consumerVars>>
    BY DEF SizeByProducer, SizeByConsumer
  <1> USE DEF producerVars, consumerVars
  <1>3. TypeOK' /\ SizeWithinCapacity'
    BY <1>1, <1>2, ModulusFacts DEF RingInv, TypeOK, SizeWithinCapacity
  <1>4. Views' /\ Counters' /\ Turns' /\ Contents'
    BY <1>2 DEF RingInv, Views, Counters, Turns, Contents
  <1> QED
    BY <1>3, <1>4 DEF RingInv

\* Every step keeps the invariant.
LEMMA InvNext == RingInv /\ [Next]_vars => RingInv'
  <1> SUFFICES ASSUME RingInv, [Next]_vars PROVE RingInv'
    OBVIOUS
  <1>1. CASE Producer
    BY <1>1, InvPushBegin, InvPushLoadTail, InvPushWrite, InvPushPublish, InvSize
       DEF Producer
  <1>2. CASE Consumer
    BY <1>2, InvPopBegin, InvPopLoadHead, InvPopCopy, InvPopFree, InvSize
       DEF Consumer
  <1>3. CASE UNCHANGED vars
    BY <1>3 DEF vars, RingInv, TypeOK, Views, Counters, Turns, Contents,
                SizeWithinCapacity
  <1> QED
    BY <1>1, <1>2, <1>3 DEF Next

\* The inductive invariant holds in every state of the ring, for every capacity,
\* counter width and number of rows.
THEOREM RingInvariant == Spec => []RingInv
  BY InvInit, InvNext, PTL DEF Spec

\* The counters stay inside size_t and the other variables keep their types.
THEOREM TypeCorrect == Spec => []TypeOK
  <1>1. RingInv => TypeOK
    BY DEF RingInv
  <1> QED
    BY <1>1, RingInvariant, PTL

\* What size() answers is an occupancy between 0 and the capacity.
THEOREM SizeBounded == Spec => []SizeWithinCapacity
  <1>1. RingInv => SizeWithinCapacity
    BY DEF RingInv
  <1> QED
    BY <1>1, RingInvariant, PTL

\* No access to a slot races with one of the other thread: the two acquire/release
\* pairs of try_push and try_pop order every pair of conflicting accesses.
THEOREM RaceFreedom == Spec => []NoDataRace
  <1>1. ASSUME RingInv PROVE NoDataRace
    <2>1. ppc = "write" => pushed < poppedSeen + Capacity /\ poppedSeen <= popped
      BY <1>1 DEF RingInv, Turns, Views
    <2>2. cpc = "copy" => popped < pushedSeen /\ pushedSeen <= pushed
      BY <1>1 DEF RingInv, Turns, Views
    <2>3. ASSUME ppc = "write", cpc = "copy" PROVE SlotOf(head) # SlotOf(tail)
      <3>1. pushed - popped \in 1..(Capacity - 1)
        BY <1>1, <2>3, ModulusFacts DEF RingInv, TypeOK, Views, Turns
      <3>2. pushed % Capacity # popped % Capacity
        BY <1>1, <3>1, SlotsDistinct DEF RingInv, TypeOK
      <3> QED
        BY <1>1, <3>2, CounterSlot DEF RingInv, TypeOK, Counters
    <2> QED
      BY <2>1, <2>2, <2>3 DEF NoDataRace
  <1> QED
    BY <1>1, RingInvariant, PTL

-----------------------------------------------------------------------------
(* The ring implements the queue and its two calls.                        *)

\* The refinement mapping of the queue, as in SpscRing.
queue == [i \in 1..(pushed - popped) |-> slots[(popped + i - 1) % Capacity]]

\* The mapped queue holds the rows popped .. pushed - 1.
QueueContents ==
    /\ queue = [i \in 1..(pushed - popped) |-> popped + i - 1]
    /\ queue \in Seq(Nat)
    /\ Len(queue) = pushed - popped

\* In terms of row numbers the contents are the unread rows in order.
LEMMA Contiguous == RingInv => QueueContents
  <1> SUFFICES ASSUME RingInv PROVE QueueContents
    OBVIOUS
  <1>1. ASSUME NEW i \in 1..(pushed - popped)
        PROVE  slots[(popped + i - 1) % Capacity] = popped + i - 1
    <2>1. popped + i - 1 \in popped..(pushed - 1)
      BY DEF RingInv, TypeOK
    <2> QED
      BY <2>1 DEF RingInv, Contents
  <1>2. queue = [i \in 1..(pushed - popped) |-> popped + i - 1]
    BY <1>1 DEF queue
  <1>3. pushed - popped \in Nat
    BY DEF RingInv, TypeOK, Views
  <1>4. queue \in Seq(Nat) /\ Len(queue) = pushed - popped
    BY <1>2, <1>3 DEF RingInv, TypeOK
  <1> QED
    BY <1>2, <1>4 DEF QueueContents

\* The producer's and the consumer's call, as in SpscRing.
pushCall == IF Pushing THEN "called" ELSE ppc
popCall == IF Popping THEN "called" ELSE cpc

\* A ring just constructed is an empty queue, and nobody has called it.
LEMMA RefinesInit == Init => Queue!CallsInit
  <1> SUFFICES ASSUME Init PROVE Queue!CallsInit
    OBVIOUS
  <1>1. [i \in 1..(pushed - popped) |-> slots[(popped + i - 1) % Capacity]] = << >>
    BY DEF Init
  <1> QED
    BY <1>1 DEF Init, NoRow, Queue!CallsInit, Queue!Init, Queue!NoRow

\* try_push's release store is the abstract push, and answers true.
LEMMA RefinesPublish ==
    ASSUME RingInv, QueueContents, QueueContents', PushPublish
    PROVE  Queue!CallsNext
  <1>1. /\ pushed \in Nat /\ popped \in Nat /\ poppedSeen \in Nat /\ pushedSeen \in Nat
        /\ popped <= pushed /\ pushed < poppedSeen + Capacity /\ pushed < MaxRows
        /\ pushed' = pushed + 1 /\ popped' = popped
        /\ UNCHANGED <<poppedSeen, pushedSeen, delivered>>
    BY DEF RingInv, TypeOK, Views, Turns, PushPublish, consumerVars
  <1>2. queue' = Append(queue, pushed)
    BY <1>1 DEF QueueContents
  <1>3. Len(queue) = pushed - popped
    BY DEF QueueContents
  <1>4. Len(queue) + (popped - poppedSeen) < Capacity
    BY <1>1, <1>3, RingAssumption
  <1>5. /\ (pushed - pushedSeen)' = (pushed - pushedSeen) + 1
        /\ UNCHANGED <<popped - poppedSeen, delivered>>
    BY <1>1
  <1>6. pushed \in 0..(MaxRows - 1)
    BY <1>1, RingAssumption
  <1>7. pushCall = "called" /\ pushCall' = "accepted" /\ popCall' = popCall
    BY DEF PushPublish, consumerVars, pushCall, popCall
  <1>8. \E r \in 0..(MaxRows - 1) : Queue!Accept(r)
    BY <1>2, <1>4, <1>5, <1>6, <1>7
       DEF queue, pushCall, popCall, Queue!Accept, Queue!Push
  <1> QED
    BY <1>8 DEF Queue!CallsNext

\* try_pop's release store is the abstract pop: it answers true, with the oldest row.
LEMMA RefinesFree ==
    ASSUME RingInv, QueueContents, QueueContents', PopFree
    PROVE  Queue!CallsNext
  <1>1. /\ pushed \in Nat /\ popped \in Nat /\ poppedSeen \in Nat /\ pushedSeen \in Nat
        /\ popped < pushedSeen /\ pushedSeen <= pushed
        /\ popped' = popped + 1 /\ pushed' = pushed
        /\ UNCHANGED <<poppedSeen, pushedSeen>>
        /\ delivered' = popped
    BY DEF RingInv, TypeOK, Views, Turns, Contents, PopFree, producerVars
  <1>2. queue' = Tail(queue)
    BY <1>1 DEF QueueContents
  <1>3. Head(queue) = popped
    BY <1>1 DEF QueueContents
  <1>4. Len(queue) = pushed - popped
    BY DEF QueueContents
  <1>5. pushed - pushedSeen < Len(queue)
    BY <1>1, <1>4
  <1>6. /\ UNCHANGED (pushed - pushedSeen)
        /\ (popped - poppedSeen)' = (popped - poppedSeen) + 1
    BY <1>1
  <1>7. popCall = "called" /\ popCall' = "popped" /\ pushCall' = pushCall
    BY DEF PopFree, producerVars, pushCall, popCall
  <1>8. Queue!Deliver
    BY <1>1, <1>2, <1>3, <1>5, <1>6, <1>7
       DEF queue, pushCall, popCall, Queue!Deliver, Queue!Pop
  <1> QED
    BY <1>8 DEF Queue!CallsNext

\* The acquire load of tail_ is the producer's look at the queue: it goes on to the
\* slot, or refuses because the tail it has just loaded leaves none.
LEMMA RefinesLoadTail ==
    ASSUME RingInv, QueueContents, PushLoadTail
    PROVE  Queue!CallsNext
  <1>1. PICK t \in poppedSeen..popped : tail_cache' = t % Modulus /\ poppedSeen' = t
    BY DEF PushLoadTail
  <1>2. t \in Nat /\ popped - t \in 0..(popped - poppedSeen)
    BY <1>1 DEF RingInv, TypeOK, Views
  <1>3. (popped - poppedSeen)' = popped - t
    BY <1>1 DEF PushLoadTail, consumerVars
  <1>4. UNCHANGED <<queue, pushed - pushedSeen, delivered>>
    BY DEF queue, PushLoadTail, consumerVars
  <1>5. Queue!LearnFreed
    BY <1>2, <1>3, <1>4 DEF queue, Queue!LearnFreed
  <1>6. pushCall = "called" /\ popCall' = popCall
    BY DEF PushLoadTail, consumerVars, pushCall, popCall
  <1>7. Sub(head, tail_cache') = pushed - t
    <2>1. pushed - t \in 0..Capacity
      BY <1>1, <1>2, ModulusFacts DEF RingInv, TypeOK, Views
    <2> QED
      BY <1>1, <1>2, <2>1, CounterSub DEF RingInv, TypeOK, Counters
  <1>8. CASE ppc' = "refused"
    <2>1. pushed - t >= Capacity
      BY <1>7, <1>8 DEF PushLoadTail
    <2>2. Len(queue) + (popped - poppedSeen)' >= Capacity
      <3>1. Len(queue) = pushed - popped
        BY DEF QueueContents
      <3>2. (pushed - popped) + (popped - t) = pushed - t
        BY <1>2 DEF RingInv, TypeOK
      <3> QED
        BY <1>3, <2>1, <3>1, <3>2
    <2>3. pushCall' = "refused"
      BY <1>8 DEF pushCall
    <2>4. Queue!Refuse
      BY <1>5, <1>6, <2>2, <2>3 DEF queue, pushCall, popCall, Queue!Refuse
    <2> QED
      BY <2>4 DEF Queue!CallsNext
  <1>9. CASE ppc' = "write"
    <2>1. pushCall' = "called"
      BY <1>9 DEF pushCall
    <2>2. Queue!LookAtTail
      BY <1>5, <1>6, <2>1 DEF pushCall, popCall, Queue!LookAtTail
    <2> QED
      BY <2>2 DEF Queue!CallsNext
  <1> QED
    BY <1>8, <1>9 DEF PushLoadTail

\* The acquire load of head_ is the consumer's look at the queue: it goes on to the
\* slot, or finds nothing because the head it has just loaded leaves no row.
LEMMA RefinesLoadHead ==
    ASSUME RingInv, QueueContents, PopLoadHead
    PROVE  Queue!CallsNext
  <1>1. PICK h \in pushedSeen..pushed : head_cache' = h % Modulus /\ pushedSeen' = h
    BY DEF PopLoadHead
  <1>2. h \in Nat /\ pushed - h \in 0..(pushed - pushedSeen)
    BY <1>1 DEF RingInv, TypeOK, Views
  <1>3. (pushed - pushedSeen)' = pushed - h
    BY <1>1 DEF PopLoadHead, producerVars
  <1>4. UNCHANGED <<queue, popped - poppedSeen, delivered>>
    BY DEF queue, PopLoadHead, producerVars
  <1>5. Queue!LearnPushed
    BY <1>2, <1>3, <1>4 DEF queue, Queue!LearnPushed
  <1>6. popCall = "called" /\ pushCall' = pushCall
    BY DEF PopLoadHead, producerVars, pushCall, popCall
  <1>7. CASE cpc' = "empty"
    <2>1. popped % Modulus = h % Modulus
      BY <1>1, <1>7 DEF PopLoadHead, RingInv, Counters
    <2>2. h = popped
      <3>1. h - popped \in 0..Capacity
        BY <1>1, <1>2, ModulusFacts DEF RingInv, TypeOK, Views
      <3> QED
        BY <1>2, <2>1, <3>1, CounterEqual DEF RingInv, TypeOK
    <2>3. (pushed - pushedSeen)' = Len(queue)
      BY <1>3, <2>2 DEF QueueContents
    <2>4. popCall' = "empty"
      BY <1>7 DEF popCall
    <2>5. Queue!FindEmpty
      BY <1>5, <1>6, <2>3, <2>4 DEF queue, pushCall, popCall, Queue!FindEmpty
    <2> QED
      BY <2>5 DEF Queue!CallsNext
  <1>8. CASE cpc' = "copy"
    <2>1. popCall' = "called"
      BY <1>8 DEF popCall
    <2>2. Queue!LookAtHead
      BY <1>5, <1>6, <2>1 DEF pushCall, popCall, Queue!LookAtHead
    <2> QED
      BY <2>2 DEF Queue!CallsNext
  <1> QED
    BY <1>7, <1>8 DEF PopLoadHead

\* Every step of the ring is a step of the queue's calls or leaves them alone.
LEMMA RefinesNext ==
    RingInv /\ QueueContents /\ QueueContents' /\ [Next]_vars
        => [Queue!CallsNext]_(Queue!callVars)
  <1> SUFFICES ASSUME RingInv, QueueContents, QueueContents', [Next]_vars
               PROVE  [Queue!CallsNext]_(Queue!callVars)
    OBVIOUS
  <1>1. CASE PushPublish
    BY <1>1, RefinesPublish
  <1>2. CASE PopFree
    BY <1>2, RefinesFree
  <1>3. CASE PushLoadTail
    BY <1>3, RefinesLoadTail
  <1>4. CASE PopLoadHead
    BY <1>4, RefinesLoadHead
  <1>5. CASE \/ PushBegin \/ PushWrite \/ SizeByProducer
             \/ PopBegin \/ PopCopy \/ SizeByConsumer \/ UNCHANGED vars
    <2>1. UNCHANGED <<pushed, popped, pushedSeen, poppedSeen, delivered>>
      BY <1>5 DEF PushBegin, PushWrite, SizeByProducer, PopBegin, PopCopy,
                  SizeByConsumer, vars, producerVars, consumerVars
    <2>2. UNCHANGED queue
      BY <2>1 DEF QueueContents
    <2>3. UNCHANGED Queue!queueVars
      BY <2>1, <2>2 DEF queue, Queue!queueVars
    <2>4. CASE PushBegin
      <3>1. pushCall # "called" /\ pushCall' = "called" /\ popCall' = popCall
        BY <2>4 DEF PushBegin, consumerVars, pushCall, popCall, RingInv, TypeOK
      <3>2. Queue!CallPush
        BY <2>3, <3>1 DEF pushCall, popCall, Queue!CallPush
      <3> QED
        BY <3>2 DEF Queue!CallsNext
    <2>5. CASE PopBegin
      <3>1. popCall # "called" /\ popCall' = "called" /\ pushCall' = pushCall
        BY <2>5 DEF PopBegin, producerVars, pushCall, popCall, RingInv, TypeOK
      <3>2. Queue!CallPop
        BY <2>3, <3>1 DEF pushCall, popCall, Queue!CallPop
      <3> QED
        BY <3>2 DEF Queue!CallsNext
    <2>6. CASE PushWrite \/ SizeByProducer \/ PopCopy \/ SizeByConsumer \/ UNCHANGED vars
      <3>1. pushCall' = pushCall /\ popCall' = popCall
        BY <2>6 DEF PushWrite, SizeByProducer, PopCopy, SizeByConsumer, vars,
                    producerVars, consumerVars, pushCall, popCall
      <3> QED
        BY <2>3, <3>1 DEF pushCall, popCall, Queue!callVars, Queue!queueVars
    <2> QED
      BY <1>5, <2>4, <2>5, <2>6
  <1> QED
    BY <1>1, <1>2, <1>3, <1>4, <1>5 DEF Next, Producer, Consumer

\* try_push and try_pop implement the calls of the bounded FIFO queue (SpscCalls):
\* rows come out whole, once each and in order, and a call answers false only when
\* the index it has just loaded leaves it no slot or no row, across any overflow of
\* the counters.
THEOREM RingImplementsQueue == Spec => ImplementsQueue
  <1>1. Spec => [](RingInv /\ QueueContents)
    BY RingInvariant, Contiguous, PTL
  <1> QED
    BY <1>1, RefinesInit, RefinesNext, PTL DEF Spec, ImplementsQueue, Queue!CallsSpec

=============================================================================
