--------------------------- MODULE FirePathProofs ---------------------------
(***************************************************************************)
(* What handle_fire never does with a real order, for every price, every   *)
(* grid a wake carries, every TTL and any length of run: dispatch it past  *)
(* a kill switch that was due, or at a price its frame did not carry.      *)
(*                                                                         *)
(* The price rests on arithmetic: snap_to_grid gives the nearest multiple, *)
(* wherever the quotient of its doubles comes out.  The switch rests on    *)
(* SwitchInv, the invariant of is_engaged() on its own: nothing between    *)
(* the answer and the dispatch asks the switch again, so the answer that   *)
(* let the order pass is the last one.                                     *)
(*                                                                         *)
(* And the codec of protocol.cpp, through which every frame reaches the    *)
(* fire path: the messages and lengths it sends are read back, whatever    *)
(* body they were first decoded from.                                      *)
(***************************************************************************)
EXTENDS FirePath, MCPricing, MCWakeCodec, SequenceFacts, FiniteSetTheorems, TLAPS

-----------------------------------------------------------------------------
(* The kill switch, for every TTL and every run of the clock.              *)
(*                                                                         *)
(* HonouredWithinTtl speaks of the moment an answer is given.  What makes  *)
(* it inductive is CacheIsYoung: a cached answer that is out of date was   *)
(* taken before the change, so it expires no later than the change is due. *)

\* A cached answer that no longer matches the file expires before the change has
\* to be honoured.
CacheIsYoung ==
    has_cached /\ cached # (file /\ ~misread) => checked_at + Ttl <= due

\* The inductive invariant.
SwitchInv == SwitchTypeOK /\ CacheIsYoung /\ HonouredWithinTtl

\* The invariant holds of a switch just constructed.
LEMMA SwitchInvInit == SwitchInit => SwitchInv
  <1> SUFFICES ASSUME SwitchInit PROVE SwitchInv
    OBVIOUS
  <1>1. Grace \in Nat
    BY KillSwitchAssumption DEF Grace
  <1>2. SwitchTypeOK
    <2>1. /\ now \in 0..MaxTime /\ asked_at \in 0..now /\ checked_at \in 0..now
          /\ due \in 0..(MaxTime + Grace)
      BY <1>1, KillSwitchAssumption DEF SwitchInit
    <2>2. /\ file \in BOOLEAN /\ has_cached \in BOOLEAN /\ cached \in BOOLEAN
          /\ answer \in BOOLEAN /\ misread \in BOOLEAN
          /\ kpc \in {"idle", "stat", "answered"}
      BY Zenon DEF SwitchInit
    <2> QED
      BY <2>1, <2>2, Zenon DEF SwitchTypeOK
  <1>3. CacheIsYoung /\ HonouredWithinTtl
    BY DEF SwitchInit, CacheIsYoung, HonouredWithinTtl
  <1> QED
    BY <1>2, <1>3 DEF SwitchInv

\* Every step keeps the invariant: in particular is_engaged(), which stamps its
\* answer with the time it read before the stat.
LEMMA SwitchInvNext == SwitchInv /\ [SwitchNext]_switchVars => SwitchInv'
  <1> SUFFICES ASSUME SwitchInv, [SwitchNext]_switchVars PROVE SwitchInv'
    OBVIOUS
  <1>0. Grace \in Nat /\ Grace >= Ttl /\ Grace >= 1
    BY KillSwitchAssumption DEF Grace
  <1> USE KillSwitchAssumption
      DEF SwitchInv, SwitchTypeOK, CacheIsYoung, HonouredWithinTtl, cacheVars
  <1>1. CASE AskSwitch
    BY <1>1 DEF AskSwitch
  <1>2. CASE StatSwitch
    <2>1. cached' = (file' /\ ~misread') /\ misread' \in BOOLEAN /\ cached' \in BOOLEAN
      BY <1>2, Zenon DEF StatSwitch
    <2>2. SwitchTypeOK'
      BY <1>2, <2>1 DEF StatSwitch
    <2>3. CacheIsYoung' /\ HonouredWithinTtl'
      BY <1>2, <2>1 DEF StatSwitch
    <2> QED
      BY <2>2, <2>3
  <1>3. CASE Engage
    <2>1. due' \in 0..(MaxTime + Grace)
      BY <1>0, <1>3 DEF Engage, Earlier
    <2>2. SwitchTypeOK'
      <3>1. /\ now' \in 0..MaxTime /\ asked_at' \in 0..now' /\ checked_at' \in 0..now'
        BY <1>3 DEF Engage, Invalidate
      <3>2. /\ file' \in BOOLEAN /\ has_cached' \in BOOLEAN /\ cached' \in BOOLEAN
            /\ answer' \in BOOLEAN /\ misread' \in BOOLEAN
            /\ kpc' \in {"idle", "stat", "answered"}
        BY <1>3, Zenon DEF Engage, Invalidate
      <3> QED
        BY <1>0, <2>1, <3>1, <3>2, Zenon DEF Grace
    <2>3. CacheIsYoung' /\ HonouredWithinTtl'
      BY <1>3 DEF Engage, Invalidate
    <2> QED
      BY <2>2, <2>3
  <1>4. CASE Release
    <2>1. due' \in 0..(MaxTime + Grace)
      BY <1>0, <1>4 DEF Release, Earlier
    <2>2. SwitchTypeOK'
      <3>1. /\ now' \in 0..MaxTime /\ asked_at' \in 0..now' /\ checked_at' \in 0..now'
        BY <1>4 DEF Release, Invalidate
      <3>2. /\ file' \in BOOLEAN /\ has_cached' \in BOOLEAN /\ cached' \in BOOLEAN
            /\ answer' \in BOOLEAN /\ misread' \in BOOLEAN
            /\ kpc' \in {"idle", "stat", "answered"}
        BY <1>4, Zenon DEF Release, Invalidate
      <3> QED
        BY <1>0, <2>1, <3>1, <3>2, Zenon DEF Grace
    <2>3. CacheIsYoung' /\ HonouredWithinTtl'
      BY <1>4 DEF Release, Invalidate
    <2> QED
      BY <2>2, <2>3
  <1>5. CASE OperatorToggles
    <2>1. due' = now + Grace /\ due' \in 0..(MaxTime + Grace)
      BY <1>0, <1>5 DEF OperatorToggles
    <2>2. SwitchTypeOK'
      BY <1>5, <2>1 DEF OperatorToggles
    <2>3. CacheIsYoung' /\ HonouredWithinTtl'
      BY <1>0, <1>5, <2>1 DEF OperatorToggles
    <2> QED
      BY <2>2, <2>3
  <1>6. CASE Tick
    BY <1>6 DEF Tick
  <1>7. CASE UNCHANGED switchVars
    BY <1>7 DEF switchVars
  <1> QED
    BY <1>1, <1>2, <1>3, <1>4, <1>5, <1>6, <1>7 DEF SwitchNext

\* is_engaged() knows of the operator's last change ttl_ns after it, and of the
\* process's own at once, whatever the TTL; only a stat that failed hides it.
THEOREM SwitchHonoured == SwitchSpec => []HonouredWithinTtl
  <1>1. SwitchSpec => []SwitchInv
    BY SwitchInvInit, SwitchInvNext, PTL DEF SwitchSpec
  <1>2. SwitchInv => HonouredWithinTtl
    BY DEF SwitchInv
  <1> QED
    BY <1>1, <1>2, PTL

-----------------------------------------------------------------------------
(* Rounding.                                                               *)

\* m multiples of d are as close to n as any.
Near(n, m, d) == 2 * (n - m * d) <= d /\ -d <= 2 * (n - m * d)

\* std::round of a quotient is a nearest integer.
LEMMA RoundHalfAwayNear ==
  ASSUME NEW n \in Int, NEW d \in Nat \ {0}
  PROVE  RoundHalfAway(n, d) \in Int /\ Near(n, RoundHalfAway(n, d), d)
  <1>1. 2 * d \in Nat \ {0}
    OBVIOUS
  <1>2. CASE n >= 0
    <2> DEFINE r == (2 * n + d) \div (2 * d)
    <2>1. r \in Int /\ (2 * d) * r <= 2 * n + d /\ 2 * n + d < (2 * d) * r + 2 * d
      BY <1>1
    <2>2. RoundHalfAway(n, d) = r
      BY <1>2 DEF RoundHalfAway
    <2> HIDE DEF r
    <2> QED
      BY <2>1, <2>2 DEF Near
  <1>3. CASE n < 0
    <2> DEFINE r == (d - 2 * n) \div (2 * d)
    <2>1. r \in Int /\ (2 * d) * r <= d - 2 * n /\ d - 2 * n < (2 * d) * r + 2 * d
      BY <1>1
    <2>2. RoundHalfAway(n, d) = -r
      BY <1>3 DEF RoundHalfAway
    <2> HIDE DEF r
    <2> QED
      BY <2>1, <2>2 DEF Near
  <1> QED
    BY <1>2, <1>3

\* round_half_even too, and half-way between two integers it gives the even one:
\* doubling the rounded half never leaves the two neighbours.
LEMMA RoundHalfEvenNear ==
  ASSUME NEW n \in Int, NEW d \in Nat \ {0}
  PROVE  /\ RoundHalfEven(n, d) \in Int
         /\ Near(n, RoundHalfEven(n, d), d)
         /\ Abs(2 * (n - RoundHalfEven(n, d) * d)) = d =>
               \E h \in Int : RoundHalfEven(n, d) = 2 * h
  <1> DEFINE r == RoundHalfAway(n, d)
             h == RoundHalfAway(n, 2 * d)
  <1>1. r \in Int /\ Near(n, r, d)
    BY RoundHalfAwayNear
  <1>2. h \in Int /\ Near(n, h, 2 * d)
    <2>1. 2 * d \in Nat \ {0}
      OBVIOUS
    <2> QED
      BY <2>1, RoundHalfAwayNear
  <1>3. RoundHalfEven(n, d) = IF Abs(2 * (n - r * d)) = d THEN 2 * h ELSE r
    BY DEF RoundHalfEven
  <1> HIDE DEF r, h
  <1>4. CASE Abs(2 * (n - r * d)) = d
    <2>1. PICK e \in {-1, 1} : 2 * (n - r * d) = e * d
      BY <1>1, <1>4 DEF Abs
    <2>2. 2 * (n - (2 * h) * d) = (2 * (r - 2 * h) + e) * d
      BY <1>1, <1>2, <2>1
    <2>3. n - (2 * h) * d <= d /\ -d <= n - (2 * h) * d
      BY <1>2 DEF Near
    <2> DEFINE k == 2 * (r - 2 * h) + e
    <2>4. k \in Int /\ k * d <= 2 * d /\ -(2 * d) <= k * d
      BY <1>1, <1>2, <2>1, <2>2, <2>3
    <2>5. k \in -2..2
      <3> HIDE DEF k
      <3> QED
        BY <2>4
    <2>6. k \in {-1, 1}
      BY <1>1, <1>2, <2>5
    <2>7. Near(n, 2 * h, d)
      <3> HIDE DEF k
      <3> QED
        BY <2>2, <2>6 DEF Near, k
    <2> QED
      BY <1>2, <1>3, <1>4, <2>7
  <1>5. CASE Abs(2 * (n - r * d)) # d
    BY <1>1, <1>3, <1>5
  <1> QED
    BY <1>4, <1>5

PriceRanges == Seq([start : Int, end : Int, step : Int])

\* The step snap_to_grid uses is a cent or that of a range that covers the price,
\* and never the zero or negative step a frame may carry.
LEMMA StepForPositive ==
  ASSUME NEW price \in Int, NEW ranges \in PriceRanges
  PROVE  StepFor(price, ranges) \in Nat \ {0}
  <1> DEFINE covering == {i \in DOMAIN ranges : Covers(ranges[i], price)}
  <1>1. CASE covering = {}
    BY <1>1, PricingAssumption DEF StepFor
  <1>2. CASE covering # {}
    <2> DEFINE first == CHOOSE i \in covering : \A j \in covering : i <= j
    <2>1. DOMAIN ranges \subseteq Nat
      BY DEF PriceRanges
    <2>2. \E i \in covering : \A j \in covering : i <= j
      BY <1>2, <2>1, FirstExists
    <2>3. first \in covering
      <3> HIDE DEF covering
      <3> QED
        BY <2>2
    <2>4. ranges[first].step \in Int /\ ranges[first].step > 0
      <3> HIDE DEF first
      <3>1. first \in DOMAIN ranges /\ ranges[first].step > 0
        BY <2>3 DEF Covers
      <3>2. first \in 1..Len(ranges)
        BY <3>1 DEF PriceRanges
      <3>3. ranges[first] \in [start : Int, end : Int, step : Int]
        BY <3>2, ElementOfSeq DEF PriceRanges
      <3> QED
        BY <3>1, <3>3
    <2>5. StepFor(price, ranges) = ranges[first].step
      BY <1>2 DEF StepFor
    <2> QED
      BY <2>4, <2>5
  <1> QED
    BY <1>1, <1>2

\* The rounded quotient is a nearest integer wherever the quotient comes out.  Half-way
\* between two it is the one on the quotient's side, or the even one.
LEMMA RoundedQuotientNear ==
  ASSUME NEW n \in Int, NEW d \in Nat \ {0}, NEW off \in Offsets
  PROVE  LET q == RoundedQuotient(n, d, off)
         IN  /\ q \in Int /\ Near(n, q, d)
             /\ 2 * (n - q * d) = d => off <= 0
             /\ 2 * (n - q * d) = -d => off >= 0
             /\ Abs(2 * (n - q * d)) = d /\ off = 0 => \E h \in Int : q = 2 * h
  <1> DEFINE q == RoundedQuotient(n, d, off)
  <1>1. off \in -1..1 /\ 4 * n + off \in Int /\ 4 * d \in Nat \ {0}
    BY DEF Offsets
  <1>2. /\ q \in Int /\ Near(4 * n + off, q, 4 * d)
        /\ Abs(2 * ((4 * n + off) - q * (4 * d))) = 4 * d => \E h \in Int : q = 2 * h
    <2> DEFINE a == 4 * n + off
               b == 4 * d
    <2>1. a \in Int /\ b \in Nat \ {0} /\ q = RoundHalfEven(a, b)
      BY <1>1 DEF RoundedQuotient
    <2> HIDE DEF a, b, q
    <2>2. /\ q \in Int /\ Near(a, q, b)
          /\ Abs(2 * (a - q * b)) = b => \E h \in Int : q = 2 * h
      BY <2>1, RoundHalfEvenNear
    <2> QED
      BY <2>2, Zenon DEF a, b
  <1> HIDE DEF q
  <1>3. q * (4 * d) = 4 * (q * d) /\ q * d \in Int
    BY <1>2
  <1> DEFINE x == n - q * d
  <1>4. x \in Int /\ 2 * ((4 * n + off) - q * (4 * d)) = 8 * x + 2 * off
    BY <1>1, <1>3
  <1> HIDE DEF x
  <1>5. 8 * x + 2 * off <= 4 * d /\ -(4 * d) <= 8 * x + 2 * off
    <2>1. /\ 2 * ((4 * n + off) - q * (4 * d)) <= 4 * d
          /\ -(4 * d) <= 2 * ((4 * n + off) - q * (4 * d))
      BY <1>2, Zenon DEF Near
    <2> QED
      BY <1>4, <2>1
  <1>6. 2 * x <= d /\ -d <= 2 * x /\ (2 * x = d => off <= 0) /\ (2 * x = -d => off >= 0)
    BY <1>1, <1>4, <1>5
  <1>7. Abs(2 * x) = d /\ off = 0 => Abs(8 * x + 2 * off) = 4 * d
    BY <1>4 DEF Abs
  <1> QED
    BY <1>2, <1>4, <1>6, <1>7 DEF x, q, Near

\* snap_to_grid, for every price, every list of ranges and wherever the quotient comes
\* out: the nearest multiple of the step of the range it uses, and half-way between two
\* the one on the quotient's side, or the even one when the quotient is a half.
THEOREM SnapIsNearest ==
  ASSUME NEW price \in Int, NEW ranges \in PriceRanges, NEW off \in Offsets
  PROVE  LET step == StepFor(price, ranges)
             snapped == SnapToGrid(price, ranges, off)
         IN  \E m \in Int :
               /\ snapped = m * step
               /\ Abs(2 * (snapped - price)) <= step
               /\ Abs(2 * (snapped - price)) = step =>
                     /\ off < 0 => snapped < price
                     /\ off > 0 => snapped > price
                     /\ off = 0 => \E h \in Int : m = 2 * h
  <1> DEFINE step == StepFor(price, ranges)
             m == RoundedQuotient(price, step, off)
  <1>1. step \in Nat \ {0}
    BY StepForPositive
  <1>2. SnapToGrid(price, ranges, off) = m * step
    BY DEF SnapToGrid
  <1> HIDE DEF step
  <1>3. /\ m \in Int /\ Near(price, m, step)
        /\ 2 * (price - m * step) = step => off <= 0
        /\ 2 * (price - m * step) = -step => off >= 0
        /\ Abs(2 * (price - m * step)) = step /\ off = 0 => \E h \in Int : m = 2 * h
    BY <1>1, RoundedQuotientNear
  <1> HIDE DEF m
  <1>4. m * step \in Int /\ off \in -1..1
    BY <1>1, <1>3 DEF Offsets
  <1>5. Abs(2 * (m * step - price)) = Abs(2 * (price - m * step))
    BY <1>4 DEF Abs
  <1>6. Abs(2 * (m * step - price)) <= step
    BY <1>1, <1>3, <1>4 DEF Abs, Near
  <1>7. Abs(2 * (price - m * step)) = step =>
           (off < 0 => m * step < price) /\ (off > 0 => m * step > price)
    BY <1>1, <1>3, <1>4 DEF Abs
  <1> QED
    BY <1>2, <1>3, <1>5, <1>6, <1>7 DEF step

-----------------------------------------------------------------------------
(* Snapping a snapped price.                                               *)

Multiple(x, d) == \E m \in Int : x = m * d

\* Rounding to multiples of d does not cross one.
LEMMA RoundKeepsSide ==
  ASSUME NEW n \in Int, NEW d \in Nat \ {0}, NEW off \in Offsets, NEW k \in Int
  PROVE  /\ n <= k * d => RoundedQuotient(n, d, off) * d <= k * d
         /\ k * d <= n => k * d <= RoundedQuotient(n, d, off) * d
  <1> DEFINE r == RoundedQuotient(n, d, off)
  <1>1. r \in Int /\ Near(n, r, d)
    BY RoundedQuotientNear
  <1> HIDE DEF r
  <1>2. \A a, b \in Int : a <= b => a * d <= b * d
    OBVIOUS
  <1>3. \A a \in Int : (a + 1) * d = a * d + d /\ a * d \in Int
    OBVIOUS
  <1>4. r <= k \/ k + 1 <= r
    BY <1>1
  <1>5. k <= r \/ r + 1 <= k
    BY <1>1
  <1>6. ASSUME n <= k * d PROVE r * d <= k * d
    <2>1. CASE r <= k
      BY <1>1, <1>2, <2>1
    <2>2. CASE k + 1 <= r
      <3>1. k * d + d <= r * d
        BY <1>1, <1>2, <1>3, <2>2
      <3>2. -d <= 2 * (n - r * d)
        BY <1>1 DEF Near
      <3> QED
        BY <1>1, <1>3, <1>6, <3>1, <3>2
    <2> QED
      BY <1>4, <2>1, <2>2
  <1>7. ASSUME k * d <= n PROVE k * d <= r * d
    <2>1. CASE k <= r
      BY <1>1, <1>2, <2>1
    <2>2. CASE r + 1 <= k
      <3>1. r * d + d <= k * d
        BY <1>1, <1>2, <1>3, <2>2
      <3>2. 2 * (n - r * d) <= d
        BY <1>1 DEF Near
      <3> QED
        BY <1>1, <1>3, <1>7, <3>1, <3>2
    <2> QED
      BY <1>5, <2>1, <2>2
  <1> QED
    BY <1>6, <1>7 DEF r

\* A multiple stays where it is.
LEMMA RoundOfMultiple ==
  ASSUME NEW n \in Int, NEW d \in Nat \ {0}, NEW off \in Offsets,
         Multiple(n, d)
  PROVE  RoundedQuotient(n, d, off) * d = n
  <1>1. PICK k \in Int : n = k * d
    BY DEF Multiple
  <1>2. /\ RoundedQuotient(n, d, off) * d <= k * d
        /\ k * d <= RoundedQuotient(n, d, off) * d
    BY <1>1, RoundKeepsSide
  <1>3. RoundedQuotient(n, d, off) * d \in Int
    BY RoundedQuotientNear
  <1> QED
    BY <1>1, <1>2, <1>3

IsFirstCover(i, price, ranges) ==
    /\ i \in DOMAIN ranges /\ Covers(ranges[i], price)
    /\ \A j \in DOMAIN ranges : Covers(ranges[j], price) => i <= j

\* The loop of snap_to_grid stops at the first range that covers the price.
LEMMA StepForFirst ==
  ASSUME NEW price \in Int, NEW ranges \in PriceRanges
  PROVE  \/ /\ \A j \in DOMAIN ranges : ~Covers(ranges[j], price)
            /\ StepFor(price, ranges) = CentGrid
         \/ \E i : IsFirstCover(i, price, ranges) /\ StepFor(price, ranges) = ranges[i].step
  <1> DEFINE covering == {i \in DOMAIN ranges : Covers(ranges[i], price)}
             first == CHOOSE i \in covering : \A j \in covering : i <= j
  <1>1. CASE covering = {}
    BY <1>1 DEF StepFor
  <1>2. CASE covering # {}
    <2>1. DOMAIN ranges \subseteq Nat
      BY DEF PriceRanges
    <2>2. \E i \in covering : \A j \in covering : i <= j
      BY <1>2, <2>1, FirstExists
    <2>3. first \in covering /\ \A j \in covering : first <= j
      <3> HIDE DEF covering
      <3> QED
        BY <2>2
    <2>4. StepFor(price, ranges) = ranges[first].step
      BY <1>2 DEF StepFor
    <2>5. IsFirstCover(first, price, ranges)
      <3> HIDE DEF first
      <3> QED
        BY <2>3 DEF IsFirstCover
    <2> QED
      BY <2>4, <2>5
  <1> QED
    BY <1>1, <1>2

\* The edges of every usable range are prices of its own grid, of the grid of cents
\* and of each later range they fall inside.
Aligned(ranges) ==
    \A j \in DOMAIN ranges : \A e \in {ranges[j].start, ranges[j].end} :
        ranges[j].step > 0 =>
          /\ Multiple(e, ranges[j].step) /\ Multiple(e, CentGrid)
          /\ \A i \in DOMAIN ranges : i > j /\ Covers(ranges[i], e) => Multiple(e, ranges[i].step)

\* A price outside a range whose edges are multiples of d is rounded to multiples of
\* d no further than to an edge.
LEMMA RoundedToEdge ==
  ASSUME NEW price \in Int, NEW d \in Nat \ {0}, NEW off \in Offsets,
         NEW start \in Int, NEW end \in Int, NEW s \in Int,
         s = RoundedQuotient(price, d, off) * d,
         ~(start <= price /\ price <= end), start <= s, s <= end,
         price < start => Multiple(start, d), end < price => Multiple(end, d)
  PROVE  s \in {start, end}
  <1>1. CASE price < start
    <2>1. PICK k \in Int : start = k * d
      BY <1>1 DEF Multiple
    <2>2. RoundedQuotient(price, d, off) * d <= k * d
      <3>1. price <= k * d
        BY <1>1, <2>1
      <3> QED
        BY <3>1, RoundKeepsSide
    <2>3. s <= start
      BY <2>1, <2>2, Zenon
    <2> QED
      BY <2>3
  <1>2. CASE end < price
    <2>1. PICK k \in Int : end = k * d
      BY <1>2 DEF Multiple
    <2>2. k * d <= RoundedQuotient(price, d, off) * d
      <3>1. k * d <= price
        BY <1>2, <2>1
      <3> QED
        BY <3>1, RoundKeepsSide
    <2>3. end <= s
      BY <2>1, <2>2, Zenon
    <2> QED
      BY <2>3
  <1> QED
    BY <1>1, <1>2

\* The types of what a range of the list holds.
LEMMA RangeTypes ==
  ASSUME NEW ranges \in PriceRanges, NEW i \in DOMAIN ranges
  PROVE  /\ i \in Nat
         /\ ranges[i].start \in Int /\ ranges[i].end \in Int /\ ranges[i].step \in Int
  <1>1. i \in 1..Len(ranges)
    BY DEF PriceRanges
  <1>2. ranges[i] \in [start : Int, end : Int, step : Int]
    BY <1>1, ElementOfSeq DEF PriceRanges
  <1> QED
    BY <1>1, <1>2

\* A snapped price is a price of the grid, whichever range it is looked up in: on
\* aligned ranges, snapping again changes nothing, even where the snapped price has
\* moved onto the edge of a range that the price itself was not in, and wherever
\* either quotient comes out.
THEOREM SnapIsStable ==
  ASSUME NEW price \in Int, NEW ranges \in PriceRanges, Aligned(ranges),
         NEW off \in Offsets, NEW again \in Offsets
  PROVE  SnapToGrid(SnapToGrid(price, ranges, off), ranges, again)
            = SnapToGrid(price, ranges, off)
  <1> DEFINE d == StepFor(price, ranges)
             s == SnapToGrid(price, ranges, off)
             t == StepFor(s, ranges)
  <1>1. d \in Nat \ {0}
    BY StepForPositive
  <1>2. s = RoundedQuotient(price, d, off) * d
    BY DEF SnapToGrid
  <1>3. s \in Int /\ Multiple(s, d)
    <2>1. RoundedQuotient(price, d, off) \in Int
      BY <1>1, RoundedQuotientNear
    <2> QED
      BY <1>1, <1>2, <2>1 DEF Multiple
  <1> HIDE DEF s, d
  <1>4. t \in Nat \ {0}
    BY <1>3, StepForPositive
  <1> SUFFICES Multiple(s, t)
    <2>1. SnapToGrid(s, ranges, again) = RoundedQuotient(s, t, again) * t
      BY DEF SnapToGrid
    <2>2. RoundedQuotient(s, t, again) * t = s
      BY <1>3, <1>4, RoundOfMultiple
    <2> QED
      BY <2>1, <2>2 DEF s
  \* The range that covers the price covers the snapped price.
  <1>5. ASSUME NEW i \in DOMAIN ranges, Covers(ranges[i], price), d = ranges[i].step
        PROVE  Covers(ranges[i], s)
    <2>1. ranges[i].start \in Int /\ ranges[i].end \in Int
      BY RangeTypes
    <2>2. ranges[i].step > 0 /\ ranges[i].start <= price /\ price <= ranges[i].end
      BY <1>5 DEF Covers
    <2>3. PICK a \in Int : ranges[i].start = a * d
      BY <1>5, <2>2 DEF Aligned, Multiple
    <2>4. PICK b \in Int : ranges[i].end = b * d
      BY <1>5, <2>2 DEF Aligned, Multiple
    <2>5. ranges[i].start <= s
      BY <1>1, <1>2, <2>2, <2>3, RoundKeepsSide
    <2>6. s <= ranges[i].end
      BY <1>1, <1>2, <2>2, <2>4, RoundKeepsSide
    <2> QED
      BY <2>2, <2>5, <2>6 DEF Covers
  \* A range that covers the snapped price and not the price has it as an edge.
  <1>6. ASSUME NEW j \in DOMAIN ranges, Covers(ranges[j], s), ~Covers(ranges[j], price),
               \A e \in {ranges[j].start, ranges[j].end} :
                  (price < e /\ e <= s) \/ (s <= e /\ e < price) => Multiple(e, d)
        PROVE  Multiple(s, ranges[j].step)
    <2>1. ranges[j].start \in Int /\ ranges[j].end \in Int
      BY RangeTypes
    <2>2. ranges[j].step > 0 /\ ranges[j].start <= s /\ s <= ranges[j].end
      BY <1>6 DEF Covers
    <2>3. ~(ranges[j].start <= price /\ price <= ranges[j].end)
      BY <1>6, <2>2 DEF Covers
    <2>4. /\ price < ranges[j].start => Multiple(ranges[j].start, d)
          /\ ranges[j].end < price => Multiple(ranges[j].end, d)
      BY <1>6, <2>2
    <2>5. s \in {ranges[j].start, ranges[j].end}
      BY <1>1, <1>2, <1>3, <2>1, <2>2, <2>3, <2>4, RoundedToEdge
    <2> QED
      BY <2>2, <2>5 DEF Aligned
  <1>7. CASE \A j \in DOMAIN ranges : ~Covers(ranges[j], price)
    <2>1. d = CentGrid
      BY <1>7, StepForFirst DEF IsFirstCover, d
    <2>2. CASE t = CentGrid
      BY <1>3, <2>1, <2>2
    <2>3. ASSUME NEW j, IsFirstCover(j, s, ranges), t = ranges[j].step PROVE Multiple(s, t)
      <3>1. j \in DOMAIN ranges /\ Covers(ranges[j], s) /\ ranges[j].step > 0
        BY <2>3 DEF IsFirstCover, Covers
      <3>2. \A e \in {ranges[j].start, ranges[j].end} : Multiple(e, d)
        BY <2>1, <3>1 DEF Aligned
      <3> QED
        BY <1>6, <1>7, <2>3, <3>1, <3>2
    <2> QED
      BY <1>3, <2>2, <2>3, StepForFirst
  <1>8. ASSUME NEW i, IsFirstCover(i, price, ranges), d = ranges[i].step
        PROVE  Multiple(s, t)
    <2>1. i \in DOMAIN ranges /\ Covers(ranges[i], price) /\ Covers(ranges[i], s) /\ i \in Nat
      BY <1>5, <1>8, RangeTypes DEF IsFirstCover
    <2>2. PICK j : IsFirstCover(j, s, ranges) /\ t = ranges[j].step
      BY <1>3, <2>1, StepForFirst
    <2>3. /\ j \in DOMAIN ranges /\ Covers(ranges[j], s) /\ j <= i /\ j \in Nat
          /\ ranges[j].step > 0
      BY <2>1, <2>2, RangeTypes DEF IsFirstCover, Covers
    <2>4. CASE j = i
      BY <1>3, <1>8, <2>2, <2>4
    <2>5. CASE j < i
      <3>1. ~Covers(ranges[j], price)
        BY <1>8, <2>1, <2>3, <2>5 DEF IsFirstCover
      <3>2. ASSUME NEW e \in {ranges[j].start, ranges[j].end},
                   (price < e /\ e <= s) \/ (s <= e /\ e < price)
            PROVE  Multiple(e, d)
        <4>1. /\ ranges[i].start \in Int /\ ranges[i].end \in Int
              /\ ranges[j].start \in Int /\ ranges[j].end \in Int
          BY <2>1, <2>3, RangeTypes
        <4>2. Covers(ranges[i], e)
          BY <1>3, <2>1, <3>2, <4>1 DEF Covers
        <4> QED
          BY <1>8, <2>1, <2>3, <2>5, <4>2 DEF Aligned
      <3> QED
        BY <1>6, <2>2, <2>3, <3>1, <3>2
    <2> QED
      BY <2>1, <2>3, <2>4, <2>5
  <1> QED
    <2>1. \/ \A j \in DOMAIN ranges : ~Covers(ranges[j], price)
          \/ \E i : IsFirstCover(i, price, ranges) /\ d = ranges[i].step
      BY StepForFirst DEF d
    <2> QED
      BY <1>7, <1>8, <2>1

\* Every grid of the harness is a list of ranges, with aligned edges and no negative
\* step.
LEMMA GridsAligned ==
  ASSUME NEW ranges \in Grids
  PROVE  /\ ranges \in PriceRanges /\ Aligned(ranges)
         /\ \A i \in DOMAIN ranges : ranges[i].step >= 0
  <1>1. PICK c \in Int : CentGrid = 10 * c /\ c > 0
    BY PricingAssumption, TickAssumption
  <1>2. /\ One = 1000 * c /\ One \div 10 = 100 * c /\ One - One \div 10 = 900 * c
        /\ One \div 2 = 500 * c /\ CentGrid \div 10 = c /\ CentGrid \div 2 = 5 * c
        /\ 2 * CentGrid = 20 * c
    BY <1>1, PricingAssumption
  <1>3. \A k \in {0, 100, 500, 900, 1000} : \A q \in {1, 5, 10, 20} : Multiple(k * c, q * c)
    <2> SUFFICES ASSUME NEW k \in {0, 100, 500, 900, 1000}, NEW q \in {1, 5, 10, 20}
                 PROVE  Multiple(k * c, q * c)
      OBVIOUS
    <2>1. k = (k \div q) * q /\ k \div q \in Int
      OBVIOUS
    <2>2. \A a, b \in Int : (a * b) * c = a * (b * c)
      BY <1>1
    <2>3. k * c = (k \div q) * (q * c)
      BY <2>1, <2>2
    <2> QED
      BY <2>1, <2>3 DEF Multiple
  <1>4. \A e \in {0, 100 * c, 500 * c, 900 * c, 1000 * c} :
            Multiple(e, c) /\ Multiple(e, 5 * c) /\ Multiple(e, 10 * c) /\ Multiple(e, 20 * c)
    <2>1. 0 * c = 0 /\ 1 * c = c
      BY <1>1
    <2> QED
      BY <1>3, <2>1
  <1> DEFINE Edges == {0, 100 * c, 500 * c, 900 * c, 1000 * c}
             Steps == {0, c, 5 * c, 10 * c, 20 * c}
             Plain == [start : Edges, end : Edges, step : Steps]
  <1>5. /\ \A x \in Plain : x.start \in Edges /\ x.end \in Edges /\ x.step \in Steps
        /\ Plain \subseteq [start : Int, end : Int, step : Int]
        /\ \A x \in Steps : x >= 0
    BY <1>1
  <1>6. \A e \in Edges, d \in Steps : d > 0 => Multiple(e, d)
    BY <1>4
  <1>7. ranges \in Seq(Plain)
    <2> DEFINE cents == Range3(0, 1000 * c, 10 * c)
               low == Range3(0, 100 * c, c)
               middle == Range3(100 * c, 900 * c, 10 * c)
               high == Range3(900 * c, 1000 * c, c)
               half == Range3(0, 500 * c, 5 * c)
               unusable == Range3(0, 1000 * c, 0)
               coarse == Range3(0, 1000 * c, 20 * c)
    <2>1. /\ cents \in Plain /\ low \in Plain /\ middle \in Plain /\ high \in Plain
          /\ half \in Plain /\ unusable \in Plain /\ coarse \in Plain
      <3>1. \A a, b \in Edges, d \in Steps : Range3(a, b, d) \in Plain
        BY DEF Range3
      <3> QED
        BY <3>1
    <2>2. \/ ranges = <<cents>> \/ ranges = <<low, middle, high>> \/ ranges = << >>
          \/ ranges = <<half>> \/ ranges = <<unusable, coarse>> \/ ranges = <<low, cents>>
      BY <1>1, <1>2 DEF Grids
    <2> HIDE DEF cents, low, middle, high, half, unusable, coarse
    <2> HIDE DEF Plain
    <2>3. /\ \A x \in Plain : <<x>> \in Seq(Plain)
          /\ \A x, y \in Plain : <<x, y>> \in Seq(Plain)
          /\ \A x, y, z \in Plain : <<x, y, z>> \in Seq(Plain)
          /\ << >> \in Seq(Plain)
      OBVIOUS
    <2> QED
      BY <2>1, <2>2, <2>3, Zenon
  <1> HIDE DEF Plain, Edges, Steps
  <1>8. ranges \in PriceRanges
    <2>1. \A S, T : S \subseteq T => Seq(S) \subseteq Seq(T)
      OBVIOUS
    <2> QED
      BY <1>5, <1>7, <2>1, Zenon DEF PriceRanges
  <1>9. ASSUME NEW i \in DOMAIN ranges
        PROVE  ranges[i].start \in Edges /\ ranges[i].end \in Edges /\ ranges[i].step \in Steps
    <2>1. i \in 1..Len(ranges)
      BY <1>7
    <2>2. ranges[i] \in Plain
      BY <1>7, <2>1, ElementOfSeq
    <2> QED
      BY <1>5, <2>2
  <1>10. CentGrid \in Steps /\ CentGrid > 0
    BY <1>1 DEF Steps
  <1>11. Aligned(ranges)
    BY <1>6, <1>9, <1>10 DEF Aligned, Covers
  <1> QED
    BY <1>5, <1>8, <1>9, <1>11

\* A multiple that is as near as any is one of the two around the price, and where
\* those two are equally near the price is half-way between them.
LEMMA NearIsBelowOrAbove ==
  ASSUME NEW price \in Int, NEW d \in Nat \ {0}, NEW m \in Int, Near(price, m, d)
  PROVE  LET below == price \div d
         IN  /\ m \in {below, below + 1}
             /\ \A k \in {below, below + 1} : Abs(price - m * d) <= Abs(price - k * d)
             /\ Abs(price - below * d) = Abs(price - (below + 1) * d) =>
                   Abs(2 * (price - m * d)) = d
  <1> DEFINE b == price \div d
             x == price - b * d
  <1>1. b \in Int /\ x \in 0..(d - 1) /\ x \in Int
    <2>1. b \in Int /\ d * b <= price /\ price < d * b + d
      OBVIOUS
    <2>2. d * b = b * d /\ b * d \in Int
      BY <2>1
    <2> HIDE DEF b
    <2> QED
      BY <2>1, <2>2
  <1> HIDE DEF b
  <1>2. price - m * d = x - (m - b) * d /\ (m - b) * d \in Int /\ m - b \in Int
    BY <1>1
  <1> DEFINE k == m - b
  <1>3. 2 * (x - k * d) <= d /\ -d <= 2 * (x - k * d)
    BY <1>2 DEF Near
  <1>4. price - (b + 1) * d = x - d /\ price - b * d = x
    BY <1>1
  <1> HIDE DEF x, k
  <1>5. k \in Int
    BY <1>1 DEF k
  <1>6. k \in {0, 1}
    <2>1. \A i, j \in Int : i <= j => i * d <= j * d
      OBVIOUS
    <2>2. ~(k <= -1)
      <3> SUFFICES ASSUME k <= -1 PROVE FALSE
        OBVIOUS
      <3>1. k * d <= -d /\ k * d \in Int
        BY <1>5, <2>1
      <3> QED
        BY <1>1, <1>3, <3>1
    <2>3. ~(k >= 2)
      <3> SUFFICES ASSUME k >= 2 PROVE FALSE
        OBVIOUS
      <3>1. 2 * d <= k * d /\ k * d \in Int
        BY <1>5, <2>1
      <3> QED
        BY <1>1, <1>3, <3>1
    <2> QED
      BY <1>5, <2>2, <2>3
  <1>7. m = b + k
    BY <1>1 DEF k
  <1>8. CASE k = 0
    <2>1. m = b /\ k * d = 0 /\ 2 * x <= d
      BY <1>1, <1>3, <1>7, <1>8
    <2> QED
      BY <1>1, <1>4, <2>1 DEF b, Abs
  <1>9. CASE k = 1
    <2>1. m = b + 1 /\ k * d = d /\ -d <= 2 * (x - d)
      BY <1>1, <1>3, <1>7, <1>9
    <2> QED
      BY <1>1, <1>4, <2>1 DEF b, Abs
  <1> QED
    BY <1>6, <1>8, <1>9

\* The inductive invariant: what was returned is the result of the call.
PricingInv ==
    /\ subject = "snap_to_grid"
    /\ input \in [price : -CentGrid..(One + CentGrid), ranges : Grids, off : Offsets]
    /\ output \in {<< >>, <<SnapToGrid(input.price, input.ranges, input.off)>>}

\* It says what the property does, whatever the call returned.
LEMMA PricingInvIsNearest == PricingInv => NearestMultipleTiesToEven
  <1> SUFFICES ASSUME PricingInv, NEW s \in Returned("snap_to_grid")
               PROVE  LET price == input.price
                          ranges == input.ranges
                          inside(i) == ranges[i].step # 0
                                         /\ price \in ranges[i].start..ranges[i].end
                      IN  \E step \in {CentGrid} \cup {ranges[i].step : i \in DOMAIN ranges} :
                            LET below == price \div step
                                near == {m \in {below, below + 1} :
                                            \A k \in {below, below + 1} :
                                                Abs(price - m * step) <= Abs(price - k * step)}
                            IN  /\ IF \E i \in DOMAIN ranges : inside(i)
                                     THEN \E i \in DOMAIN ranges :
                                              inside(i) /\ step = ranges[i].step
                                              /\ \A j \in 1..(i - 1) : ~inside(j)
                                     ELSE step = CentGrid
                                /\ \E m \in near :
                                      /\ s = m * step
                                      /\ Cardinality(near) = 2 =>
                                            m = CASE input.off < 0 -> below
                                                  [] input.off > 0 -> below + 1
                                                  [] OTHER -> 2 * ((below + 1) \div 2)
                                /\ \A off \in Offsets : SnapToGrid(s, ranges, off) = s
    BY DEF NearestMultipleTiesToEven
  <1> DEFINE price == input.price
             ranges == input.ranges
             off == input.off
             inside(i) == ranges[i].step # 0 /\ price \in ranges[i].start..ranges[i].end
             step == StepFor(price, ranges)
             below == price \div step
             near == {m \in {below, below + 1} :
                         \A k \in {below, below + 1} :
                             Abs(price - m * step) <= Abs(price - k * step)}
             chosen == CASE off < 0 -> below
                         [] off > 0 -> below + 1
                         [] OTHER -> 2 * ((below + 1) \div 2)
  <1>1. s = SnapToGrid(price, ranges, off)
    BY DEF PricingInv, Returned
  <1>2. price \in Int /\ ranges \in Grids /\ off \in Offsets
    BY PricingAssumption DEF PricingInv
  <1>3. /\ ranges \in PriceRanges /\ Aligned(ranges)
        /\ \A i \in DOMAIN ranges : ranges[i].step >= 0
    BY <1>2, GridsAligned
  <1> HIDE DEF price, ranges, off
  <1>4. step \in Nat \ {0}
    BY <1>2, <1>3, StepForPositive
  <1>5. \A again \in Offsets : SnapToGrid(s, ranges, again) = s
    BY <1>1, <1>2, <1>3, SnapIsStable
  <1>6. \A i \in DOMAIN ranges : inside(i) <=> Covers(ranges[i], price)
    <2> SUFFICES ASSUME NEW i \in DOMAIN ranges PROVE inside(i) <=> Covers(ranges[i], price)
      OBVIOUS
    <2>1. /\ ranges[i].start \in Int /\ ranges[i].end \in Int /\ ranges[i].step \in Int
          /\ ranges[i].step >= 0
      BY <1>3, RangeTypes
    <2> QED
      BY <1>2, <2>1 DEF Covers
  <1>7. \/ /\ ~\E i \in DOMAIN ranges : inside(i)
           /\ step = CentGrid
        \/ \E i \in DOMAIN ranges :
              inside(i) /\ step = ranges[i].step /\ \A j \in 1..(i - 1) : ~inside(j)
    <2>1. CASE \A j \in DOMAIN ranges : ~Covers(ranges[j], price)
      BY <1>2, <1>3, <1>6, <2>1, StepForFirst DEF IsFirstCover
    <2>2. ASSUME NEW i, IsFirstCover(i, price, ranges), step = ranges[i].step
          PROVE  \E k \in DOMAIN ranges :
                    inside(k) /\ step = ranges[k].step /\ \A j \in 1..(k - 1) : ~inside(j)
      <3>1. i \in DOMAIN ranges /\ Covers(ranges[i], price)
        BY <2>2 DEF IsFirstCover
      <3>2. i \in Nat /\ \A j \in 1..(i - 1) : j \in DOMAIN ranges /\ j < i /\ j \in Nat
        BY <1>3, <3>1, SMTT(30) DEF PriceRanges
      <3>3. \A j \in 1..(i - 1) : ~Covers(ranges[j], price)
        <4>1. \A j \in DOMAIN ranges : Covers(ranges[j], price) => i <= j
          BY <2>2 DEF IsFirstCover
        <4>2. \A j \in Nat : j < i => ~(i <= j)
          BY <3>2
        <4> QED
          BY <3>2, <4>1, <4>2
      <3> QED
        BY <1>6, <2>2, <3>1, <3>2, <3>3, Zenon
    <2> QED
      BY <1>2, <1>3, <2>1, <2>2, StepForFirst
  <1> DEFINE m == RoundedQuotient(price, step, off)
  <1> HIDE DEF step
  <1>8. /\ m \in Int /\ Near(price, m, step)
        /\ 2 * (price - m * step) = step => off <= 0
        /\ 2 * (price - m * step) = -step => off >= 0
        /\ Abs(2 * (price - m * step)) = step /\ off = 0 => \E h \in Int : m = 2 * h
    BY <1>2, <1>4, RoundedQuotientNear
  <1>9. s = m * step
    BY <1>1 DEF SnapToGrid, step
  <1> HIDE DEF m
  <1>10. /\ m \in near
         /\ Abs(price - below * step) = Abs(price - (below + 1) * step) =>
               Abs(2 * (price - m * step)) = step
    BY <1>2, <1>4, <1>8, NearIsBelowOrAbove
  <1>11. below \in Int /\ m \in {below, below + 1} /\ off \in -1..1
    BY <1>2, <1>4, <1>10 DEF Offsets
  <1>12. Cardinality(near) = 2 => m = chosen
    <2> SUFFICES ASSUME Cardinality(near) = 2 PROVE m = chosen
      OBVIOUS
    <2>1. below \in near /\ below + 1 \in near
      <3>1. near \subseteq {below, below + 1}
        OBVIOUS
      <3> HIDE DEF near
      <3>2. near # {below} /\ near # {below + 1} /\ near # {}
        <4>1. Cardinality({below}) = 1 /\ Cardinality({below + 1}) = 1 /\ Cardinality({}) = 0
          BY FS_Singleton, FS_EmptySet, Zenon
        <4>2. 1 # 2 /\ 0 # 2
          OBVIOUS
        <4> QED
          BY <4>1, <4>2, Zenon
      <3> QED
        BY <3>1, <3>2
    <2>2. \A k \in {below, below + 1} : price - k * step \in Int
      BY <1>2, <1>4, <1>11
    <2>3. /\ Abs(price - below * step) <= Abs(price - (below + 1) * step)
          /\ Abs(price - (below + 1) * step) <= Abs(price - below * step)
      BY <2>1
    <2>4. Abs(price - below * step) = Abs(price - (below + 1) * step)
      <3>1. Abs(price - below * step) \in Int /\ Abs(price - (below + 1) * step) \in Int
        BY <2>2 DEF Abs
      <3>2. \A x, y \in Int : x <= y /\ y <= x => x = y
        OBVIOUS
      <3> QED
        BY <2>3, <3>1, <3>2, Zenon
    <2>5. Abs(2 * (price - m * step)) = step
      BY <1>10, <2>4
    <2> HIDE DEF near
    <2>6. /\ m = below => 2 * (price - m * step) = step
          /\ m = below + 1 => 2 * (price - m * step) = -step
      <3>1. /\ price - below * step \in Nat
            /\ price - (below + 1) * step \in Int /\ price - (below + 1) * step < 0
        <4>1. /\ below * step \in Int /\ (below + 1) * step \in Int
              /\ step * below <= price /\ price < step * below + step
          BY <1>2, <1>4
        <4>2. step * below = below * step /\ (below + 1) * step = below * step + step
          BY <1>4, <1>11
        <4> HIDE DEF below
        <4> QED
          BY <1>2, <4>1, <4>2
      <3> HIDE DEF below
      <3>2. CASE m = below
        BY <2>5, <3>1, <3>2 DEF Abs
      <3>3. CASE m = below + 1
        BY <2>5, <3>1, <3>3 DEF Abs
      <3>4. below # below + 1
        BY <1>11
      <3> QED
        BY <1>11, <3>2, <3>3, <3>4
    <2> HIDE DEF below
    <2>7. CASE off < 0
      BY <1>4, <1>8, <1>11, <2>6, <2>7
    <2>8. CASE off > 0
      BY <1>4, <1>8, <1>11, <2>6, <2>8
    <2>9. CASE off = 0
      <3>1. PICK h \in Int : m = 2 * h
        BY <1>8, <2>5, <2>9
      <3>2. m = 2 * ((below + 1) \div 2)
        BY <1>11, <3>1
      <3> QED
        BY <2>9, <3>2
    <2> QED
      BY <1>11, <2>7, <2>8, <2>9
  <1>13. step \in {CentGrid} \cup {ranges[i].step : i \in DOMAIN ranges}
    BY <1>7
  <1> HIDE DEF near, below, inside, chosen
  <1>14. /\ IF \E i \in DOMAIN ranges : inside(i)
              THEN \E i \in DOMAIN ranges :
                       inside(i) /\ step = ranges[i].step /\ \A j \in 1..(i - 1) : ~inside(j)
              ELSE step = CentGrid
         /\ \E k \in near : s = k * step /\ (Cardinality(near) = 2 => k = chosen)
         /\ \A again \in Offsets : SnapToGrid(s, ranges, again) = s
    BY <1>5, <1>7, <1>9, <1>10, <1>12, Zenon
  <1> QED
    BY <1>13, <1>14, Zenon DEF near, below, inside, chosen, price, ranges, off

\* For every tick and every price of the harness's window, on each shape of grid a
\* wake carries: snap_to_grid takes the first range that covers the price, returns
\* the nearest multiple of its step, of two the one on the side of the quotient of
\* doubles or the even one, and returns it again.
THEOREM PricesSnapToNearest == PricingSpec => []NearestMultipleTiesToEven
  <1>1. PricingInit => PricingInv
    BY DEF PricingInit, PricingInv, Given
  <1>2. PricingInv /\ [PricingNext]_callVars => PricingInv'
    BY DEF PricingInv, PricingNext, Call, callVars
  <1> QED
    BY <1>1, <1>2, PricingInvIsNearest, PTL DEF PricingSpec

-----------------------------------------------------------------------------
(* handle_fire.                                                            *)

Frames == [dry_run : BOOLEAN, price : WirePrices \cup {NotSent},
           ranges : PriceGrids \cup {NotSent}]
Orders == [ticker : Tickers, side : Sides, price : Int, dry_run : BOOLEAN,
           frame : Frames, late : BOOLEAN]

\* The wake in hand is its frame with the defaults filled in.
FrameDecoded ==
    /\ frame \in Frames /\ orders \in Seq(Orders)
    /\ message.price = IF frame.price = NotSent THEN 0 ELSE frame.price
    /\ message.ranges = IF frame.ranges = NotSent THEN DefaultRanges ELSE frame.ranges

\* Past the guard, the local price is the snapped one and a real wake's is tradeable.
GuardPassed ==
    fpc \in {"switch", "switch_asked", "dispatch"} =>
        /\ \E off \in Offsets : wire_price = SnapToGrid(message.price, message.ranges, off)
        /\ ~message.dry_run => ~Untradeable(message.price)

\* A real order waits for its dispatch with the answer that let it pass.
SwitchLetItPass ==
    fpc = "dispatch" /\ ~message.dry_run => kpc = "answered" /\ ~answer

\* The inductive invariant.
FireInv ==
    /\ SwitchInv /\ TypeOK /\ FrameDecoded /\ GuardPassed /\ SwitchLetItPass
    /\ RealOrdersHonourSwitch /\ RealOrdersPricedByFrame

\* The kill switch inside the fire path is the kill switch on its own.
LEMMA FireIsSwitchStep == [Next]_vars => [SwitchNext]_switchVars
  BY DEF Next, vars, SwitchNext, switchVars, Receive, PriceGuard, AskKillSwitch,
         StatKillSwitch, KillSwitchAnswered, Dispatch, OwnerSwitches

\* The message's price and ranges are what the arithmetic lemmas are about, and the
\* default grid is that of cents.
LEMMA DecodedTypes ==
  ASSUME FrameDecoded
  PROVE  /\ message.price \in Int /\ message.ranges \in PriceRanges
         /\ StepFor(message.price, message.ranges) =
               StepFor(message.price, IF frame.ranges = NotSent THEN << >> ELSE frame.ranges)
  <1>1. message.price \in Int
    <2>1. frame.price \in WirePrices \/ frame.price = NotSent
      BY DEF FrameDecoded, Frames
    <2>2. message.price = IF frame.price = NotSent THEN 0 ELSE frame.price
      BY DEF FrameDecoded
    <2>3. \A x \in WirePrices : x \in Int
      BY FirePathAssumption
    <2>4. CASE frame.price = NotSent
      BY <2>2, <2>4
    <2>5. CASE frame.price # NotSent
      BY <2>1, <2>2, <2>3, <2>5, Zenon
    <2> QED
      BY <2>4, <2>5
  <1>2. DefaultRanges \in PriceRanges
    <2>1. [start |-> 0, end |-> One, step |-> CentGrid] \in [start : Int, end : Int, step : Int]
      BY PricingAssumption
    <2> QED
      BY <2>1 DEF DefaultRanges, PriceRanges
  <1>3. message.ranges \in PriceRanges
    BY <1>2, FirePathAssumption DEF FrameDecoded, Frames, PriceRanges
  <1>4. StepFor(message.price, DefaultRanges) = CentGrid
    <2>1. \A i \in DOMAIN DefaultRanges : DefaultRanges[i].step = CentGrid
      BY DEF DefaultRanges
    <2> DEFINE covering == {i \in DOMAIN DefaultRanges : Covers(DefaultRanges[i], message.price)}
    <2>2. CASE covering = {}
      BY <2>2 DEF StepFor
    <2>3. CASE covering # {}
      <3>1. covering \subseteq Nat
        BY DEF DefaultRanges
      <3>2. \E i \in covering : \A j \in covering : i <= j
        BY <2>3, <3>1, FirstExists
      <3>3. (CHOOSE i \in covering : \A j \in covering : i <= j) \in covering
        BY <3>2
      <3> QED
        BY <2>1, <2>3, <3>3 DEF StepFor
    <2> QED
      BY <2>2, <2>3
  <1>5. StepFor(message.price, << >>) = CentGrid
    BY DEF StepFor
  <1> QED
    BY <1>1, <1>3, <1>4, <1>5 DEF FrameDecoded

\* The invariant holds before the first wake.
LEMMA FireInvInit == Init => FireInv
  <1> SUFFICES ASSUME Init PROVE FireInv
    OBVIOUS
  <1>1. SwitchInv
    BY SwitchInvInit DEF Init
  <1>2. PICK t \in Tickers : message = DecodeFrame(NoFrame, t, "yes")
    BY DEF Init
  <1>3. frame = NoFrame /\ orders = << >>
    BY DEF Init
  <1>4. TypeOK
    BY <1>1, <1>2, <1>3, FirePathAssumption
       DEF Init, TypeOK, SwitchInv, DecodeFrame, NoFrame, Sides
  <1>5. FrameDecoded
    BY <1>2, <1>3 DEF FrameDecoded, DecodeFrame, NoFrame, Frames
  <1>6. GuardPassed /\ SwitchLetItPass /\ RealOrdersHonourSwitch /\ RealOrdersPricedByFrame
    BY <1>3 DEF Init, GuardPassed, SwitchLetItPass, RealOrdersHonourSwitch,
                RealOrdersPricedByFrame
  <1> QED
    BY <1>1, <1>4, <1>5, <1>6 DEF FireInv

\* A wake that arrives is decoded whole.
LEMMA FireInvReceive ==
  ASSUME FireInv, Receive, SwitchInv'
  PROVE  FireInv'
  <1> USE DEF FireInv, Receive
  <1>1. PICK t \in Tickers, s \in Sides : message' = DecodeFrame(frame', t, s)
    BY DEF Receive
  <1>2. frame' \in Frames
    BY DEF Frames
  <1>3. TypeOK'
    <2>1. /\ message'.ticker \in Tickers /\ message'.side \in Sides
          /\ message'.dry_run = frame'.dry_run
      BY <1>1 DEF DecodeFrame
    <2>2. handled' \in 0..MaxFires
      BY FirePathAssumption DEF TypeOK
    <2> QED
      BY <2>1, <2>2 DEF TypeOK, SwitchInv
  <1>4. FrameDecoded'
    BY <1>1, <1>2 DEF FrameDecoded, DecodeFrame
  <1>5. GuardPassed' /\ SwitchLetItPass' /\ RealOrdersHonourSwitch' /\ RealOrdersPricedByFrame'
    BY DEF GuardPassed, SwitchLetItPass, RealOrdersHonourSwitch, RealOrdersPricedByFrame
  <1> QED
    BY <1>3, <1>4, <1>5

\* The price guard and the snap.
LEMMA FireInvGuard ==
  ASSUME FireInv, PriceGuard, SwitchInv'
  PROVE  FireInv'
  <1> USE DEF FireInv
  <1>1. ASSUME NEW off \in Offsets
        PROVE  SnapToGrid(message.price, message.ranges, off) \in Int
    <2>1. message.price \in Int /\ message.ranges \in PriceRanges
      BY DecodedTypes
    <2>2. StepFor(message.price, message.ranges) \in Nat \ {0}
      BY <2>1, StepForPositive
    <2>3. RoundedQuotient(message.price, StepFor(message.price, message.ranges), off) \in Int
      BY <2>1, <2>2, RoundedQuotientNear
    <2> QED
      BY <2>2, <2>3 DEF SnapToGrid
  <1>2. UNCHANGED <<switchVars, message, frame, orders, templates, handled>>
    BY DEF PriceGuard
  <1>3. TypeOK'
    BY <1>1, <1>2 DEF PriceGuard, TypeOK, SwitchInv
  <1>4. FrameDecoded' /\ RealOrdersHonourSwitch' /\ RealOrdersPricedByFrame'
    BY <1>2 DEF FrameDecoded, RealOrdersHonourSwitch, RealOrdersPricedByFrame
  <1>5. GuardPassed'
    BY <1>2 DEF PriceGuard, GuardPassed, RefusePrice
  <1>6. SwitchLetItPass'
    BY <1>2 DEF PriceGuard, SwitchLetItPass
  <1> QED
    BY <1>3, <1>4, <1>5, <1>6

\* is_engaged() and what is done with its answer.
LEMMA FireInvSwitch ==
  ASSUME FireInv, AskKillSwitch \/ StatKillSwitch \/ KillSwitchAnswered, SwitchInv'
  PROVE  FireInv'
  <1> USE DEF FireInv, AskKillSwitch, StatKillSwitch, KillSwitchAnswered, fireVars
  <1>1. UNCHANGED <<message, frame, wire_price, orders, templates, handled>>
    OBVIOUS
  <1>2. fpc' \in {"idle", "switch_asked", "dispatch"}
    OBVIOUS
  <1>3. TypeOK'
    BY <1>1, <1>2 DEF TypeOK, SwitchInv
  <1>4. FrameDecoded' /\ RealOrdersHonourSwitch' /\ RealOrdersPricedByFrame'
    BY <1>1 DEF FrameDecoded, RealOrdersHonourSwitch, RealOrdersPricedByFrame
  <1>5. GuardPassed'
    BY <1>1 DEF GuardPassed
  <1>6. SwitchLetItPass'
    BY <1>1 DEF SwitchLetItPass, switchVars
  <1> QED
    BY <1>3, <1>4, <1>5, <1>6

\* The order that is dispatched: a real one was let pass by an answer that knew of
\* every change that was due, and its price is near the one its frame carried.
LEMMA FireInvDispatch ==
  ASSUME FireInv, Dispatch, SwitchInv'
  PROVE  FireInv'
  <1> USE DEF FireInv
  <1> DEFINE order == [ticker |-> message.ticker, side |-> message.side, price |-> wire_price,
                       dry_run |-> message.dry_run, frame |-> frame,
                       late |-> ~message.dry_run /\ file /\ ~misread /\ due <= asked_at]
  <1>1. /\ fpc = "dispatch" /\ fpc' = "idle" /\ orders' = Append(orders, order)
        /\ templates' = templates \cup {message.ticker}
        /\ UNCHANGED <<switchVars, message, frame, wire_price, handled>>
    BY DEF Dispatch
  <1>2. order \in Orders
    <2>1. order.late \in BOOLEAN
      BY Zenon
    <2>2. message.dry_run \in BOOLEAN
      BY DEF TypeOK, FrameDecoded, Frames
    <2> QED
      BY <2>1, <2>2 DEF TypeOK, FrameDecoded, Orders
  <1>3. ~order.late
    <2> SUFFICES ASSUME ~message.dry_run, file, ~misread, due <= asked_at PROVE FALSE
      BY Zenon
    <2>1. kpc = "answered" /\ ~answer
      BY <1>1 DEF SwitchLetItPass
    <2>2. answer = (file /\ ~misread)
      BY <2>1 DEF SwitchInv, HonouredWithinTtl
    <2> QED
      BY <2>1, <2>2, Zenon
  <1>4. ~order.dry_run =>
            /\ order.frame.price # NotSent /\ 0 < order.frame.price /\ order.frame.price < One
            /\ Abs(2 * (order.price - order.frame.price)) <=
                  StepFor(order.frame.price,
                          IF order.frame.ranges = NotSent THEN << >> ELSE order.frame.ranges)
    <2> SUFFICES ASSUME ~message.dry_run
                 PROVE  /\ frame.price # NotSent /\ 0 < frame.price /\ frame.price < One
                        /\ Abs(2 * (wire_price - frame.price)) <=
                              StepFor(frame.price,
                                      IF frame.ranges = NotSent THEN << >> ELSE frame.ranges)
      OBVIOUS
    <2>1. PICK off \in Offsets :
             /\ ~Untradeable(message.price)
             /\ wire_price = SnapToGrid(message.price, message.ranges, off)
      BY <1>1 DEF GuardPassed
    <2>2. message.price \in Int /\ message.ranges \in PriceRanges
      BY DecodedTypes
    <2>3. One \in Int
      BY PricingAssumption
    <2>4. 0 < message.price /\ message.price < One
      BY <2>1, <2>2, <2>3 DEF Untradeable
    <2>5. frame.price # NotSent /\ message.price = frame.price
      BY <2>4 DEF FrameDecoded
    <2>6. Abs(2 * (SnapToGrid(message.price, message.ranges, off) - message.price))
             <= StepFor(message.price, message.ranges)
      BY <2>2, SnapIsNearest
    <2> QED
      BY <2>1, <2>4, <2>5, <2>6, DecodedTypes
  <1> HIDE DEF order
  <1>5. /\ orders' \in Seq(Orders) /\ DOMAIN orders = 1..Len(orders) /\ Len(orders) \in Nat
        /\ DOMAIN orders' = 1..(Len(orders) + 1)
        /\ orders'[Len(orders) + 1] = order
        /\ \A i \in 1..Len(orders) : orders'[i] = orders[i]
    BY <1>1, <1>2, AppendProperties DEF FrameDecoded
  <1>6. DOMAIN orders' = DOMAIN orders \cup {Len(orders) + 1}
    BY <1>5
  <1>7. RealOrdersHonourSwitch'
    BY <1>3, <1>5, <1>6 DEF RealOrdersHonourSwitch
  <1>8. RealOrdersPricedByFrame'
    BY <1>4, <1>5, <1>6 DEF RealOrdersPricedByFrame
  <1>9. TypeOK'
    <2>1. order.ticker = message.ticker
      BY DEF order
    <2>2. templates' = {orders'[i].ticker : i \in DOMAIN orders'}
      BY <1>1, <1>5, <1>6, <2>1 DEF TypeOK
    <2> QED
      BY <1>1, <2>2 DEF TypeOK, SwitchInv
  <1>10. FrameDecoded' /\ GuardPassed' /\ SwitchLetItPass'
    BY <1>1, <1>5 DEF FrameDecoded, GuardPassed, SwitchLetItPass
  <1> QED
    BY <1>7, <1>8, <1>9, <1>10

\* The operator and the clock at any time, the owner between two wakes.
LEMMA FireInvAround ==
  ASSUME FireInv, SwitchInv',
         \/ OwnerSwitches
         \/ (OperatorToggles \/ Tick) /\ UNCHANGED fireVars
         \/ UNCHANGED vars
  PROVE  FireInv'
  <1> USE DEF FireInv
  <1>1. UNCHANGED fireVars
    BY DEF OwnerSwitches, vars
  <1>2. TypeOK' /\ FrameDecoded' /\ GuardPassed' /\ RealOrdersHonourSwitch'
        /\ RealOrdersPricedByFrame'
    BY <1>1 DEF fireVars, TypeOK, SwitchInv, FrameDecoded, GuardPassed,
                RealOrdersHonourSwitch, RealOrdersPricedByFrame
  <1>3. SwitchLetItPass'
    BY <1>1 DEF fireVars, SwitchLetItPass, OwnerSwitches, OperatorToggles, Tick, vars,
                switchVars
  <1> QED
    BY <1>2, <1>3

\* No step breaks the invariant.
LEMMA FireInvNext == FireInv /\ [Next]_vars => FireInv'
  <1> SUFFICES ASSUME FireInv, [Next]_vars PROVE FireInv'
    OBVIOUS
  <1>1. SwitchInv'
    BY FireIsSwitchStep, SwitchInvNext DEF FireInv
  <1> QED
    BY <1>1, FireInvReceive, FireInvGuard, FireInvSwitch, FireInvDispatch, FireInvAround
       DEF Next

\* Of every run of the fire path.
LEMMA FireInvAlways == Spec => []FireInv
  BY FireInvInit, FireInvNext, PTL DEF Spec

\* No real order leaves for a wake whose check came when a change of the kill switch
\* was due, for every TTL and any interleaving of the operator with the handler.
THEOREM SwitchStopsRealOrders == Spec => []RealOrdersHonourSwitch
  <1>1. FireInv => RealOrdersHonourSwitch
    BY DEF FireInv
  <1> QED
    BY <1>1, FireInvAlways, PTL

\* Every real order is priced by its own frame, within half a step of the grid it
\* was snapped to, for every price and every grid.
THEOREM RealOrdersAreTheFrames == Spec => []RealOrdersPricedByFrame
  <1>1. FireInv => RealOrdersPricedByFrame
    BY DEF FireInv
  <1> QED
    BY <1>1, FireInvAlways, PTL

-----------------------------------------------------------------------------
(* Recursive functions whose values have no set of their own.              *)

\* A turn of the loop of ReadPriceRanges, and one of the loop of Decode.
GridTurn(s) ==
    IF ~s.present THEN s
    ELSE Then(Then(s, NextElement), LAMBDA e :
            IF ~e.present THEN e
            ELSE Then(ReadRange(e), LAMBDA x :
                    [x EXCEPT !.present = TRUE, !.out = Append(s.out, @)]))

MemberTurn(d, fields) ==
    IF d.r.err # "none" \/ ~d.r.present THEN d
    ELSE IF NextMember(d.r).err # "none" \/ ~NextMember(d.r).present
         THEN [d EXCEPT !.r = NextMember(d.r)]
         ELSE ReadField(d, NextMember(d.r), fields)

\* What a recursion named by what computes at its place k from the place before.
StepOf(what, k, x, p) ==
    IF what = "length" THEN x * 256 + p[k]
    ELSE IF what = "ranges" THEN GridTurn(x)
    ELSE IF what = "members" THEN MemberTurn(x, p)
    ELSE IF k = 1 THEN p[1] ELSE x \o <<Mark("comma")>> \o p[k]

Steps(f, what, n, a, p) ==
    /\ f = [k \in 0..n |-> f[k]]
    /\ f[0] = a
    /\ \A k \in 1..n : f[k] = StepOf(what, k, f[k - 1], p)

LEMMA RecursionIs ==
  ASSUME NEW what, NEW n \in Nat, NEW a, NEW p
  PROVE  \E f : Steps(f, what, n, a, p)
  <1> DEFINE Follow(f, m) == Steps(f, what, m, a, p)
             T == {m \in 0..n : \E f : Follow(f, m)}
  <1>1. 0 \in T
    <2> DEFINE f == [k \in 0..0 |-> a]
    <2>1. f[0] = a /\ f = [k \in 0..0 |-> f[k]]
      OBVIOUS
    <2> HIDE DEF f
    <2>2. Steps(f, what, 0, a, p)
      BY <2>1 DEF Steps
    <2> QED
      BY <2>2
  <1>2. ASSUME NEW m \in 1..n, m - 1 \in T PROVE m \in T
    <2>1. PICK f : Steps(f, what, m - 1, a, p)
      BY <1>2
    <2> DEFINE h == [k \in 0..m |-> IF k = m THEN StepOf(what, m, f[m - 1], p) ELSE f[k]]
    <2>2. ASSUME NEW k \in 1..m PROVE h[k] = StepOf(what, k, h[k - 1], p)
      <3>1. k \in 0..m /\ k - 1 \in 0..m /\ k - 1 # m
        OBVIOUS
      <3>2. h[k - 1] = f[k - 1]
        BY <3>1
      <3>3. CASE k = m
        <4>1. h[k] = StepOf(what, m, f[m - 1], p)
          BY <3>3
        <4> HIDE DEF h
        <4> QED
          BY <3>2, <3>3, <4>1
      <3>4. CASE k # m
        <4>1. k \in 1..(m - 1) /\ h[k] = f[k]
          BY <3>1, <3>4
        <4> HIDE DEF h
        <4> QED
          BY <2>1, <3>2, <4>1 DEF Steps
      <3> QED
        BY <3>3, <3>4
    <2>3. h[0] = a /\ h = [k \in 0..m |-> h[k]]
      BY <2>1 DEF Steps
    <2> HIDE DEF h
    <2>4. Steps(h, what, m, a, p)
      BY <2>2, <2>3 DEF Steps
    <2> QED
      BY <2>4
  <1> HIDE DEF T
  <1>3. \A m \in 0..n : m \in T
    BY <1>1, <1>2, UpTo
  <1> QED
    BY <1>3 DEF T

-----------------------------------------------------------------------------
(* The length prefix.                                                      *)

LEMMA LengthIs ==
  ASSUME NEW p, NEW n \in Nat, \A k \in 1..4 : p[k] \in Nat,
         n = ((p[1] * 256 + p[2]) * 256 + p[3]) * 256 + p[4]
  PROVE  DecodeFrameLength(p) = IF n > MaxFrameBytes THEN Failure("FrameTooLarge") ELSE Ok(n)
  <1> DEFINE f == CHOOSE g : g = [k \in 0..4 |-> IF k = 0 THEN 0 ELSE g[k - 1] * 256 + p[k]]
  <1>1. DecodeFrameLength(p) = IF f[4] > MaxFrameBytes THEN Failure("FrameTooLarge") ELSE Ok(f[4])
    BY Zenon DEF DecodeFrameLength
  <1>2. f = [k \in 0..4 |-> IF k = 0 THEN 0 ELSE f[k - 1] * 256 + p[k]]
    <2>1. PICK g : Steps(g, "length", 4, 0, p)
      BY RecursionIs
    <2>2. \A k \in 1..4 : g[k] = g[k - 1] * 256 + p[k]
      BY <2>1 DEF Steps, StepOf
    <2>3. g = [k \in 0..4 |-> IF k = 0 THEN 0 ELSE g[k - 1] * 256 + p[k]]
      BY <2>1, <2>2 DEF Steps
    <2> QED
      BY <2>3, ZenonT(30)
  <1> HIDE DEF f
  <1>3. /\ f[1] = p[1] /\ f[2] = f[1] * 256 + p[2] /\ f[3] = f[2] * 256 + p[3]
        /\ f[4] = f[3] * 256 + p[4]
    BY <1>2
  <1> QED
    BY <1>1, <1>3

\* A length of four bytes is read back, and refused exactly above the cap.
LEMMA LengthIsReadBack ==
  ASSUME NEW n \in Nat, n < 4294967296
  PROVE  DecodeFrameLength(WriteLengthPrefix(n))
           = IF n > MaxFrameBytes THEN Failure("FrameTooLarge") ELSE Ok(n)
  <1> DEFINE p == WriteLengthPrefix(n)
  <1>1. /\ p[1] = (n \div 16777216) % 256 /\ p[2] = (n \div 65536) % 256
        /\ p[3] = (n \div 256) % 256 /\ p[4] = n % 256
    BY DEF WriteLengthPrefix
  <1> HIDE DEF p
  <1>2. \A k \in 1..4 : p[k] \in Nat
    BY <1>1
  <1>3. n = ((p[1] * 256 + p[2]) * 256 + p[3]) * 256 + p[4]
    BY <1>1
  <1> QED
    BY <1>2, <1>3, LengthIs, SMT DEF p

-----------------------------------------------------------------------------
(* Texts: sequences, of whatever tokens.                                   *)

IsText(s) == \E T : s \in Seq(T)

LEMMA TextIs ==
  ASSUME NEW s, IsText(s)
  PROVE  /\ Len(s) \in Nat /\ DOMAIN s = 1..Len(s)
         /\ s = [i \in 1..Len(s) |-> s[i]]
  <1>1. PICK T : s \in Seq(T)
    BY DEF IsText
  <1> QED
    BY <1>1

LEMMA TextMade ==
  ASSUME NEW n \in Nat, NEW s, s = [i \in 1..n |-> s[i]]
  PROVE  IsText(s) /\ Len(s) = n
  <1> DEFINE T == {s[i] : i \in 1..n}
  <1>1. \A i \in 1..n : s[i] \in T
    OBVIOUS
  <1> HIDE DEF T
  <1>2. s \in [1..n -> T]
    BY <1>1
  <1>3. s \in Seq(T) /\ Len(s) = n
    BY <1>2
  <1> QED
    BY <1>3 DEF IsText

\* c is s and then t.
InTurn(s, t, c) ==
    /\ IsText(c) /\ Len(s) \in Nat /\ Len(t) \in Nat /\ Len(c) = Len(s) + Len(t)
    /\ \A i \in 1..Len(s) : c[i] = s[i]
    /\ \A i \in 1..Len(t) : c[Len(s) + i] = t[i]

LEMMA TextJoined ==
  ASSUME NEW s, NEW t, IsText(s), IsText(t)
  PROVE  InTurn(s, t, s \o t)
  <1>1. PICK S : s \in Seq(S)
    BY DEF IsText
  <1>2. PICK T : t \in Seq(T)
    BY DEF IsText
  <1> DEFINE U == S \cup T
             c == s \o t
  <1>3. s \in Seq(U) /\ t \in Seq(U) /\ Len(s) \in Nat /\ Len(t) \in Nat
    BY <1>1, <1>2
  <1> HIDE DEF U
  <1>4. /\ c \in Seq(U) /\ Len(c) = Len(s) + Len(t)
        /\ \A i \in 1..(Len(s) + Len(t)) : c[i] = IF i <= Len(s) THEN s[i] ELSE t[i - Len(s)]
    BY <1>3, ConcatProperties, Zenon
  <1> HIDE DEF c
  <1>5. ASSUME NEW i \in 1..Len(t) PROVE c[Len(s) + i] = t[i]
    <2>1. /\ Len(s) + i \in 1..(Len(s) + Len(t)) /\ ~(Len(s) + i <= Len(s))
          /\ (Len(s) + i) - Len(s) = i
      BY <1>3
    <2> QED
      BY <1>4, <2>1
  <1>6. \A i \in 1..Len(s) : c[i] = s[i]
    BY <1>3, <1>4
  <1> QED
    <2>1. IsText(c)
      BY <1>4 DEF IsText
    <2> QED
      BY <1>3, <1>4, <1>5, <1>6, <2>1 DEF c, InTurn

\* s is the one token a; s is the tokens a and b; s is empty.
IsOne(s, a) == IsText(s) /\ Len(s) = 1 /\ s[1] = a
IsTwo(s, a, b) == IsText(s) /\ Len(s) = 2 /\ s[1] = a /\ s[2] = b

LEMMA OneToken ==
  ASSUME NEW a
  PROVE  IsOne(<<a>>, a)
  <1>1. <<a>> \in Seq({a})
    OBVIOUS
  <1> QED
    BY <1>1 DEF IsText, IsOne

LEMMA TwoTokens ==
  ASSUME NEW a, NEW b
  PROVE  IsTwo(<<a, b>>, a, b)
  <1>1. <<a, b>> \in Seq({a, b})
    OBVIOUS
  <1> QED
    BY <1>1 DEF IsText, IsTwo

LEMMA NoTokens ==
  IsText(<< >>) /\ Len(<< >>) = 0
  <1>1. << >> \in Seq({})
    OBVIOUS
  <1> QED
    BY <1>1 DEF IsText

\* w is part of the text, from p.
At(text, p, w) ==
    /\ p \in Nat \ {0} /\ (p - 1) + Len(w) <= Len(text)
    /\ \A k \in 1..Len(w) : text[(p - 1) + k] = w[k]

LEMMA AtJoined ==
  ASSUME NEW text, NEW p, NEW s, NEW t, IsText(text), IsText(s), IsText(t), At(text, p, s \o t)
  PROVE  At(text, p, s) /\ At(text, p + Len(s), t)
  <1>1. /\ Len(text) \in Nat /\ Len(s) \in Nat /\ Len(t) \in Nat
    BY TextIs
  <1> DEFINE c == s \o t
  <1>2. /\ Len(c) = Len(s) + Len(t)
        /\ \A i \in 1..Len(s) : c[i] = s[i]
        /\ \A i \in 1..Len(t) : c[Len(s) + i] = t[i]
    BY TextJoined DEF InTurn
  <1>3. /\ p \in Nat \ {0} /\ (p - 1) + Len(c) <= Len(text)
        /\ \A k \in 1..Len(c) : text[(p - 1) + k] = c[k]
    BY DEF At
  <1> HIDE DEF c
  <1>4. At(text, p, s)
    <2>1. (p - 1) + Len(s) <= Len(text)
      BY <1>1, <1>2, <1>3
    <2>2. \A k \in 1..Len(s) : k \in 1..Len(c)
      BY <1>1, <1>2
    <2> QED
      BY <1>2, <1>3, <2>1, <2>2 DEF At
  <1>5. At(text, p + Len(s), t)
    <2>1. p + Len(s) \in Nat \ {0} /\ ((p + Len(s)) - 1) + Len(t) <= Len(text)
      BY <1>1, <1>2, <1>3
    <2>2. ASSUME NEW k \in 1..Len(t) PROVE text[((p + Len(s)) - 1) + k] = t[k]
      <3>1. Len(s) + k \in 1..Len(c) /\ ((p + Len(s)) - 1) + k = (p - 1) + (Len(s) + k)
        BY <1>1, <1>2, <1>3
      <3>2. text[(p - 1) + (Len(s) + k)] = c[Len(s) + k]
        BY <1>3, <3>1
      <3> QED
        BY <1>2, <3>1, <3>2
    <2> QED
      BY <2>1, <2>2 DEF At
  <1> QED
    BY <1>4, <1>5

-----------------------------------------------------------------------------
(* Pieces in brackets.                                                     *)

TextList(pieces) == Len(pieces) \in Nat /\ \A i \in 1..Len(pieces) : IsText(pieces[i])

\* J joins the first pieces, J[0] none of them.
Joins(J, pieces) ==
    /\ J[0] = << >> /\ (Len(pieces) > 0 => J[1] = pieces[1])
    /\ \A i \in 2..Len(pieces) : J[i] = (J[i - 1] \o <<Mark("comma")>>) \o pieces[i]
    /\ \A i \in 0..Len(pieces) : IsText(J[i])

LEMMA BracketedIs ==
  ASSUME NEW open, NEW pieces, NEW close, TextList(pieces)
  PROVE  \E J : /\ Joins(J, pieces)
                /\ Bracketed(open, pieces, close)
                     = (<<Mark(open)>> \o J[Len(pieces)]) \o <<Mark(close)>>
  <1> DEFINE n == Len(pieces)
             J == CHOOSE g : g = [i \in 0..n |-> IF i = 0 THEN << >> ELSE IF i = 1 THEN pieces[1]
                                                ELSE (g[i - 1] \o <<Mark("comma")>>) \o pieces[i]]
  <1>1. Bracketed(open, pieces, close) = (<<Mark(open)>> \o J[n]) \o <<Mark(close)>>
    BY Zenon DEF Bracketed
  <1>2. n \in Nat
    BY DEF TextList
  <1>3. J = [i \in 0..n |-> IF i = 0 THEN << >> ELSE IF i = 1 THEN pieces[1]
                           ELSE (J[i - 1] \o <<Mark("comma")>>) \o pieces[i]]
    <2> HIDE DEF n
    <2>1. PICK g : Steps(g, "joined", n, << >>, pieces)
      BY <1>2, RecursionIs
    <2>2. ASSUME NEW i \in 0..n
          PROVE  g[i] = IF i = 0 THEN << >> ELSE IF i = 1 THEN pieces[1]
                        ELSE (g[i - 1] \o <<Mark("comma")>>) \o pieces[i]
      <3>1. CASE i = 0
        BY <2>1, <3>1 DEF Steps
      <3>2. CASE i # 0
        <4>1. i \in 1..n
          BY <1>2, <3>2
        <4>2. g[i] = StepOf("joined", i, g[i - 1], pieces)
          BY <2>1, <4>1 DEF Steps
        <4> QED
          BY <3>2, <4>2, Zenon DEF StepOf
      <3> QED
        BY <3>1, <3>2
    <2>3. g = [i \in 0..n |-> g[i]]
      BY <2>1, Zenon DEF Steps
    <2>4. g = [i \in 0..n |-> IF i = 0 THEN << >> ELSE IF i = 1 THEN pieces[1]
                             ELSE (g[i - 1] \o <<Mark("comma")>>) \o pieces[i]]
      BY <2>2, <2>3, Zenon
    <2> QED
      BY <2>4, Zenon
  <1> HIDE DEF J, n
  <1> DEFINE comma == <<Mark("comma")>>
             V(i) == IF i = 0 THEN << >> ELSE IF i = 1 THEN pieces[1]
                     ELSE (J[i - 1] \o comma) \o pieces[i]
  <1>v. J = [i \in 0..n |-> V(i)]
    BY <1>3
  <1> HIDE DEF V
  <1>4. J[0] = << >> /\ (n > 0 => J[1] = pieces[1])
    <2>1. 0 \in 0..n /\ (n > 0 => 1 \in 0..n)
      BY <1>2
    <2>2. J[0] = V(0) /\ (n > 0 => J[1] = V(1))
      BY <1>v, <2>1
    <2>3. 1 # 0
      OBVIOUS
    <2> QED
      BY <2>2, <2>3, Zenon DEF V
  <1>5. \A i \in 2..n : J[i] = (J[i - 1] \o comma) \o pieces[i]
    <2> SUFFICES ASSUME NEW i \in 2..n PROVE J[i] = (J[i - 1] \o comma) \o pieces[i]
      OBVIOUS
    <2>1. i \in 0..n /\ i # 0 /\ i # 1
      BY <1>2
    <2>2. J[i] = V(i)
      BY <1>v, <2>1
    <2> QED
      BY <2>1, <2>2, Zenon DEF V
  <1>c. IsText(comma) /\ Len(comma) = 1
    BY OneToken DEF IsOne
  <1>6. \A i \in 1..n : IsText(pieces[i])
    BY DEF n, TextList
  <1> HIDE DEF comma
  <1> DEFINE T == {i \in 0..n : IsText(J[i])}
  <1>7. 0 \in T
    BY <1>2, <1>4, NoTokens
  <1>8. ASSUME NEW i \in 1..n, i - 1 \in T PROVE i \in T
    <2>0. IsText(J[i - 1]) /\ IsText(pieces[i]) /\ i \in 0..n
      BY <1>2, <1>6, <1>8
    <2>1. CASE i = 1
      BY <1>2, <1>4, <2>0, <2>1
    <2>2. CASE i # 1
      <3>1. i \in 2..n
        BY <1>2, <2>2
      <3> DEFINE v == J[i - 1] \o comma
      <3>2. J[i] = v \o pieces[i]
        BY <1>5, <3>1
      <3>3. IsText(v)
        BY <1>c, <2>0, TextJoined DEF InTurn
      <3> HIDE DEF v
      <3>4. IsText(J[i])
        BY <2>0, <3>2, <3>3, TextJoined DEF InTurn
      <3> QED
        BY <2>0, <3>4
    <2> QED
      BY <2>1, <2>2
  <1> HIDE DEF T
  <1>9. \A i \in 0..n : i \in T
    BY <1>2, <1>7, <1>8, UpTo
  <1>10. \A i \in 0..n : IsText(J[i])
    BY <1>9 DEF T
  <1>11. Joins(J, pieces)
    BY <1>4, <1>5, <1>10, Zenon DEF n, Joins, comma
  <1> QED
    BY <1>1, <1>11, Zenon DEF n

\* The two brackets around the pieces.
Encloses(x, j, y, u, B) ==
    IsText(j) /\ InTurn(x, j, u) /\ u = x \o j /\ InTurn(u, y, B) /\ B = u \o y

LEMMA BracketedParts ==
  ASSUME NEW open, NEW pieces, NEW close, TextList(pieces)
  PROVE  \E J, u : /\ Joins(J, pieces)
                   /\ Encloses(<<Mark(open)>>, J[Len(pieces)], <<Mark(close)>>, u,
                               Bracketed(open, pieces, close))
  <1> DEFINE n == Len(pieces)
             x == <<Mark(open)>>
             y == <<Mark(close)>>
             B == Bracketed(open, pieces, close)
  <1>1. PICK J : Joins(J, pieces) /\ B = (x \o J[n]) \o y
    BY BracketedIs
  <1>2. IsText(x) /\ IsText(y)
    BY OneToken DEF IsOne
  <1>3. IsText(J[n])
    <2>1. \A i \in 0..n : IsText(J[i])
      BY <1>1, Zenon DEF Joins
    <2>2. n \in Nat
      BY DEF TextList
    <2> HIDE DEF n
    <2> QED
      BY <2>1, <2>2
  <1> DEFINE u == x \o J[n]
  <1> HIDE DEF n, x, y, B
  <1>4. InTurn(x, J[n], u)
    BY <1>2, <1>3, TextJoined
  <1>5. B = u \o y
    BY <1>1
  <1> HIDE DEF u
  <1>6. IsText(u)
    BY <1>4 DEF InTurn
  <1>7. InTurn(u, y, B)
    BY <1>2, <1>5, <1>6, TextJoined
  <1> QED
    BY <1>1, <1>3, <1>4, <1>5, <1>7, Zenon DEF n, x, y, B, u, Encloses

LEMMA BracketedText ==
  ASSUME NEW open, NEW pieces, NEW close, TextList(pieces)
  PROVE  IsText(Bracketed(open, pieces, close)) /\ Len(Bracketed(open, pieces, close)) >= 2
  <1> DEFINE B == Bracketed(open, pieces, close)
             x == <<Mark(open)>>
             y == <<Mark(close)>>
             n == Len(pieces)
  <1>1. PICK J, u : InTurn(x, J[n], u) /\ InTurn(u, y, B)
    BY BracketedParts, Zenon DEF Encloses
  <1>2. Len(x) = 1 /\ Len(y) = 1
    BY OneToken DEF IsOne
  <1> HIDE DEF B, x, y, n
  <1>3. IsText(B) /\ Len(B) >= 2
    BY <1>1, <1>2 DEF InTurn
  <1> QED
    BY <1>3 DEF B

\* In a text, the pieces start at f, each but the last is before a comma, and the
\* closing bracket is before e.
LaidOut(text, p, e, open, pieces, close, f) ==
    /\ text[p] = Mark(open) /\ f[1] = p + 1 /\ p \in Nat \ {0} /\ p < e /\ e - 1 <= Len(text)
    /\ \A i \in 1..(Len(pieces) + 1) : f[i] \in Nat \ {0}
    /\ \A i \in 1..Len(pieces) : At(text, f[i], pieces[i])
    /\ \A i \in 1..Len(pieces) : f[i + 1] = (f[i] + Len(pieces[i])) + 1
    /\ \A i \in 2..Len(pieces) : text[f[i] - 1] = Mark("comma")
    /\ text[e - 1] = Mark(close)
    /\ e \in Nat /\ e = IF Len(pieces) = 0 THEN p + 2 ELSE f[Len(pieces) + 1]

LEMMA BracketedAt ==
  ASSUME NEW text, NEW p, NEW open, NEW pieces, NEW close, IsText(text), TextList(pieces),
         At(text, p, Bracketed(open, pieces, close))
  PROVE  \E f : LaidOut(text, p, p + Len(Bracketed(open, pieces, close)), open, pieces, close, f)
  <1> DEFINE n == Len(pieces)
             B == Bracketed(open, pieces, close)
             x == <<Mark(open)>>
             y == <<Mark(close)>>
             comma == <<Mark("comma")>>
             q == p + 1
             e == p + Len(B)
  <1>0. PICK J, u : Joins(J, pieces) /\ Encloses(x, J[n], y, u, B)
    BY BracketedParts, Zenon
  <1>1. /\ IsText(J[n]) /\ InTurn(x, J[n], u) /\ u = x \o J[n] /\ InTurn(u, y, B) /\ B = u \o y
    BY <1>0, Zenon DEF Encloses
  <1>2. /\ n \in Nat /\ p \in Nat \ {0} /\ q \in Nat \ {0}
        /\ \A i \in 1..n : IsText(pieces[i]) /\ Len(pieces[i]) \in Nat
    BY TextIs DEF TextList, At
  <1>3. IsOne(x, Mark(open)) /\ IsOne(y, Mark(close)) /\ IsOne(comma, Mark("comma"))
    BY OneToken
  <1>4. At(text, p, B)
    OBVIOUS
  <1>5. \A i \in 2..n : J[i] = (J[i - 1] \o comma) \o pieces[i]
    BY <1>0, Zenon DEF Joins
  <1>6. \A i \in 0..n : IsText(J[i]) /\ Len(J[i]) \in Nat
    <2>1. \A i \in 0..n : IsText(J[i])
      BY <1>0, Zenon DEF Joins
    <2> QED
      BY <2>1, TextIs
  <1>7. J[0] = << >> /\ (n > 0 => J[1] = pieces[1])
    BY <1>0, Zenon DEF Joins
  <1> HIDE DEF n, B, x, y, comma
  <1>8. IsText(x) /\ IsText(y) /\ IsText(u) /\ IsText(comma)
    BY <1>1, <1>3 DEF IsOne, InTurn
  <1>9. At(text, p, u) /\ At(text, p + Len(u), y)
    BY <1>1, <1>4, <1>8, AtJoined
  <1>10. At(text, p, x) /\ At(text, p + Len(x), J[n])
    BY <1>1, <1>8, <1>9, AtJoined
  <1>11. At(text, q, J[n]) /\ e = (q + Len(J[n])) + 1 /\ p + Len(u) = e - 1 /\ e \in Nat /\ p < e
    <2>1. Len(x) = 1 /\ Len(y) = 1
      BY <1>3 DEF IsOne
    <2>2. Len(u) = Len(x) + Len(J[n]) /\ Len(B) = Len(u) + Len(y) /\ Len(J[n]) \in Nat
      BY <1>1 DEF InTurn
    <2>3. p + Len(x) = q
      BY <2>1
    <2> DEFINE j == Len(J[n])
               k == Len(u)
               l == Len(B)
    <2>4. k = 1 + j /\ l = k + 1 /\ j \in Nat /\ e = p + l /\ q = p + 1
      BY <2>1, <2>2
    <2> HIDE DEF j, k, l, e, q
    <2>5. e = (q + j) + 1 /\ p + k = e - 1 /\ e \in Nat /\ p < e
      BY <1>2, <2>4
    <2> QED
      BY <1>10, <2>3, <2>5 DEF j, k
  <1>12. ASSUME NEW s, NEW a, NEW r, IsOne(s, a), At(text, r, s) PROVE text[r] = a /\ r <= Len(text)
    <2>1. 1 \in 1..1 /\ r \in Nat /\ (r - 1) + 1 = r
      BY <1>12 DEF At
    <2> QED
      BY <1>12, <2>1 DEF At, IsOne
  <1>13. text[p] = Mark(open) /\ text[e - 1] = Mark(close) /\ e - 1 <= Len(text)
    BY <1>3, <1>9, <1>10, <1>11, <1>12
  <1>14. ASSUME NEW i \in 2..n, At(text, q, J[i])
         PROVE  /\ At(text, q, J[i - 1])
                /\ text[q + Len(J[i - 1])] = Mark("comma")
                /\ At(text, (q + Len(J[i - 1])) + 1, pieces[i])
                /\ Len(J[i]) = (Len(J[i - 1]) + 1) + Len(pieces[i])
    <2> DEFINE a == J[i - 1]
               b == pieces[i]
               v == a \o comma
    <2>0. i - 1 \in 0..n /\ i \in 1..n
      BY <1>2
    <2>1. J[i] = v \o b /\ IsText(a) /\ IsText(b) /\ Len(a) \in Nat
      BY <1>2, <1>5, <1>6, <2>0
    <2>2. InTurn(a, comma, v)
      BY <1>8, <2>1, TextJoined
    <2> DEFINE c == v \o b
    <2> HIDE DEF v, a, b
    <2>3. IsText(v) /\ Len(v) = Len(a) + 1
      BY <1>3, <2>2 DEF InTurn, IsOne
    <2>4. InTurn(v, b, c) /\ J[i] = c
      BY <2>1, <2>3, TextJoined
    <2>5. At(text, q, c)
      BY <1>14, <2>4
    <2>6. At(text, q, v) /\ At(text, q + Len(v), b)
      BY <2>1, <2>3, <2>5, AtJoined
    <2>7. At(text, q, a) /\ At(text, q + Len(a), comma)
      BY <1>8, <2>1, <2>6, AtJoined DEF v
    <2>8. text[q + Len(a)] = Mark("comma")
      BY <1>3, <1>12, <2>7
    <2>9. q + Len(v) = (q + Len(a)) + 1 /\ Len(J[i]) = (Len(a) + 1) + Len(b)
      BY <1>2, <2>1, <2>3, <2>4 DEF InTurn
    <2> QED
      BY <2>6, <2>7, <2>8, <2>9 DEF a, b
  <1> DEFINE T == {k \in 0..n : k < n => At(text, q, J[n - k])}
  <1>15. 0 \in T
    BY <1>2, <1>11
  <1>16. ASSUME NEW k \in 1..n, k - 1 \in T PROVE k \in T
    <2> SUFFICES ASSUME k < n PROVE At(text, q, J[n - k])
      BY <1>2
    <2>1. (n - k) + 1 \in 2..n /\ n - (k - 1) = (n - k) + 1 /\ ((n - k) + 1) - 1 = n - k
      BY <1>2
    <2>2. At(text, q, J[(n - k) + 1])
      <3>1. k - 1 < n /\ At(text, q, J[n - (k - 1)])
        BY <1>2, <1>16
      <3> QED
        BY <2>1, <3>1
    <2> QED
      BY <1>14, <2>1, <2>2
  <1>17. \A k \in 0..n : k \in T
    <2> HIDE DEF T
    <2> QED
      BY <1>2, <1>15, <1>16, UpTo
  <1>18. ASSUME NEW i \in 1..n PROVE At(text, q, J[i])
    <2>1. n - i \in 0..n /\ n - i < n /\ n - (n - i) = i
      BY <1>2
    <2> QED
      BY <1>17, <2>1
  <1> HIDE DEF T
  <1> DEFINE f == [i \in 1..(n + 1) |-> IF i = 1 THEN q ELSE (q + Len(J[i - 1])) + 1]
  <1>19. /\ f[1] = q /\ \A i \in 2..(n + 1) : f[i] = (q + Len(J[i - 1])) + 1
    <2>1. 1 \in 1..(n + 1) /\ \A i \in 2..(n + 1) : i \in 1..(n + 1) /\ i # 1
      BY <1>2
    <2> QED
      BY <2>1, Zenon
  <1> HIDE DEF f
  <1>20. \A i \in 1..(n + 1) : f[i] \in Nat \ {0}
    <2> SUFFICES ASSUME NEW i \in 1..(n + 1) PROVE f[i] \in Nat \ {0}
      OBVIOUS
    <2>1. CASE i = 1
      BY <1>2, <1>19, <2>1
    <2>2. CASE i # 1
      <3>1. i \in 2..(n + 1) /\ i - 1 \in 0..n
        BY <1>2, <2>2
      <3> DEFINE a == Len(J[i - 1])
      <3>2. f[i] = (q + a) + 1 /\ a \in Nat
        BY <1>6, <1>19, <3>1
      <3> HIDE DEF a, q
      <3> QED
        BY <1>2, <3>2
    <2> QED
      BY <2>1, <2>2
  <1>21. ASSUME NEW i \in 1..n
         PROVE  /\ At(text, f[i], pieces[i])
                /\ f[i + 1] = (f[i] + Len(pieces[i])) + 1
                /\ i # 1 => text[f[i] - 1] = Mark("comma")
    <2>0. i + 1 \in 2..(n + 1) /\ (i + 1) - 1 = i
      BY <1>2
    <2>1. f[i + 1] = (q + Len(J[i])) + 1
      BY <1>19, <2>0
    <2>2. CASE i = 1
      <3>1. J[i] = pieces[i] /\ f[i] = q
        BY <1>2, <1>7, <1>19, <2>2
      <3>2. At(text, q, J[i])
        BY <1>18
      <3> QED
        BY <2>1, <2>2, <3>1, <3>2
    <2>3. CASE i # 1
      <3>1. i \in 2..n /\ i \in 2..(n + 1) /\ i - 1 \in 0..n
        BY <1>2, <2>3
      <3>2. f[i] = (q + Len(J[i - 1])) + 1 /\ Len(J[i - 1]) \in Nat /\ Len(pieces[i]) \in Nat
        BY <1>2, <1>6, <1>19, <3>1
      <3>3. /\ text[q + Len(J[i - 1])] = Mark("comma")
            /\ At(text, (q + Len(J[i - 1])) + 1, pieces[i])
            /\ Len(J[i]) = (Len(J[i - 1]) + 1) + Len(pieces[i])
        BY <1>14, <1>18, <3>1
      <3>4. f[i] - 1 = q + Len(J[i - 1])
        BY <1>2, <3>2
      <3>5. f[i + 1] = (f[i] + Len(pieces[i])) + 1
        <4> DEFINE a == Len(J[i - 1])
                   b == Len(pieces[i])
        <4>1. /\ f[i + 1] = (q + ((a + 1) + b)) + 1 /\ f[i] = (q + a) + 1
              /\ a \in Nat /\ b \in Nat /\ q \in Nat
          BY <1>2, <2>1, <3>2, <3>3
        <4> HIDE DEF a, b, q
        <4>2. f[i + 1] = (f[i] + b) + 1
          BY <4>1
        <4> QED
          BY <4>2 DEF b
      <3> QED
        BY <3>2, <3>3, <3>4, <3>5
    <2> QED
      BY <2>2, <2>3
  <1>22. e = IF n = 0 THEN p + 2 ELSE f[n + 1]
    <2>1. CASE n = 0
      <3>1. Len(J[n]) = 0
        BY <1>7, <2>1, NoTokens
      <3>2. e = (q + 0) + 1
        BY <1>11, <3>1
      <3> QED
        BY <1>2, <2>1, <3>2
    <2>2. CASE n # 0
      <3>1. n + 1 \in 2..(n + 1) /\ (n + 1) - 1 = n
        BY <1>2, <2>2
      <3> QED
        BY <1>11, <1>19, <2>2, <3>1
    <2> QED
      BY <2>1, <2>2
  <1>23. \A i \in 2..n : i \in 1..n /\ i # 1
    BY <1>2
  <1>24. LaidOut(text, p, e, open, pieces, close, f)
    <2> HIDE DEF e
    <2>1. \A i \in 2..n : text[f[i] - 1] = Mark("comma")
      BY <1>21, <1>23
    <2> QED
      BY <1>2, <1>11, <1>13, <1>19, <1>20, <1>21, <1>22, <2>1 DEF LaidOut, n
  <1> QED
    BY <1>24 DEF B

-----------------------------------------------------------------------------
(* The calls of the reader on what was written.                            *)

\* The two truth values, as what a call may be given.
Yes == TRUE
No == FALSE

\* A reader that has not failed.
ReaderAt(text, pos, first, present, out) ==
    [text |-> text, pos |-> pos, first |-> first, err |-> "none", present |-> present, out |-> out]

\* The first place from i on that holds no white space.
Stop(text, i, j) ==
    /\ j \in i..(Len(text) + 1) /\ (j = Len(text) + 1 \/ text[j].t # "ws")
    /\ \A k \in i..(j - 1) : text[k].t = "ws"

LEMMA StopExists ==
  ASSUME NEW text, Len(text) \in Nat, NEW i \in 1..(Len(text) + 1)
  PROVE  \E j : Stop(text, i, j)
  <1> DEFINE n == Len(text)
             T == {j \in i..(n + 1) : j = n + 1 \/ text[j].t # "ws"}
  <1>1. n + 1 \in T /\ T \subseteq Nat
    OBVIOUS
  <1> HIDE DEF T, n
  <1>2. PICK j \in T : \A k \in T : j <= k
    BY <1>1, FirstExists
  <1> USE DEF T, n
  <1>3. j \in i..(n + 1) /\ (j = n + 1 \/ text[j].t # "ws")
    BY <1>2
  <1>4. ASSUME NEW k \in i..(j - 1) PROVE text[k].t = "ws"
    <2>1. k \in i..(n + 1) /\ ~(j <= k)
      BY <1>3
    <2> QED
      BY <1>2, <2>1
  <1> QED
    BY <1>3, <1>4 DEF Stop

LEMMA StopIsOne ==
  ASSUME NEW text, Len(text) \in Nat, NEW i \in 1..(Len(text) + 1), NEW j, NEW k,
         Stop(text, i, j), Stop(text, i, k)
  PROVE  j = k
  <1>1. /\ j \in i..(Len(text) + 1) /\ k \in i..(Len(text) + 1)
        /\ j = Len(text) + 1 \/ text[j].t # "ws"
        /\ k = Len(text) + 1 \/ text[k].t # "ws"
        /\ \A m \in i..(j - 1) : text[m].t = "ws"
        /\ \A m \in i..(k - 1) : text[m].t = "ws"
    BY DEF Stop
  <1>2. ~(j < k) /\ ~(k < j)
    BY <1>1
  <1> QED
    BY <1>1, <1>2

LEMMA SkipIs ==
  ASSUME NEW r, Len(r.text) \in Nat, r.pos \in 1..(Len(r.text) + 1), NEW q, Stop(r.text, r.pos, q)
  PROVE  SkipWhitespace(r) = [r EXCEPT !.pos = q]
  <1> DEFINE text == r.text
             n == Len(text)
             solid == CHOOSE g : g = [i \in 1..(n + 1) |->
                                        IF i > n THEN i ELSE IF text[i].t = "ws" THEN g[i + 1] ELSE i]
  <1>1. SkipWhitespace(r) = [r EXCEPT !.pos = solid[r.pos]]
    BY Zenon DEF SkipWhitespace
  <1> DEFINE h == [i \in 1..(n + 1) |-> CHOOSE j : Stop(text, i, j)]
  <1>2. ASSUME NEW i \in 1..(n + 1) PROVE Stop(text, i, h[i])
    BY StopExists
  <1> HIDE DEF h
  <1>3. ASSUME NEW i \in 1..(n + 1)
        PROVE  h[i] = IF i > n THEN i ELSE IF text[i].t = "ws" THEN h[i + 1] ELSE i
    <2>1. CASE i > n
      BY <1>2, <2>1 DEF Stop
    <2>2. CASE ~(i > n) /\ text[i].t # "ws"
      <3>1. Stop(text, i, i)
        BY <2>2 DEF Stop
      <3>2. h[i] = i
        BY <1>2, <3>1, StopIsOne
      <3> QED
        BY <2>2, <3>2
    <2>3. CASE ~(i > n) /\ text[i].t = "ws"
      <3>1. i + 1 \in 1..(n + 1)
        BY <2>3
      <3>2. Stop(text, i + 1, h[i + 1])
        BY <1>2, <3>1
      <3>3. Stop(text, i, h[i + 1])
        BY <2>3, <3>2 DEF Stop
      <3>4. h[i] = h[i + 1]
        BY <1>2, <3>3, StopIsOne
      <3> QED
        BY <2>3, <3>4
    <2> QED
      BY <2>1, <2>2, <2>3
  <1>4. h = [i \in 1..(n + 1) |-> h[i]]
    BY DEF h
  <1>5. h = [i \in 1..(n + 1) |-> IF i > n THEN i ELSE IF text[i].t = "ws" THEN h[i + 1] ELSE i]
    BY <1>3, <1>4, Zenon
  <1>6. solid = [i \in 1..(n + 1) |->
                   IF i > n THEN i ELSE IF text[i].t = "ws" THEN solid[i + 1] ELSE i]
    BY <1>5, Zenon
  <1> HIDE DEF solid
  <1>7. solid[r.pos] = q
    <2> DEFINE T == {k \in 0..(n + 1) : \A i \in ((n + 1) - k)..(n + 1) : i >= 1 => Stop(text, i, solid[i])}
    <2>1. 0 \in T
      <3>1. Stop(text, n + 1, n + 1) /\ solid[n + 1] = n + 1
        BY <1>6 DEF Stop
      <3> QED
        BY <3>1
    <2>2. ASSUME NEW k \in 1..(n + 1), k - 1 \in T PROVE k \in T
      <3> DEFINE m == (n + 1) - k
      <3>1. m \in 0..n /\ (n + 1) - (k - 1) = m + 1
        OBVIOUS
      <3>2. \A i \in (m + 1)..(n + 1) : i >= 1 => Stop(text, i, solid[i])
        BY <2>2, <3>1
      <3>3. ASSUME m >= 1 PROVE Stop(text, m, solid[m])
        <4>1. Stop(text, m + 1, solid[m + 1]) /\ m \in 1..(n + 1) /\ ~(m > n)
          BY <3>1, <3>2, <3>3, SMTT(30)
        <4>2. solid[m] = IF text[m].t = "ws" THEN solid[m + 1] ELSE m
          BY <1>6, <4>1
        <4> HIDE DEF m
        <4>3. m \in Nat
          BY <3>1
        <4>4. CASE text[m].t = "ws"
          <5> DEFINE j == solid[m + 1]
          <5>1. Stop(text, m + 1, j) /\ solid[m] = j
            BY <4>1, <4>2, <4>4
          <5> HIDE DEF j
          <5>2. j \in (m + 1)..(Len(text) + 1) /\ (j = Len(text) + 1 \/ text[j].t # "ws")
            BY <5>1 DEF Stop
          <5>3. \A x \in m..(j - 1) : x = m \/ x \in (m + 1)..(j - 1)
            BY <4>3, <5>2
          <5>4. \A x \in m..(j - 1) : text[x].t = "ws"
            BY <4>4, <5>1, <5>3 DEF Stop
          <5>5. j \in m..(Len(text) + 1)
            BY <4>3, <5>2
          <5> QED
            BY <5>1, <5>2, <5>4, <5>5 DEF Stop
        <4>5. CASE text[m].t # "ws"
          <5>1. solid[m] = m /\ m \in m..(Len(text) + 1) /\ ~(\E x \in m..(m - 1) : TRUE)
            BY <4>1, <4>2, <4>3, <4>5
          <5> QED
            BY <4>5, <5>1 DEF Stop
        <4> QED
          BY <4>4, <4>5
      <3>4. ASSUME NEW i \in m..(n + 1), i >= 1 PROVE Stop(text, i, solid[i])
        BY <3>1, <3>2, <3>3, <3>4
      <3> QED
        BY <3>4
    <2> HIDE DEF T
    <2>3. n + 1 \in Nat
      OBVIOUS
    <2>4. \A k \in 0..(n + 1) : k \in T
      <3> DEFINE N == n + 1
      <3> HIDE DEF N
      <3> QED
        BY <2>1, <2>2, <2>3, UpTo DEF N
    <2>5. Stop(text, r.pos, solid[r.pos])
      <3>1. n + 1 \in 0..(n + 1) /\ r.pos \in ((n + 1) - (n + 1))..(n + 1) /\ r.pos >= 1
        OBVIOUS
      <3> QED
        BY <2>4, <3>1 DEF T
    <2> QED
      BY <2>5, StopIsOne
  <1> QED
    BY <1>1, <1>7

\* A token that is no white space is where the reader is.
Stands(text, p) == IsText(text) /\ p \in 1..Len(text) /\ text[p].t # "ws"

IsReader(r) ==
    r = [text |-> r.text, pos |-> r.pos, first |-> r.first, err |-> r.err, present |-> r.present,
         out |-> r.out]

LEMMA SkipStays ==
  ASSUME NEW r, IsReader(r), Stands(r.text, r.pos)
  PROVE  SkipWhitespace(r) = r /\ Peek(r) = r.text[r.pos].t
  <1>1. [r EXCEPT !.pos = r.pos] = r
    BY DEF IsReader
  <1>2. Len(r.text) \in Nat /\ r.pos \in 1..Len(r.text) /\ r.text[r.pos].t # "ws"
    BY TextIs DEF Stands
  <1>3. Stop(r.text, r.pos, r.pos)
    BY <1>2 DEF Stop
  <1>4. r.pos \in 1..(Len(r.text) + 1)
    BY <1>2
  <1>5. SkipWhitespace(r) = r
    BY <1>1, <1>2, <1>3, <1>4, SkipIs
  <1>6. Peek(r) = r.text[r.pos].t
    BY <1>2 DEF Peek
  <1> QED
    BY <1>5, <1>6

\* What a call on a reader that stands at p comes to.
LEMMA ExpectTakes ==
  ASSUME NEW r, IsReader(r), Stands(r.text, r.pos), NEW c, r.text[r.pos] = Mark(c)
  PROVE  Expect(r, c) = Advance(r)
  <1>1. SkipWhitespace(r) = r /\ Peek(r) = r.text[r.pos].t
    BY SkipStays
  <1>2. r.text[r.pos].t = c
    BY DEF Mark
  <1> QED
    BY <1>1, <1>2 DEF Expect

LEMMA ReaderIs ==
  ASSUME NEW text, NEW p, NEW first, NEW present, NEW out, NEW r, r = ReaderAt(text, p, first, present, out)
  PROVE  /\ IsReader(r) /\ r.text = text /\ r.pos = p /\ r.first = first /\ r.err = "none"
         /\ r.present = present /\ r.out = out
         /\ Advance(r) = ReaderAt(text, p + 1, first, present, out)
  BY DEF ReaderAt, IsReader, Advance

LEMMA ArrayBegins ==
  ASSUME NEW text, NEW p, NEW first, NEW present, NEW out, first \in Seq(BOOLEAN), Stands(text, p),
         text[p] = Mark("begin_array"), Len(first) # MaxDepth
  PROVE  BeginArray(ReaderAt(text, p, first, present, out))
           = ReaderAt(text, p + 1, Append(first, Yes), present, out)
  <1> DEFINE r == ReaderAt(text, p, first, present, out)
             s == ReaderAt(text, p + 1, first, present, out)
             f == Append(first, Yes)
  <1>0. IsReader(r) /\ r.text = text /\ r.pos = p /\ Advance(r) = s
    BY ReaderIs
  <1>1. Expect(r, "begin_array") = s
    <2> HIDE DEF r, s
    <2> QED
      BY <1>0, ExpectTakes
  <1>2. s.err = "none" /\ s.first = first
    BY DEF ReaderAt
  <1>3. PushLevel(s) = [s EXCEPT !.first = f]
    <2> HIDE DEF s
    <2> QED
      BY <1>2, Zenon DEF PushLevel, Yes
  <1>4. BeginArray(r) = PushLevel(s)
    <2> HIDE DEF r, s
    <2> QED
      BY <1>1, <1>2 DEF BeginArray, Then
  <1> HIDE DEF f
  <1>5. [s EXCEPT !.first = f] = ReaderAt(text, p + 1, f, present, out)
    BY DEF ReaderAt
  <1> QED
    BY <1>3, <1>4, <1>5 DEF f

LEMMA ObjectBegins ==
  ASSUME NEW text, NEW p, NEW first, NEW present, NEW out, first \in Seq(BOOLEAN), Stands(text, p),
         text[p] = Mark("begin_object"), Len(first) # MaxDepth
  PROVE  BeginObject(ReaderAt(text, p, first, present, out))
           = ReaderAt(text, p + 1, Append(first, Yes), present, out)
  <1> DEFINE r == ReaderAt(text, p, first, present, out)
             s == ReaderAt(text, p + 1, first, present, out)
             f == Append(first, Yes)
  <1>0. IsReader(r) /\ r.text = text /\ r.pos = p /\ Advance(r) = s
    BY ReaderIs
  <1>1. Expect(r, "begin_object") = s
    <2> HIDE DEF r, s
    <2> QED
      BY <1>0, ExpectTakes
  <1>2. s.err = "none" /\ s.first = first
    BY DEF ReaderAt
  <1>3. PushLevel(s) = [s EXCEPT !.first = f]
    <2> HIDE DEF s
    <2> QED
      BY <1>2, Zenon DEF PushLevel, Yes
  <1>4. BeginObject(r) = PushLevel(s)
    <2> HIDE DEF r, s
    <2> QED
      BY <1>1, <1>2 DEF BeginObject, Then
  <1> HIDE DEF f
  <1>5. [s EXCEPT !.first = f] = ReaderAt(text, p + 1, f, present, out)
    BY DEF ReaderAt
  <1> QED
    BY <1>3, <1>4, <1>5 DEF f

LEMMA YesNo ==
  Yes /\ ~No
  BY Zenon DEF Yes, No

LEMMA YesNoBoolean ==
  Yes \in BOOLEAN /\ No \in BOOLEAN
  BY Zenon DEF Yes, No

LEMMA Levels ==
  ASSUME NEW base \in Seq(BOOLEAN), NEW b \in BOOLEAN
  PROVE  /\ Append(base, b) \in Seq(BOOLEAN) /\ Len(Append(base, b)) = Len(base) + 1
         /\ Front(Append(base, b)) = base /\ Last(Append(base, b)) = b
  <1> DEFINE s == Append(base, b)
             n == Len(base)
  <1>1. /\ s \in Seq(BOOLEAN) /\ n \in Nat /\ Len(s) = n + 1 /\ s[n + 1] = b
        /\ \A i \in 1..n : s[i] = base[i]
    OBVIOUS
  <1>2. base \in Seq(BOOLEAN) /\ Len(base) = n
    OBVIOUS
  <1> HIDE DEF s, n
  <1>3. Last(s) = b
    BY <1>1 DEF Last
  <1>4. Front(s) = SubSeq(s, 1, n)
    BY <1>1 DEF Front
  <1>5. /\ SubSeq(s, 1, n) \in Seq(BOOLEAN) /\ Len(SubSeq(s, 1, n)) = n
        /\ \A i \in 1..n : SubSeq(s, 1, n)[i] = s[i]
    BY <1>1
  <1>6. SubSeq(s, 1, n) = base
    BY <1>1, <1>2, <1>5, SeqEqual
  <1> QED
    BY <1>1, <1>3, <1>4, <1>6 DEF s, n

Closers == {"end_array", "end_object"}

\* To the closing bracket.
LEMMA Closes ==
  ASSUME NEW text, NEW p, NEW base, NEW b, NEW present, NEW out,
         NEW close, base \in Seq(BOOLEAN), b \in BOOLEAN, close \in Closers, Stands(text, p), text[p] = Mark(close)
  PROVE  AdvanceTo(ReaderAt(text, p, Append(base, b), present, out), close)
           = ReaderAt(text, p + 1, base, No, out)
  <1> DEFINE f == Append(base, b)
  <1>1. Front(f) = base
    BY Levels
  <1>2. close # "end"
    BY DEF Closers
  <1> HIDE DEF f
  <1> DEFINE r == ReaderAt(text, p, f, present, out)
             q == ReaderAt(text, p + 1, f, present, out)
             w == ReaderAt(text, p + 1, base, present, out)
  <1>0. IsReader(r) /\ r.text = text /\ r.pos = p /\ Advance(r) = ReaderAt(text, p + 1, f, present, out)
    BY ReaderIs
  <1>3. SkipWhitespace(r) = r /\ Peek(r) = text[p].t
    <2> HIDE DEF r
    <2> QED
      BY <1>0, SkipStays
  <1>4. text[p].t = close
    BY DEF Mark
  <1>5. Advance(r) = q
    BY ReaderIs
  <1>6. q.first = f
    BY DEF ReaderAt
  <1>7. AdvanceTo(r, close) = [q EXCEPT !.first = Front(@), !.present = FALSE]
    <2> HIDE DEF r, q
    <2> QED
      BY <1>2, <1>3, <1>4, <1>5 DEF AdvanceTo
  <1>8. AdvanceTo(r, close) = [[q EXCEPT !.first = base] EXCEPT !.present = No]
    <2> HIDE DEF q
    <2> QED
      BY <1>1, <1>6, <1>7, Zenon DEF No
  <1>9. [q EXCEPT !.first = base] = w
    BY DEF ReaderAt
  <1>10. [w EXCEPT !.present = No] = ReaderAt(text, p + 1, base, No, out)
    BY DEF ReaderAt
  <1> QED
    BY <1>8, <1>9, <1>10, Zenon DEF f

\* To the first item.
LEMMA ComesFirst ==
  ASSUME NEW text, NEW p, NEW base, NEW present, NEW out, NEW close, base \in Seq(BOOLEAN),
         close \in Closers, Stands(text, p), text[p].t # close, text[p].t # "end"
  PROVE  AdvanceTo(ReaderAt(text, p, Append(base, Yes), present, out), close)
           = ReaderAt(text, p, Append(base, No), Yes, out)
  <1> DEFINE f == Append(base, Yes)
             g == Append(base, No)
  <1>1. Front(f) = base /\ Last(f)
    <2>1. Front(f) = base /\ Last(f) = Yes
      BY Levels, YesNoBoolean
    <2> QED
      BY <2>1, Zenon DEF Yes
  <1> HIDE DEF f
  <1> DEFINE r == ReaderAt(text, p, f, present, out)
  <1>0. IsReader(r) /\ r.text = text /\ r.pos = p /\ Advance(r) = ReaderAt(text, p + 1, f, present, out)
    BY ReaderIs
  <1>2. SkipWhitespace(r) = r /\ Peek(r) = text[p].t
    <2> HIDE DEF r
    <2> QED
      BY <1>0, SkipStays
  <1>3. r.first = f
    BY DEF ReaderAt
  <1>4. AdvanceTo(r, close) = [r EXCEPT !.first = Append(Front(@), FALSE), !.present = TRUE]
    <2> HIDE DEF r
    <2> QED
      BY <1>1, <1>2, <1>3 DEF AdvanceTo
  <1>5. AdvanceTo(r, close) = [[r EXCEPT !.first = g] EXCEPT !.present = Yes]
    <2> HIDE DEF r
    <2> QED
      BY <1>1, <1>3, <1>4, Zenon DEF g, Yes, No
  <1> HIDE DEF g
  <1> DEFINE w == ReaderAt(text, p, g, present, out)
  <1>6. [r EXCEPT !.first = g] = w
    BY DEF ReaderAt
  <1>7. [w EXCEPT !.present = Yes] = ReaderAt(text, p, g, Yes, out)
    BY DEF ReaderAt
  <1> QED
    BY <1>5, <1>6, <1>7, Zenon DEF f, g

\* To a later item.
LEMMA ComesNext ==
  ASSUME NEW text, NEW p, NEW base, NEW present, NEW out, NEW close, base \in Seq(BOOLEAN),
         close \in Closers, Stands(text, p), text[p] = Mark("comma")
  PROVE  AdvanceTo(ReaderAt(text, p, Append(base, No), present, out), close)
           = ReaderAt(text, p + 1, Append(base, No), Yes, out)
  <1> DEFINE f == Append(base, No)
  <1>1. ~Last(f)
    <2>1. Last(f) = No
      BY Levels, YesNoBoolean
    <2> QED
      BY <2>1, Zenon DEF No
  <1>2. close # "comma" /\ close # "end"
    BY DEF Closers
  <1> HIDE DEF f
  <1> DEFINE r == ReaderAt(text, p, f, present, out)
             s == ReaderAt(text, p + 1, f, present, out)
  <1>0. IsReader(r) /\ r.text = text /\ r.pos = p /\ Advance(r) = ReaderAt(text, p + 1, f, present, out)
    BY ReaderIs
  <1>3. SkipWhitespace(r) = r /\ Peek(r) = text[p].t
    <2> HIDE DEF r
    <2> QED
      BY <1>0, SkipStays
  <1>a. Advance(r) = s
    BY <1>0
  <1>4. Expect(r, "comma") = s
    <2> HIDE DEF r, s
    <2> QED
      BY <1>0, <1>a, ExpectTakes
  <1>5. text[p].t = "comma"
    BY DEF Mark
  <1>6. r.first = f
    BY DEF ReaderAt
  <1>7. AdvanceTo(r, close) = [s EXCEPT !.present = Yes]
    <2> HIDE DEF r, s
    <2>1. AdvanceTo(r, close) = [s EXCEPT !.present = TRUE]
      BY <1>1, <1>2, <1>3, <1>4, <1>5, <1>6 DEF AdvanceTo
    <2> QED
      BY <2>1, Zenon DEF Yes
  <1>8. [s EXCEPT !.present = Yes] = ReaderAt(text, p + 1, f, Yes, out)
    BY DEF ReaderAt
  <1> QED
    BY <1>7, <1>8, Zenon DEF f

\* The scalars, each from its token.
LEMMA StringRead ==
  ASSUME NEW text, NEW p, NEW first, NEW present, NEW out, NEW v, Stands(text, p), text[p] = Text(v)
  PROVE  ReadString(ReaderAt(text, p, first, present, out)) = ReaderAt(text, p + 1, first, present, v)
  <1> DEFINE r == ReaderAt(text, p, first, present, out)
  <1>0. IsReader(r) /\ r.text = text /\ r.pos = p /\ Advance(r) = ReaderAt(text, p + 1, first, present, out)
    BY ReaderIs
  <1>1. SkipWhitespace(r) = r /\ Peek(r) = text[p].t
    <2> HIDE DEF r
    <2> QED
      BY <1>0, SkipStays
  <1>2. text[p].t = "string" /\ text[p].s = v /\ r.text = text /\ r.pos = p
    BY DEF Text, ReaderAt
  <1>3. ReadString(r) = [Advance(r) EXCEPT !.out = v]
    <2> HIDE DEF r
    <2> QED
      BY <1>1, <1>2 DEF ReadString, ReadScalar
  <1> QED
    BY <1>3 DEF Advance, ReaderAt

LEMMA BoolRead ==
  ASSUME NEW text, NEW p, NEW first, NEW present, NEW out, NEW v, Stands(text, p),
         text[p] = [t |-> "bool", b |-> v]
  PROVE  ReadBool(ReaderAt(text, p, first, present, out)) = ReaderAt(text, p + 1, first, present, v)
  <1> DEFINE r == ReaderAt(text, p, first, present, out)
  <1>0. IsReader(r) /\ r.text = text /\ r.pos = p /\ Advance(r) = ReaderAt(text, p + 1, first, present, out)
    BY ReaderIs
  <1>1. SkipWhitespace(r) = r /\ Peek(r) = text[p].t
    <2> HIDE DEF r
    <2> QED
      BY <1>0, SkipStays
  <1>2. text[p].t = "bool" /\ text[p].b = v /\ r.text = text /\ r.pos = p
    BY DEF ReaderAt
  <1>3. ReadBool(r) = [Advance(r) EXCEPT !.out = v]
    <2> HIDE DEF r
    <2> QED
      BY <1>1, <1>2 DEF ReadBool, ReadScalar
  <1> QED
    BY <1>3 DEF Advance, ReaderAt

LEMMA NullRead ==
  ASSUME NEW text, NEW p, NEW first, NEW present, NEW out, Stands(text, p), text[p] = Mark("null")
  PROVE  /\ AtNull(ReaderAt(text, p, first, present, out))
         /\ ReadNull(ReaderAt(text, p, first, present, out))
              = ReaderAt(text, p + 1, first, present, << >>)
  <1> DEFINE r == ReaderAt(text, p, first, present, out)
  <1>0. IsReader(r) /\ r.text = text /\ r.pos = p /\ Advance(r) = ReaderAt(text, p + 1, first, present, out)
    BY ReaderIs
  <1>1. SkipWhitespace(r) = r /\ Peek(r) = text[p].t
    <2> HIDE DEF r
    <2> QED
      BY <1>0, SkipStays
  <1>2. text[p].t = "null"
    BY DEF Mark
  <1>3. AtNull(r) /\ ReadNull(r) = [Advance(r) EXCEPT !.out = << >>]
    <2> HIDE DEF r
    <2> QED
      BY <1>1, <1>2 DEF ReadNull, ReadScalar, AtNull
  <1> QED
    BY <1>3 DEF Advance, ReaderAt

LEMMA IntRead ==
  ASSUME NEW text, NEW p, NEW first, NEW present, NEW out, NEW v, Stands(text, p),
         text[p] = [t |-> "int", n |-> v]
  PROVE  ReadInt(ReaderAt(text, p, first, present, out)) = ReaderAt(text, p + 1, first, present, v)
  <1> DEFINE r == ReaderAt(text, p, first, present, out)
  <1>0. IsReader(r) /\ r.text = text /\ r.pos = p /\ Advance(r) = ReaderAt(text, p + 1, first, present, out)
    BY ReaderIs
  <1>1. SkipWhitespace(r) = r /\ Peek(r) = text[p].t
    <2> HIDE DEF r
    <2> QED
      BY <1>0, SkipStays
  <1>2. text[p].t = "int" /\ text[p].n = v /\ r.text = text /\ r.pos = p
    BY DEF ReaderAt
  <1>3. ReadInt(r) = [Advance(r) EXCEPT !.out = v]
    <2> HIDE DEF r
    <2> QED
      BY <1>1, <1>2 DEF ReadInt, ReadScalar
  <1> QED
    BY <1>3 DEF Advance, ReaderAt

LEMMA DoubleRead ==
  ASSUME NEW text, NEW p, NEW first, NEW present, NEW out, NEW v, Stands(text, p), text[p] = Real(v)
  PROVE  ReadDouble(ReaderAt(text, p, first, present, out)) = ReaderAt(text, p + 1, first, present, v)
  <1> DEFINE r == ReaderAt(text, p, first, present, out)
  <1>0. IsReader(r) /\ r.text = text /\ r.pos = p /\ Advance(r) = ReaderAt(text, p + 1, first, present, out)
    BY ReaderIs
  <1>1. SkipWhitespace(r) = r /\ Peek(r) = text[p].t
    <2> HIDE DEF r
    <2> QED
      BY <1>0, SkipStays
  <1>2. text[p].t = "real" /\ text[p].n = v /\ r.text = text /\ r.pos = p
    BY DEF ReaderAt, Real
  <1>3. ReadDouble(r) = [Advance(r) EXCEPT !.out = v]
    <2> HIDE DEF r
    <2> QED
      BY <1>1, <1>2 DEF ReadDouble, ReadScalar
  <1> QED
    BY <1>3 DEF Advance, ReaderAt

-----------------------------------------------------------------------------
(* A grid of ranges, read from what was written of it.                     *)

\* What ReadRange does for each bound.
Bound(s) ==
    Then(NextElement(s), LAMBDA e :
        IF e.present THEN ReadDouble(e) ELSE Fail(e, "MalformedPriceRange"))

\* The token at p.
HasToken(text, p, x) == IsText(text) /\ p \in 1..Len(text) /\ text[p] = x

LEMMA RealStands ==
  ASSUME NEW text, NEW p, NEW v, IsText(text), p \in 1..Len(text), text[p] = Real(v)
  PROVE  /\ Stands(text, p) /\ text[p].t # "end_array" /\ text[p].t # "end" /\ text[p].t # "ws"
         /\ text[p].t # "null" /\ text[p].t = "real"
  BY DEF Real, Stands

LEMMA MarkStands ==
  ASSUME NEW text, NEW p, NEW c, IsText(text), p \in 1..Len(text), text[p] = Mark(c), c # "ws"
  PROVE  Stands(text, p) /\ text[p].t = c
  BY DEF Mark, Stands

LEMMA ElementFirst ==
  ASSUME NEW text, NEW p, NEW base, NEW present, NEW out, base \in Seq(BOOLEAN), Stands(text, p),
         text[p].t # "end_array", text[p].t # "end"
  PROVE  NextElement(ReaderAt(text, p, Append(base, Yes), present, out))
           = ReaderAt(text, p, Append(base, No), Yes, out)
  <1> DEFINE close == "end_array"
  <1>1. close \in Closers /\ text[p].t # close
    BY DEF Closers
  <1> HIDE DEF close
  <1>2. AdvanceTo(ReaderAt(text, p, Append(base, Yes), present, out), close)
           = ReaderAt(text, p, Append(base, No), Yes, out)
    BY <1>1, ComesFirst
  <1> QED
    BY <1>2 DEF close, NextElement

LEMMA ElementComes ==
  ASSUME NEW text, NEW p, NEW base, NEW present, NEW out, base \in Seq(BOOLEAN), Stands(text, p),
         text[p] = Mark("comma")
  PROVE  NextElement(ReaderAt(text, p, Append(base, No), present, out))
           = ReaderAt(text, p + 1, Append(base, No), Yes, out)
  <1> DEFINE close == "end_array"
  <1>1. close \in Closers
    BY DEF Closers
  <1> HIDE DEF close
  <1>2. AdvanceTo(ReaderAt(text, p, Append(base, No), present, out), close)
           = ReaderAt(text, p + 1, Append(base, No), Yes, out)
    BY <1>1, ComesNext
  <1> QED
    BY <1>2 DEF close, NextElement

LEMMA ElementCloses ==
  ASSUME NEW text, NEW p, NEW base, NEW b, NEW present, NEW out, base \in Seq(BOOLEAN), b \in BOOLEAN,
         Stands(text, p), text[p] = Mark("end_array")
  PROVE  NextElement(ReaderAt(text, p, Append(base, b), present, out))
           = ReaderAt(text, p + 1, base, No, out)
  <1> DEFINE close == "end_array"
  <1>1. close \in Closers /\ text[p] = Mark(close)
    BY DEF Closers
  <1> HIDE DEF close
  <1>2. AdvanceTo(ReaderAt(text, p, Append(base, b), present, out), close)
           = ReaderAt(text, p + 1, base, No, out)
    BY <1>1, Closes
  <1> QED
    BY <1>2 DEF close, NextElement

LEMMA BoundFirst ==
  ASSUME NEW text, NEW p, NEW base, NEW present, NEW out, NEW v, base \in Seq(BOOLEAN),
         HasToken(text, p, Real(v))
  PROVE  Bound(ReaderAt(text, p, Append(base, Yes), present, out))
           = ReaderAt(text, p + 1, Append(base, No), Yes, v)
  <1> DEFINE f == Append(base, Yes)
             g == Append(base, No)
             r == ReaderAt(text, p, f, present, out)
             s == ReaderAt(text, p, g, Yes, out)
             w == ReaderAt(text, p + 1, g, Yes, v)
  <1>0. IsText(text) /\ p \in 1..Len(text) /\ text[p] = Real(v)
    BY DEF HasToken
  <1>1. Stands(text, p) /\ text[p].t # "end_array" /\ text[p].t # "end"
    BY <1>0, RealStands
  <1>2. NextElement(r) = s
    BY <1>1, ElementFirst
  <1>3. s.err = "none" /\ s.present = Yes
    <2> HIDE DEF g
    <2> QED
      BY DEF ReaderAt
  <1>4. ReadDouble(s) = w
    <2> HIDE DEF g
    <2> QED
      BY <1>0, <1>1, DoubleRead
  <1>5. Yes
    BY YesNo
  <1> SUFFICES Bound(r) = w
    OBVIOUS
  <1> HIDE DEF f, g, r, s, w
  <1> QED
    BY <1>2, <1>3, <1>4, <1>5, Zenon DEF Bound, Then

LEMMA BoundNext ==
  ASSUME NEW text, NEW p, NEW base, NEW present, NEW out, NEW v, base \in Seq(BOOLEAN),
         HasToken(text, p, Mark("comma")), HasToken(text, p + 1, Real(v))
  PROVE  Bound(ReaderAt(text, p, Append(base, No), present, out))
           = ReaderAt(text, p + 2, Append(base, No), Yes, v)
  <1>p. p + 1 \in 1..Len(text) /\ text[p + 1] = Real(v)
    BY DEF HasToken
  <1> DEFINE q == p + 1
             g == Append(base, No)
             r == ReaderAt(text, p, g, present, out)
             s == ReaderAt(text, q, g, Yes, out)
             w == ReaderAt(text, q + 1, g, Yes, v)
  <1>0. IsText(text) /\ p \in 1..Len(text) /\ text[p] = Mark("comma")
    BY DEF HasToken
  <1>1. Stands(text, q) /\ text[q].t # "end_array" /\ text[q].t # "end"
    <2> HIDE DEF q
    <2> QED
      BY <1>0, <1>p, RealStands DEF q
  <1>2. Stands(text, p)
    BY <1>0, MarkStands
  <1>3. NextElement(r) = s
    BY <1>0, <1>2, ElementComes
  <1>4. s.err = "none" /\ s.present = Yes
    <2> HIDE DEF g, q
    <2> QED
      BY DEF ReaderAt
  <1>5. ReadDouble(s) = w
    <2> HIDE DEF g, q
    <2> QED
      BY <1>p, <1>1, DoubleRead DEF q
  <1>6. Yes
    BY YesNo
  <1>7. q + 1 = p + 2
    BY <1>0
  <1> SUFFICES Bound(r) = w
    BY <1>7
  <1> HIDE DEF q, g, r, s, w
  <1> QED
    BY <1>3, <1>4, <1>5, <1>6, Zenon DEF Bound, Then

Triple(x) == <<x[1], x[2], x[3]>>

RangeText(x) == Bracketed("begin_array", [j \in 1..3 |-> <<Real(x[j])>>], "end_array")

\* What a range is in a text.
RangeIn(text, p, x) ==
    /\ HasToken(text, p, Mark("begin_array"))
    /\ HasToken(text, p + 1, Real(x[1])) /\ HasToken(text, p + 2, Mark("comma"))
    /\ HasToken(text, p + 3, Real(x[2])) /\ HasToken(text, p + 4, Mark("comma"))
    /\ HasToken(text, p + 5, Real(x[3])) /\ HasToken(text, p + 6, Mark("end_array"))

LEMMA RangePieces ==
  ASSUME NEW x
  PROVE  TextList([j \in 1..3 |-> <<Real(x[j])>>])
  <1> DEFINE P == [j \in 1..3 |-> <<Real(x[j])>>]
  <1>1. Len(P) = 3
    BY TextMade
  <1>2. \A j \in 1..3 : IsText(P[j])
    BY OneToken DEF IsOne
  <1> HIDE DEF P
  <1> QED
    BY <1>1, <1>2 DEF TextList, P

LEMMA RangeAt ==
  ASSUME NEW text, NEW p, NEW x, IsText(text), At(text, p, RangeText(x))
  PROVE  RangeIn(text, p, x) /\ Len(RangeText(x)) = 7
  <1> DEFINE P == [j \in 1..3 |-> <<Real(x[j])>>]
             e == p + Len(RangeText(x))
  <1>1. TextList(P)
    BY RangePieces
  <1>2. PICK f : LaidOut(text, p, e, "begin_array", P, "end_array", f)
    BY <1>1, BracketedAt DEF RangeText
  <1>3. Len(P) = 3 /\ P[1] = <<Real(x[1])>> /\ P[2] = <<Real(x[2])>> /\ P[3] = <<Real(x[3])>>
    BY TextMade
  <1>4. /\ Len(<<Real(x[1])>>) = 1 /\ Len(<<Real(x[2])>>) = 1 /\ Len(<<Real(x[3])>>) = 1
        /\ <<Real(x[1])>>[1] = Real(x[1]) /\ <<Real(x[2])>>[1] = Real(x[2])
        /\ <<Real(x[3])>>[1] = Real(x[3])
    BY OneToken DEF IsOne
  <1> HIDE DEF P, e
  <1>5. /\ text[p] = Mark("begin_array") /\ f[1] = p + 1 /\ p \in Nat \ {0} /\ e - 1 <= Len(text)
        /\ \A i \in 1..3 : At(text, f[i], P[i]) /\ f[i + 1] = (f[i] + Len(P[i])) + 1
        /\ \A i \in 2..3 : text[f[i] - 1] = Mark("comma")
        /\ text[e - 1] = Mark("end_array") /\ e \in Nat /\ e = f[4]
    <2>1. /\ text[p] = Mark("begin_array") /\ f[1] = p + 1 /\ p \in Nat \ {0} /\ e - 1 <= Len(text)
          /\ text[e - 1] = Mark("end_array") /\ e \in Nat
          /\ e = IF Len(P) = 0 THEN p + 2 ELSE f[Len(P) + 1]
          /\ \A i \in 1..Len(P) : At(text, f[i], P[i])
          /\ \A i \in 1..Len(P) : f[i + 1] = (f[i] + Len(P[i])) + 1
          /\ \A i \in 2..Len(P) : text[f[i] - 1] = Mark("comma")
      BY <1>2, Zenon DEF LaidOut
    <2> QED
      BY <1>3, <2>1
  <1>6. /\ At(text, f[1], P[1]) /\ At(text, f[2], P[2]) /\ At(text, f[3], P[3])
        /\ text[f[2] - 1] = Mark("comma") /\ text[f[3] - 1] = Mark("comma")
        /\ f[2] = (f[1] + Len(P[1])) + 1 /\ f[3] = (f[2] + Len(P[2])) + 1
        /\ f[4] = (f[3] + Len(P[3])) + 1
    <2>1. 1 \in 1..3 /\ 2 \in 1..3 /\ 3 \in 1..3 /\ 1 + 1 = 2 /\ 2 + 1 = 3 /\ 3 + 1 = 4
      OBVIOUS
    <2>2. 2 \in 2..3 /\ 3 \in 2..3
      OBVIOUS
    <2>3. ASSUME NEW i, i \in 1..3 PROVE At(text, f[i], P[i]) /\ f[i + 1] = (f[i] + Len(P[i])) + 1
      BY <1>5, <2>3
    <2>4. /\ At(text, f[1], P[1]) /\ f[1 + 1] = (f[1] + Len(P[1])) + 1
          /\ At(text, f[2], P[2]) /\ f[2 + 1] = (f[2] + Len(P[2])) + 1
          /\ At(text, f[3], P[3]) /\ f[3 + 1] = (f[3] + Len(P[3])) + 1
      BY <2>1, <2>3, Zenon
    <2>5. text[f[2] - 1] = Mark("comma") /\ text[f[3] - 1] = Mark("comma")
      BY <1>5, <2>2, Zenon
    <2> QED
      BY <2>1, <2>4, <2>5
  <1>7. f[1] = p + 1 /\ f[2] = p + 3 /\ f[3] = p + 5 /\ e = p + 7 /\ p \in Nat
    <2>1. f[1] = p + 1 /\ p \in Nat
      BY <1>5
    <2>2. f[2] = (f[1] + 1) + 1 /\ f[3] = (f[2] + 1) + 1 /\ f[4] = (f[3] + 1) + 1 /\ e = f[4]
      BY <1>3, <1>4, <1>5, <1>6
    <2> QED
      BY <2>1, <2>2
  <1>8. RangeIn(text, p, x)
    <2>1. /\ text[(f[1] - 1) + 1] = Real(x[1]) /\ text[(f[2] - 1) + 1] = Real(x[2])
          /\ text[(f[3] - 1) + 1] = Real(x[3])
      BY <1>3, <1>4, <1>6 DEF At
    <2>2. /\ (f[1] - 1) + 1 = p + 1 /\ (f[2] - 1) + 1 = p + 3 /\ (f[3] - 1) + 1 = p + 5
          /\ f[2] - 1 = p + 2 /\ f[3] - 1 = p + 4 /\ e - 1 = p + 6
      BY <1>7
    <2>3. Len(text) \in Nat /\ p \in Nat \ {0} /\ p + 6 <= Len(text)
      BY <1>5, <2>2, TextIs
    <2>4. /\ p \in 1..Len(text) /\ p + 1 \in 1..Len(text) /\ p + 2 \in 1..Len(text)
          /\ p + 3 \in 1..Len(text) /\ p + 4 \in 1..Len(text) /\ p + 5 \in 1..Len(text)
          /\ p + 6 \in 1..Len(text)
      BY <2>3
    <2>5. /\ text[p + 1] = Real(x[1]) /\ text[p + 3] = Real(x[2]) /\ text[p + 5] = Real(x[3])
          /\ text[p + 2] = Mark("comma") /\ text[p + 4] = Mark("comma")
          /\ text[p + 6] = Mark("end_array") /\ text[p] = Mark("begin_array")
      BY <1>5, <1>6, <2>1, <2>2, Zenon
    <2>6. IsText(text)
      OBVIOUS
    <2> QED
      BY <2>4, <2>5, <2>6, Zenon DEF RangeIn, HasToken
  <1>9. Len(RangeText(x)) \in Nat
    <2>1. IsText(RangeText(x))
      BY <1>1, BracketedText DEF RangeText, P
    <2> QED
      BY <2>1, TextIs
  <1>10. Len(RangeText(x)) = 7
    <2> DEFINE n == Len(RangeText(x))
    <2>1. n \in Nat /\ p + n = p + 7 /\ p \in Nat
      BY <1>7, <1>9 DEF e
    <2> HIDE DEF n
    <2>2. n = 7
      BY <2>1
    <2> QED
      BY <2>2 DEF n
  <1> QED
    BY <1>8, <1>10

\* ReadRange, when none of its calls fails.
LEMMA RangeSteps ==
  ASSUME NEW r, NEW b, NEW s, NEW e, NEW d, NEW n,
         b = BeginArray(r), b.err = "none", s = Bound(b), s.err = "none", e = Bound(s),
         e.err = "none", d = Bound(e), d.err = "none", n = NextElement(d), n.err = "none", n.present = No
  PROVE  ReadRange(r) = [n EXCEPT !.out = <<s.out, e.out, d.out>>]
  BY ZenonT(30) DEF ReadRange, Then, Bound, No

LEMMA RangeRead ==
  ASSUME NEW text, NEW p, NEW base, NEW present, NEW out, NEW x, base \in Seq(BOOLEAN),
         Len(base) # MaxDepth, RangeIn(text, p, x)
  PROVE  ReadRange(ReaderAt(text, p, base, present, out))
           = ReaderAt(text, p + 7, base, No, Triple(x))
  <1> DEFINE f == Append(base, Yes)
             g == Append(base, No)
             x1 == x[1]
             x2 == x[2]
             x3 == x[3]
             r == ReaderAt(text, p, base, present, out)
             b == ReaderAt(text, p + 1, f, present, out)
             s == ReaderAt(text, p + 2, g, Yes, x1)
             e == ReaderAt(text, p + 4, g, Yes, x2)
             d == ReaderAt(text, p + 6, g, Yes, x3)
             n == ReaderAt(text, p + 7, base, No, x3)
             y == <<x1, x2, x3>>
  <1> HIDE DEF x1, x2, x3
  <1>0. p \in Nat
    <2>1. p \in 1..Len(text) /\ Len(text) \in Nat
      BY TextIs DEF RangeIn, HasToken
    <2> QED
      BY <2>1
  <1>1. /\ HasToken(text, p, Mark("begin_array"))
        /\ HasToken(text, p + 1, Real(x1)) /\ HasToken(text, p + 2, Mark("comma"))
        /\ HasToken(text, (p + 2) + 1, Real(x2)) /\ HasToken(text, p + 4, Mark("comma"))
        /\ HasToken(text, (p + 4) + 1, Real(x3)) /\ HasToken(text, p + 6, Mark("end_array"))
    <2>1. (p + 2) + 1 = p + 3 /\ (p + 4) + 1 = p + 5
      BY <1>0
    <2> QED
      BY <2>1, Zenon DEF RangeIn, x1, x2, x3
  <1>2. (p + 1) + 1 = p + 2 /\ (p + 2) + 2 = p + 4 /\ (p + 4) + 2 = p + 6 /\ (p + 6) + 1 = p + 7
    BY <1>0
  <1>3. BeginArray(r) = b
    <2>1. Stands(text, p) /\ text[p] = Mark("begin_array")
      BY <1>1, MarkStands DEF HasToken
    <2> QED
      BY <2>1, ArrayBegins
  <1>4. Bound(b) = s
    <2> DEFINE q == p + 1
    <2>1. HasToken(text, q, Real(x1))
      BY <1>1
    <2> HIDE DEF q
    <2>2. Bound(ReaderAt(text, q, f, present, out)) = ReaderAt(text, q + 1, g, Yes, x1)
      BY <2>1, BoundFirst
    <2> QED
      BY <1>2, <2>2, Zenon DEF q
  <1>5. Bound(s) = e
    <2> DEFINE q == p + 2
    <2>1. HasToken(text, q, Mark("comma")) /\ HasToken(text, q + 1, Real(x2))
      BY <1>1
    <2> HIDE DEF q
    <2>2. Bound(ReaderAt(text, q, g, Yes, x1)) = ReaderAt(text, q + 2, g, Yes, x2)
      BY <2>1, BoundNext
    <2> QED
      BY <1>2, <2>2, Zenon DEF q
  <1>6. Bound(e) = d
    <2> DEFINE q == p + 4
    <2>1. HasToken(text, q, Mark("comma")) /\ HasToken(text, q + 1, Real(x3))
      BY <1>1
    <2> HIDE DEF q
    <2>2. Bound(ReaderAt(text, q, g, Yes, x2)) = ReaderAt(text, q + 2, g, Yes, x3)
      BY <2>1, BoundNext
    <2> QED
      BY <1>2, <2>2, Zenon DEF q
  <1>7. NextElement(d) = n
    <2> DEFINE q == p + 6
    <2>1. Stands(text, q) /\ text[q] = Mark("end_array")
      BY <1>1, MarkStands DEF HasToken
    <2> HIDE DEF q
    <2>2. NextElement(ReaderAt(text, q, g, Yes, x3)) = ReaderAt(text, q + 1, base, No, x3)
      BY <2>1, ElementCloses, YesNoBoolean
    <2> QED
      BY <1>2, <2>2, Zenon DEF q
  <1> HIDE DEF f, g
  <1>8. /\ b.err = "none" /\ s.err = "none" /\ e.err = "none" /\ d.err = "none" /\ n.err = "none"
        /\ n.present = No /\ s.out = x1 /\ e.out = x2 /\ d.out = x3
    BY DEF ReaderAt
  <1>9. [n EXCEPT !.out = y] = ReaderAt(text, p + 7, base, No, y)
    <2> HIDE DEF y
    <2> QED
      BY DEF ReaderAt
  <1> HIDE DEF r, b, s, e, d, n
  <1>11. ReadRange(r) = [n EXCEPT !.out = <<s.out, e.out, d.out>>]
    BY <1>3, <1>4, <1>5, <1>6, <1>7, <1>8, RangeSteps
  <1> QED
    BY <1>8, <1>9, <1>11, Zenon DEF r, y, x1, x2, x3, Triple

-----------------------------------------------------------------------------
(* How many tokens of a type there are.                                    *)

LEMMA CountIsNat ==
  ASSUME NEW text, NEW c, IsText(text)
  PROVE  Count(text, c) \in Nat /\ IsFiniteSet({i \in DOMAIN text : text[i].t = c})
  <1> DEFINE A == {i \in DOMAIN text : text[i].t = c}
  <1>1. DOMAIN text = 1..Len(text) /\ Len(text) \in Nat
    BY TextIs
  <1>2. IsFiniteSet(DOMAIN text)
    BY <1>1, FS_Interval
  <1>3. A \in SUBSET DOMAIN text
    OBVIOUS
  <1> HIDE DEF A
  <1>4. IsFiniteSet(A)
    BY <1>2, <1>3, FS_Subset
  <1>5. Cardinality(A) \in Nat
    BY <1>4, FS_CardinalityType
  <1> QED
    BY <1>4, <1>5, Zenon DEF Count, A

LEMMA CountAtLeast ==
  ASSUME NEW text, NEW c, IsText(text), NEW m, m \in Nat, NEW f,
         \A i \in 1..m : f[i] \in 1..Len(text) /\ text[f[i]].t = c,
         \A i, j \in 1..m : i < j => f[i] < f[j]
  PROVE  Count(text, c) \in Nat /\ Count(text, c) >= m
  <1> DEFINE A == {i \in DOMAIN text : text[i].t = c}
             g == [i \in 1..m |-> f[i]]
  <1>1. DOMAIN text = 1..Len(text) /\ Len(text) \in Nat
    BY TextIs
  <1>2. \A i \in 1..m : f[i] \in A
    BY <1>1
  <1>3. IsFiniteSet(A) /\ Count(text, c) \in Nat /\ Count(text, c) = Cardinality(A)
    BY CountIsNat DEF Count
  <1> HIDE DEF A
  <1>4. g \in [1..m -> A]
    BY <1>2
  <1>5. ASSUME NEW i \in 1..m, NEW j \in 1..m, g[i] = g[j] PROVE i = j
    <2>1. ~(i < j) /\ ~(j < i)
      BY <1>1, <1>5
    <2> QED
      BY <2>1
  <1>6. g \in Injection(1..m, A)
    BY <1>4, <1>5 DEF Injection, IsInjective
  <1>7. Cardinality(1..m) <= Cardinality(A) /\ Cardinality(1..m) = m
    <2>1. Cardinality(1..m) <= Cardinality(A)
      BY <1>3, <1>6, FS_Injection
    <2>2. Cardinality(1..m) = IF 1 > m THEN 0 ELSE m - 1 + 1
      BY FS_Interval
    <2> QED
      BY <2>1, <2>2
  <1> QED
    BY <1>3, <1>7

-----------------------------------------------------------------------------
(* The turns of ReadPriceRanges.                                           *)

\* g is what the turns come to.
GridTurns(r, g) ==
    /\ Steps(g, "ranges", Count(r.text, "begin_array"),
             [BeginArray(r) EXCEPT !.present = TRUE, !.out = << >>], << >>)
    /\ ReadPriceRanges(r) = g[Count(r.text, "begin_array")]

LEMMA GridTurnsExist ==
  ASSUME NEW r, IsText(r.text)
  PROVE  \E g : GridTurns(r, g)
  <1> DEFINE n == Count(r.text, "begin_array")
             a == [BeginArray(r) EXCEPT !.present = TRUE, !.out = << >>]
             body(g, i) == IF i = 0 THEN a ELSE GridTurn(g[i - 1])
             turn == CHOOSE g : g = [i \in 0..n |-> body(g, i)]
  <1>1. n \in Nat
    BY CountIsNat
  <1>2. ReadPriceRanges(r) = turn[n]
    BY Zenon DEF ReadPriceRanges, GridTurn
  <1>3. PICK g : Steps(g, "ranges", n, a, << >>)
    <2> HIDE DEF n, a
    <2> QED
      BY <1>1, RecursionIs
  <1> HIDE DEF n, a
  <1>4. ASSUME NEW i \in 0..n PROVE g[i] = body(g, i)
    <2>1. CASE i = 0
      BY <1>3, <2>1, Zenon DEF Steps
    <2>2. CASE i # 0
      <3>1. i \in 1..n
        BY <1>1, <2>2
      <3>2. g[i] = StepOf("ranges", i, g[i - 1], << >>)
        BY <1>3, <3>1, Zenon DEF Steps
      <3> QED
        BY <2>2, <3>2, SMT DEF StepOf
    <2> QED
      BY <2>1, <2>2
  <1>5. g = [i \in 0..n |-> g[i]]
    BY <1>3, Zenon DEF Steps
  <1>6. g = [i \in 0..n |-> body(g, i)]
    BY <1>4, <1>5, Zenon
  <1>7. turn = [i \in 0..n |-> body(turn, i)]
    BY <1>6, Zenon
  <1> HIDE DEF turn
  <1>8. turn = [i \in 0..n |-> turn[i]]
    BY <1>7
  <1>9. turn[0] = a /\ \A i \in 1..n : turn[i] = StepOf("ranges", i, turn[i - 1], << >>)
    <2>1. 0 \in 0..n /\ \A i \in 1..n : i \in 0..n /\ i # 0
      BY <1>1
    <2>2. \A i \in 0..n : turn[i] = body(turn, i)
      BY <1>7, Zenon
    <2>3. turn[0] = a
      BY <2>1, <2>2, Zenon
    <2>4. ASSUME NEW i \in 1..n PROVE turn[i] = StepOf("ranges", i, turn[i - 1], << >>)
      <3>1. turn[i] = GridTurn(turn[i - 1])
        BY <2>1, <2>2, Zenon
      <3> QED
        BY <3>1, SMT DEF StepOf
    <2> QED
      BY <2>3, <2>4
  <1>10. Steps(turn, "ranges", n, a, << >>)
    BY <1>8, <1>9, Zenon DEF Steps
  <1> QED
    BY <1>2, <1>10, Zenon DEF GridTurns, n, a

\* A turn that takes an entry, one that finds the end, and one after that.
LEMMA GridTakes ==
  ASSUME NEW s, s.present = Yes, s.err = "none", NextElement(s).err = "none",
         NextElement(s).present = Yes, ReadRange(NextElement(s)).err = "none"
  PROVE  GridTurn(s) = [ReadRange(NextElement(s)) EXCEPT !.present = Yes, !.out = Append(s.out, @)]
  BY Zenon DEF GridTurn, Then, Yes

LEMMA GridEnds ==
  ASSUME NEW s, NEW e, s.present = Yes, s.err = "none", e = NextElement(s), e.err = "none", e.present = No
  PROVE  GridTurn(s) = e
  BY Zenon DEF GridTurn, Then, Yes, No

LEMMA GridStays ==
  ASSUME NEW s, s.present = No
  PROVE  GridTurn(s) = s
  BY Zenon DEF GridTurn, No

\* A list of ranges, its text, and where the parts of the text are.
IsGrid(v) == IsText(v) /\ \A i \in 1..Len(v) : v[i] = Triple(v[i])

RangeTexts(v) == [i \in DOMAIN v |-> RangeText(v[i])]
GridText(v) == Bracketed("begin_array", RangeTexts(v), "end_array")

RangePos(p, i) == (p + 8 * i) - 7
GridEnd(p, v) == IF Len(v) = 0 THEN p + 1 ELSE p + 8 * Len(v)

GridIn(text, p, v) ==
    /\ p \in Nat /\ HasToken(text, p, Mark("begin_array"))
    /\ \A i \in 1..Len(v) : RangeIn(text, RangePos(p, i), v[i])
    /\ \A i \in 1..(Len(v) - 1) : HasToken(text, p + 8 * i, Mark("comma"))
    /\ HasToken(text, GridEnd(p, v), Mark("end_array"))

LEMMA GridPieces ==
  ASSUME NEW v, IsText(v)
  PROVE  /\ TextList(RangeTexts(v)) /\ Len(RangeTexts(v)) = Len(v) /\ Len(v) \in Nat
         /\ \A i \in 1..Len(v) : RangeTexts(v)[i] = RangeText(v[i])
  <1> DEFINE P == RangeTexts(v)
             n == Len(v)
  <1>1. n \in Nat /\ DOMAIN v = 1..n
    BY TextIs
  <1>2. P = [i \in 1..n |-> RangeText(v[i])]
    BY <1>1, Zenon DEF RangeTexts
  <1> HIDE DEF P, n
  <1>3. \A i \in 1..n : P[i] = RangeText(v[i])
    BY <1>2
  <1>4. P = [i \in 1..n |-> P[i]]
    BY <1>2, <1>3, Zenon
  <1>5. Len(P) = n
    BY <1>1, <1>4, TextMade
  <1>6. ASSUME NEW i \in 1..n PROVE IsText(P[i])
    <2>1. IsText(RangeText(v[i]))
      BY RangePieces, BracketedText DEF RangeText
    <2> QED
      BY <1>3, <2>1
  <1> QED
    BY <1>1, <1>3, <1>5, <1>6 DEF TextList, P, n

LEMMA GridAt ==
  ASSUME NEW text, NEW p, NEW v, IsText(text), IsText(v), At(text, p, GridText(v))
  PROVE  GridIn(text, p, v) /\ p + Len(GridText(v)) = GridEnd(p, v) + 1
  <1> DEFINE P == RangeTexts(v)
             n == Len(v)
             e == p + Len(GridText(v))
  <1>1. TextList(P) /\ Len(P) = n /\ n \in Nat /\ \A i \in 1..n : P[i] = RangeText(v[i])
    BY GridPieces
  <1>2. PICK f : LaidOut(text, p, e, "begin_array", P, "end_array", f)
    BY <1>1, BracketedAt DEF GridText
  <1> HIDE DEF P, n, e
  <1>3. /\ text[p] = Mark("begin_array") /\ f[1] = p + 1 /\ p \in Nat \ {0} /\ p < e
        /\ e - 1 <= Len(text) /\ text[e - 1] = Mark("end_array") /\ e \in Nat
        /\ e = IF n = 0 THEN p + 2 ELSE f[n + 1]
        /\ \A i \in 1..(n + 1) : f[i] \in Nat \ {0}
        /\ \A i \in 1..n : At(text, f[i], P[i])
        /\ \A i \in 1..n : f[i + 1] = (f[i] + Len(P[i])) + 1
        /\ \A i \in 2..n : text[f[i] - 1] = Mark("comma")
    BY <1>1, <1>2, Zenon DEF LaidOut
  <1>4. \A i \in 1..n : RangeIn(text, f[i], v[i]) /\ Len(P[i]) = 7
    BY <1>1, <1>3, RangeAt, SMTT(30)
  <1>5. \A k \in 0..n : f[k + 1] = RangePos(p, k + 1)
    <2> DEFINE T == {k \in 0..n : f[k + 1] = RangePos(p, k + 1)}
    <2>1. 0 \in T
      BY <1>1, <1>3 DEF RangePos
    <2>2. ASSUME NEW k \in 1..n, k - 1 \in T PROVE k \in T
      <3>1. f[k] = RangePos(p, k) /\ k \in 0..n
        BY <1>1, <2>2
      <3>2. f[k + 1] = (f[k] + 7) + 1
        BY <1>3, <1>4
      <3>3. f[k + 1] = RangePos(p, k + 1)
        BY <1>3, <3>1, <3>2 DEF RangePos
      <3> QED
        BY <3>1, <3>3
    <2> HIDE DEF T
    <2>3. \A k \in 0..n : k \in T
      BY <1>1, <2>1, <2>2, UpTo
    <2> QED
      BY <2>3 DEF T
  <1>6. \A i \in 1..n : f[i] = RangePos(p, i)
    <2> SUFFICES ASSUME NEW i \in 1..n PROVE f[i] = RangePos(p, i)
      OBVIOUS
    <2>1. i - 1 \in 0..n /\ (i - 1) + 1 = i
      BY <1>1
    <2>2. f[(i - 1) + 1] = RangePos(p, (i - 1) + 1)
      BY <1>5, <2>1
    <2> QED
      BY <2>1, <2>2
  <1>7. e = GridEnd(p, v) + 1
    <2>1. n # 0 => f[n + 1] = RangePos(p, n + 1)
      BY <1>1, <1>5
    <2> QED
      BY <1>1, <1>3, <2>1 DEF GridEnd, RangePos, n
  <1>8. Len(text) \in Nat /\ p \in 1..Len(text) /\ GridEnd(p, v) \in 1..Len(text) /\ GridEnd(p, v) = e - 1
    <2>1. GridEnd(p, v) \in Nat
      BY <1>1, <1>3 DEF GridEnd, n
    <2> DEFINE g == GridEnd(p, v)
    <2> HIDE DEF g
    <2>2. g \in Nat /\ e = g + 1
      BY <1>7, <2>1 DEF g
    <2>3. Len(text) \in Nat
      BY TextIs
    <2>4. e - 1 = g /\ p \in 1..Len(text) /\ g \in 1..Len(text)
      BY <1>3, <2>2, <2>3
    <2> QED
      BY <2>3, <2>4 DEF g
  <1>9. \A i \in 1..(n - 1) : HasToken(text, p + 8 * i, Mark("comma"))
    <2> SUFFICES ASSUME NEW i \in 1..(n - 1) PROVE HasToken(text, p + 8 * i, Mark("comma"))
      OBVIOUS
    <2> DEFINE q == p + 8 * i
    <2>1. i + 1 \in 2..n /\ i + 1 \in 1..n /\ i \in 1..n /\ i \in Nat
      BY <1>1
    <2>2. text[f[i + 1] - 1] = Mark("comma") /\ f[i + 1] = RangePos(p, i + 1)
      BY <1>3, <1>6, <2>1
    <2>3. f[i + 1] - 1 = q
      BY <1>3, <2>1, <2>2 DEF RangePos
    <2>4. RangeIn(text, RangePos(p, i + 1), v[i + 1])
      BY <1>4, <1>6, <2>1
    <2>5. RangePos(p, i + 1) \in 1..Len(text)
      BY <2>4, Zenon DEF RangeIn, HasToken
    <2>6. q \in 1..Len(text)
      <3>1. q \in Nat \ {0} /\ q + 1 = RangePos(p, i + 1)
        BY <1>3, <2>1 DEF RangePos
      <3> HIDE DEF q
      <3> QED
        BY <1>8, <2>5, <3>1
    <2> HIDE DEF q
    <2>7. text[q] = Mark("comma")
      BY <2>2, <2>3
    <2> QED
      BY <2>6, <2>7 DEF HasToken, q
  <1>10. \A i \in 1..n : RangeIn(text, RangePos(p, i), v[i])
    BY <1>4, <1>6
  <1>11. HasToken(text, p, Mark("begin_array")) /\ HasToken(text, GridEnd(p, v), Mark("end_array")) /\ p \in Nat
    BY <1>3, <1>8 DEF HasToken
  <1>12. GridIn(text, p, v)
    BY <1>9, <1>10, <1>11, Zenon DEF GridIn, n
  <1> QED
    BY <1>7, <1>12 DEF e

LEMMA DeeperLevel ==
  ASSUME NEW base, base \in Seq(BOOLEAN), NEW b, b \in BOOLEAN, Len(base) + 1 # MaxDepth
  PROVE  Append(base, b) \in Seq(BOOLEAN) /\ Len(Append(base, b)) # MaxDepth
  BY Levels

\* What a turn makes of a reader behind the range, whichever way it came there.
LEMMA TurnTakes ==
  ASSUME NEW s, NEW text, NEW q, NEW base, NEW out, NEW x, base \in Seq(BOOLEAN),
         Len(base) + 1 # MaxDepth, s.present = Yes, s.err = "none", s.out = out, RangeIn(text, q, x),
         NextElement(s) = ReaderAt(text, q, Append(base, No), Yes, out)
  PROVE  GridTurn(s)
           = ReaderAt(text, q + 7, Append(base, No), Yes, Append(out, Triple(x)))
  <1> DEFINE g == Append(base, No)
             y == Triple(x)
             o == Append(out, y)
             e == ReaderAt(text, q, g, Yes, out)
             w == ReaderAt(text, q + 7, g, No, y)
  <1>1. g \in Seq(BOOLEAN) /\ Len(g) # MaxDepth
    BY DeeperLevel, YesNoBoolean
  <1> HIDE DEF g
  <1>2. ReadRange(e) = w
    BY <1>1, RangeRead
  <1> HIDE DEF y
  <1>3. e.err = "none" /\ e.present = Yes /\ w.err = "none" /\ w.out = y
    BY DEF ReaderAt
  <1> HIDE DEF o
  <1> DEFINE z == ReaderAt(text, q + 7, g, Yes, y)
  <1>4. [w EXCEPT !.present = Yes] = z
    BY DEF ReaderAt
  <1>5. [z EXCEPT !.out = o] = ReaderAt(text, q + 7, g, Yes, o)
    BY DEF ReaderAt
  <1>6. NextElement(s) = e
    BY DEF g
  <1>7. o = Append(s.out, w.out)
    BY <1>3, Zenon DEF o
  <1> HIDE DEF e, w, z
  <1>8. GridTurn(s) = [w EXCEPT !.present = Yes, !.out = o]
    <2>1. /\ NextElement(s).err = "none" /\ NextElement(s).present = Yes
          /\ ReadRange(NextElement(s)) = w
      BY <1>2, <1>3, <1>6
    <2>2. GridTurn(s) = [ReadRange(NextElement(s)) EXCEPT !.present = Yes, !.out = Append(s.out, @)]
      BY <1>3, <2>1, GridTakes
    <2> QED
      BY <1>7, <2>1, <2>2, Zenon
  <1>9. GridTurn(s) = [[w EXCEPT !.present = Yes] EXCEPT !.out = o]
    BY <1>8, Zenon
  <1> QED
    BY <1>4, <1>5, <1>9, Zenon DEF o, y, g

LEMMA TurnFirst ==
  ASSUME NEW text, NEW q, NEW base, NEW out, NEW x, base \in Seq(BOOLEAN),
         Len(base) + 1 # MaxDepth, RangeIn(text, q, x)
  PROVE  GridTurn(ReaderAt(text, q, Append(base, Yes), Yes, out))
           = ReaderAt(text, q + 7, Append(base, No), Yes, Append(out, Triple(x)))
  <1> DEFINE f == Append(base, Yes)
             s == ReaderAt(text, q, f, Yes, out)
  <1>1. Stands(text, q) /\ text[q].t = "begin_array"
    <2>1. IsText(text) /\ q \in 1..Len(text) /\ text[q] = Mark("begin_array")
      BY DEF RangeIn, HasToken
    <2> QED
      BY <2>1, MarkStands
  <1>2. text[q].t # "end_array" /\ text[q].t # "end"
    BY <1>1
  <1>3. NextElement(s) = ReaderAt(text, q, Append(base, No), Yes, out)
    BY <1>1, <1>2, ElementFirst
  <1> HIDE DEF f
  <1>4. s.present = Yes /\ s.err = "none" /\ s.out = out
    BY DEF ReaderAt
  <1> SUFFICES GridTurn(s)
           = ReaderAt(text, q + 7, Append(base, No), Yes, Append(out, Triple(x)))
    BY DEF f
  <1> HIDE DEF s
  <1> QED
    BY <1>3, <1>4, TurnTakes

LEMMA TurnNext ==
  ASSUME NEW text, NEW p, NEW base, NEW out, NEW x, base \in Seq(BOOLEAN),
         Len(base) + 1 # MaxDepth, HasToken(text, p, Mark("comma")), RangeIn(text, p + 1, x)
  PROVE  GridTurn(ReaderAt(text, p, Append(base, No), Yes, out))
           = ReaderAt(text, (p + 1) + 7, Append(base, No), Yes, Append(out, Triple(x)))
  <1> DEFINE g == Append(base, No)
             q == p + 1
             s == ReaderAt(text, p, g, Yes, out)
  <1>1. Stands(text, p) /\ text[p] = Mark("comma")
    BY MarkStands DEF HasToken
  <1>2. NextElement(s) = ReaderAt(text, p + 1, Append(base, No), Yes, out)
    BY <1>1, ElementComes
  <1>3. RangeIn(text, q, x)
    OBVIOUS
  <1>4. NextElement(s) = ReaderAt(text, q, Append(base, No), Yes, out)
    BY <1>2
  <1> HIDE DEF g, q
  <1>5. s.present = Yes /\ s.err = "none" /\ s.out = out
    BY DEF ReaderAt
  <1> SUFFICES GridTurn(s)
           = ReaderAt(text, q + 7, Append(base, No), Yes, Append(out, Triple(x)))
    BY DEF g, q
  <1> HIDE DEF s
  <1> QED
    BY <1>3, <1>4, <1>5, TurnTakes

LEMMA TurnLast ==
  ASSUME NEW text, NEW q, NEW base, NEW b, NEW out, base \in Seq(BOOLEAN), b \in BOOLEAN,
         HasToken(text, q, Mark("end_array"))
  PROVE  GridTurn(ReaderAt(text, q, Append(base, b), Yes, out)) = ReaderAt(text, q + 1, base, No, out)
  <1> DEFINE f == Append(base, b)
             s == ReaderAt(text, q, f, Yes, out)
             e == ReaderAt(text, q + 1, base, No, out)
  <1>1. Stands(text, q) /\ text[q] = Mark("end_array")
    BY MarkStands DEF HasToken
  <1>2. NextElement(s) = e
    BY <1>1, ElementCloses
  <1> HIDE DEF f
  <1>3. s.present = Yes /\ s.err = "none" /\ e.present = No /\ e.err = "none"
    BY DEF ReaderAt
  <1> SUFFICES GridTurn(s) = e
    BY DEF f
  <1> HIDE DEF s, e
  <1> QED
    BY <1>2, <1>3, GridEnds

\* The first k of v.
Prefix(v, k) == [i \in 1..k |-> v[i]]

LEMMA PrefixGrows ==
  ASSUME NEW v, IsText(v), NEW k, k \in 1..Len(v)
  PROVE  Append(Prefix(v, k - 1), v[k]) = Prefix(v, k)
  <1> DEFINE n == k - 1
             T == {v[i] : i \in 1..k}
             s == Prefix(v, n)
             w == v[k]
             a == Append(s, w)
             z == Prefix(v, k)
  <1>0. Len(v) \in Nat
    BY TextIs
  <1>1. k \in Nat \ {0} /\ n \in Nat /\ k = n + 1
    BY <1>0
  <1>2. \A i \in 1..k : v[i] \in T
    OBVIOUS
  <1> HIDE DEF T, n
  <1>3. s \in [1..n -> T] /\ z \in [1..k -> T] /\ w \in T
    BY <1>1, <1>2 DEF Prefix
  <1>4. \A i \in 1..n : s[i] = v[i]
    BY DEF Prefix
  <1>5. \A i \in 1..k : z[i] = v[i]
    BY DEF Prefix
  <1> HIDE DEF s, w, z
  <1>6. s \in Seq(T) /\ Len(s) = n /\ z \in Seq(T) /\ Len(z) = k
    BY <1>1, <1>3
  <1>7. a \in Seq(T) /\ Len(a) = n + 1 /\ a[n + 1] = w /\ \A i \in 1..n : a[i] = s[i]
    BY <1>1, <1>3, <1>6
  <1> HIDE DEF a
  <1>8. \A i \in 1..k : a[i] = z[i]
    <2> SUFFICES ASSUME NEW i \in 1..k PROVE a[i] = z[i]
      OBVIOUS
    <2>1. CASE i = k
      BY <1>1, <1>5, <1>7, <2>1 DEF w
    <2>2. CASE i # k
      <3>1. i \in 1..n
        BY <1>1, <2>2
      <3> QED
        BY <1>4, <1>5, <1>7, <3>1
    <2> QED
      BY <2>1, <2>2
  <1>9. a = z
    BY <1>1, <1>6, <1>7, <1>8, SeqEqual
  <1> QED
    BY <1>9 DEF a, s, w, z, n

LEMMA PrefixEnds ==
  ASSUME NEW v, IsText(v)
  PROVE  Prefix(v, 0) = << >> /\ Prefix(v, Len(v)) = v
  <1>1. Prefix(v, 0) = << >>
    BY DEF Prefix
  <1>2. v = [i \in 1..Len(v) |-> v[i]]
    BY TextIs
  <1> QED
    BY <1>1, <1>2, Zenon DEF Prefix

\* The reader after k turns.
GridState(text, p, base, v, k) ==
    IF k > Len(v) THEN ReaderAt(text, GridEnd(p, v) + 1, base, No, v)
    ELSE ReaderAt(text, IF k = 0 THEN p + 1 ELSE p + 8 * k,
                  Append(base, IF k = 0 THEN Yes ELSE No), Yes, Prefix(v, k))

LEMMA GridTurnIs ==
  ASSUME NEW text, NEW p, NEW base, NEW v, base \in Seq(BOOLEAN), Len(base) + 1 # MaxDepth,
         IsGrid(v), GridIn(text, p, v), NEW k, k \in Nat \ {0}
  PROVE  GridTurn(GridState(text, p, base, v, k - 1)) = GridState(text, p, base, v, k)
  <1> DEFINE n == Len(v)
             m == k - 1
  <1>0. /\ IsText(v) /\ n \in Nat /\ \A i \in 1..n : v[i] = Triple(v[i])
    BY TextIs DEF IsGrid
  <1>1. /\ p \in Nat
        /\ \A i \in 1..n : RangeIn(text, RangePos(p, i), v[i])
        /\ \A i \in 1..(n - 1) : HasToken(text, p + 8 * i, Mark("comma"))
        /\ HasToken(text, GridEnd(p, v), Mark("end_array"))
    BY Zenon DEF GridIn
  <1> HIDE DEF n, m
  <1>2. m \in Nat /\ k = m + 1
    BY DEF m
  <1>3. CASE k = 1 /\ k <= n
    <2> DEFINE q == p + 1
               x == v[1]
               o == Prefix(v, 0)
    <2>1. RangePos(p, 1) = q /\ 1 \in 1..n /\ m = 0 /\ ~(m > n) /\ ~(k > n) /\ q + 7 = p + 8 * 1
      BY <1>0, <1>1, <1>2, <1>3 DEF RangePos
    <2>2. RangeIn(text, q, x) /\ Triple(x) = x
      BY <1>0, <1>1, <2>1
    <2>3. Append(o, x) = Prefix(v, 1)
      <3>1. Append(Prefix(v, 1 - 1), v[1]) = Prefix(v, 1)
        BY <1>0, <2>1, PrefixGrows DEF n
      <3> QED
        BY <3>1
    <2> HIDE DEF q, x, o
    <2>4. GridTurn(ReaderAt(text, q, Append(base, Yes), Yes, o))
            = ReaderAt(text, q + 7, Append(base, No), Yes, Append(o, Triple(x)))
      BY <2>2, TurnFirst
    <2>5. GridState(text, p, base, v, m) = ReaderAt(text, q, Append(base, Yes), Yes, o)
      BY <2>1 DEF GridState, n, q, o
    <2>6. GridState(text, p, base, v, k) = ReaderAt(text, q + 7, Append(base, No), Yes, Prefix(v, 1))
      <3>1. k # 0 /\ k = 1
        BY <1>3
      <3> QED
        BY <2>1, <3>1, Zenon DEF GridState, n
    <2> QED
      BY <2>2, <2>3, <2>4, <2>5, <2>6, Zenon DEF m
  <1>4. CASE k # 1 /\ k <= n
    <2> DEFINE q == p + 8 * m
               x == v[k]
               o == Prefix(v, m)
    <2>1. /\ RangePos(p, k) = q + 1 /\ k \in 1..n /\ m \in 1..(n - 1) /\ m # 0 /\ k # 0
          /\ ~(m > n) /\ ~(k > n) /\ (q + 1) + 7 = p + 8 * k
      BY <1>0, <1>1, <1>2, <1>4 DEF RangePos
    <2>2. RangeIn(text, q + 1, x) /\ Triple(x) = x /\ HasToken(text, q, Mark("comma"))
      BY <1>0, <1>1, <2>1
    <2>3. Append(o, x) = Prefix(v, k)
      BY <1>0, <2>1, PrefixGrows DEF n, m
    <2> HIDE DEF q, x, o
    <2>4. GridTurn(ReaderAt(text, q, Append(base, No), Yes, o))
            = ReaderAt(text, (q + 1) + 7, Append(base, No), Yes, Append(o, Triple(x)))
      BY <2>2, TurnNext
    <2>5. GridState(text, p, base, v, m) = ReaderAt(text, q, Append(base, No), Yes, o)
      BY <2>1, Zenon DEF GridState, n, q, o
    <2>6. GridState(text, p, base, v, k)
            = ReaderAt(text, (q + 1) + 7, Append(base, No), Yes, Prefix(v, k))
      BY <2>1, Zenon DEF GridState, n
    <2> QED
      BY <2>2, <2>3, <2>4, <2>5, <2>6, Zenon DEF m
  <1>5. CASE k = n + 1
    <2> DEFINE q == GridEnd(p, v)
               b == IF m = 0 THEN Yes ELSE No
    <2>1. m = n /\ ~(m > n) /\ k > n /\ q = IF m = 0 THEN p + 1 ELSE p + 8 * m
      BY <1>0, <1>2, <1>5 DEF GridEnd, n
    <2>2. b \in BOOLEAN
      BY YesNoBoolean
    <2>3. HasToken(text, q, Mark("end_array"))
      BY <1>1
    <2>4. Prefix(v, m) = v
      BY <1>0, <2>1, PrefixEnds DEF n
    <2>5. GridState(text, p, base, v, m) = ReaderAt(text, q, Append(base, b), Yes, v)
      <3> HIDE DEF q
      <3> QED
        BY <2>1, <2>4, Zenon DEF GridState, n
    <2>6. GridState(text, p, base, v, k) = ReaderAt(text, q + 1, base, No, v)
      BY <2>1, Zenon DEF GridState, n
    <2> HIDE DEF q, b
    <2>7. GridTurn(ReaderAt(text, q, Append(base, b), Yes, v)) = ReaderAt(text, q + 1, base, No, v)
      BY <2>2, <2>3, TurnLast
    <2> QED
      BY <2>5, <2>6, <2>7, Zenon DEF m
  <1>6. CASE k > n + 1
    <2> DEFINE z == ReaderAt(text, GridEnd(p, v) + 1, base, No, v)
    <2>1. m > n /\ k > n
      BY <1>0, <1>2, <1>6
    <2>2. GridState(text, p, base, v, m) = z /\ GridState(text, p, base, v, k) = z
      BY <2>1, Zenon DEF GridState, n
    <2>3. z.present = No
      BY DEF ReaderAt
    <2> HIDE DEF z
    <2>4. GridTurn(z) = z
      BY <2>3, GridStays
    <2> QED
      BY <2>2, <2>4, Zenon DEF m
  <1> QED
    BY <1>0, <1>2, <1>3, <1>4, <1>5, <1>6

\* The grid has more brackets than ranges.
LEMMA GridCount ==
  ASSUME NEW text, NEW p, NEW v, GridIn(text, p, v), IsText(v)
  PROVE  Count(text, "begin_array") \in Nat /\ Count(text, "begin_array") > Len(v)
  <1> DEFINE n == Len(v)
             m == n + 1
             c == "begin_array"
             f == [i \in 1..m |-> IF i = 1 THEN p ELSE RangePos(p, i - 1)]
  <1>0. n \in Nat
    BY TextIs
  <1>1. /\ p \in Nat /\ HasToken(text, p, Mark(c))
        /\ \A i \in 1..n : RangeIn(text, RangePos(p, i), v[i])
    BY Zenon DEF GridIn
  <1> HIDE DEF n
  <1>2. ASSUME NEW i \in 1..m PROVE f[i] \in 1..Len(text) /\ text[f[i]] = Mark(c)
    <2>1. CASE i = 1
      <3>1. f[i] = p
        BY <2>1
      <3> QED
        BY <1>1, <3>1 DEF HasToken
    <2>2. CASE i # 1
      <3>1. f[i] = RangePos(p, i - 1) /\ i - 1 \in 1..n
        BY <1>0, <2>2
      <3>2. HasToken(text, RangePos(p, i - 1), Mark(c))
        BY <1>1, <3>1 DEF RangeIn
      <3> HIDE DEF f
      <3> QED
        BY <3>1, <3>2, Zenon DEF HasToken
    <2> QED
      BY <2>1, <2>2
  <1>3. \A i \in 1..m : f[i] \in 1..Len(text) /\ text[f[i]].t = c
    <2>1. Mark(c).t = c
      BY DEF Mark
    <2> QED
      BY <1>2, <2>1, Zenon
  <1>4. \A i, j \in 1..m : i < j => f[i] < f[j]
    BY <1>0, <1>1 DEF RangePos
  <1>5. IsText(text) /\ m \in Nat
    BY <1>0, <1>1 DEF HasToken
  <1> HIDE DEF f, c, m
  <1>6. Count(text, c) \in Nat /\ Count(text, c) >= m
    BY <1>3, <1>4, <1>5, CountAtLeast
  <1> QED
    BY <1>0, <1>6 DEF c, m, n

LEMMA GridRead ==
  ASSUME NEW text, NEW p, NEW base, NEW present, NEW out, NEW v, base \in Seq(BOOLEAN),
         Len(base) # MaxDepth, Len(base) + 1 # MaxDepth, IsGrid(v), GridIn(text, p, v)
  PROVE  ReadPriceRanges(ReaderAt(text, p, base, present, out))
           = ReaderAt(text, GridEnd(p, v) + 1, base, No, v)
  <1> DEFINE r == ReaderAt(text, p, base, present, out)
             n == Count(text, "begin_array")
             f == Append(base, Yes)
             none == << >>
             b == ReaderAt(text, p + 1, f, present, out)
             c == ReaderAt(text, p + 1, f, Yes, out)
             a == ReaderAt(text, p + 1, f, Yes, none)
             Z(k) == GridState(text, p, base, v, k)
  <1>1. IsText(v) /\ Len(v) \in Nat
    BY TextIs DEF IsGrid
  <1>2. /\ IsText(text) /\ Stands(text, p) /\ text[p] = Mark("begin_array")
    <2>1. IsText(text) /\ p \in 1..Len(text) /\ text[p] = Mark("begin_array")
      BY DEF GridIn, HasToken
    <2> QED
      BY <2>1, MarkStands
  <1>3. n \in Nat /\ n > Len(v)
    BY <1>1, GridCount
  <1>4. BeginArray(r) = b
    BY <1>2, ArrayBegins
  <1>5. r.text = text
    BY ReaderIs
  <1> HIDE DEF n
  <1>6. [BeginArray(r) EXCEPT !.present = TRUE, !.out = << >>] = a
    <2> HIDE DEF r, f, none
    <2>1. [b EXCEPT !.present = Yes] = c
      BY DEF ReaderAt
    <2>2. [c EXCEPT !.out = none] = a
      BY DEF ReaderAt
    <2> HIDE DEF b, c, a
    <2> QED
      BY <1>4, <2>1, <2>2, Zenon DEF Yes, none
  <1>7. Z(0) = a
    <2>1. Prefix(v, 0) = none
      BY <1>1, PrefixEnds
    <2>2. ~(0 > Len(v))
      BY <1>1
    <2> QED
      BY <2>1, <2>2, Zenon DEF GridState
  <1>8. PICK g : GridTurns(r, g)
    BY <1>2, <1>5, GridTurnsExist
  <1>9. /\ g[0] = a /\ ReadPriceRanges(r) = g[n]
        /\ \A k \in 1..n : g[k] = GridTurn(g[k - 1])
    <2> HIDE DEF r
    <2>1. Steps(g, "ranges", n, a, << >>) /\ ReadPriceRanges(r) = g[n]
      BY <1>5, <1>6, <1>8, Zenon DEF GridTurns, n
    <2>2. g[0] = a /\ \A k \in 1..n : g[k] = StepOf("ranges", k, g[k - 1], << >>)
      BY <2>1, Zenon DEF Steps
    <2>3. ASSUME NEW k \in 1..n PROVE g[k] = GridTurn(g[k - 1])
      <3>1. g[k] = StepOf("ranges", k, g[k - 1], << >>)
        BY <2>2
      <3> QED
        BY <3>1 DEF StepOf
    <2> QED
      BY <2>1, <2>2, <2>3
  <1> HIDE DEF r, a
  <1>10. \A k \in 0..n : g[k] = Z(k)
    <2> DEFINE T == {k \in 0..n : g[k] = Z(k)}
    <2>1. 0 \in T
      BY <1>3, <1>7, <1>9
    <2>2. ASSUME NEW k \in 1..n, k - 1 \in T PROVE k \in T
      <3>1. k \in Nat \ {0} /\ k \in 0..n
        BY <1>3
      <3>2. g[k - 1] = Z(k - 1)
        BY <2>2
      <3>3. GridTurn(Z(k - 1)) = Z(k)
        BY <3>1, GridTurnIs
      <3>4. g[k] = Z(k)
        BY <1>9, <3>2, <3>3, Zenon
      <3> QED
        BY <3>1, <3>4
    <2> HIDE DEF T
    <2>3. \A k \in 0..n : k \in T
      BY <1>3, <2>1, <2>2, UpTo
    <2> QED
      BY <2>3, Zenon DEF T
  <1>11. g[n] = Z(n) /\ n > Len(v)
    BY <1>3, <1>10
  <1>12. Z(n) = ReaderAt(text, GridEnd(p, v) + 1, base, No, v)
    BY <1>11, Zenon DEF GridState
  <1> QED
    BY <1>9, <1>11, <1>12, Zenon DEF r

-----------------------------------------------------------------------------
(* A field's value, read from what was written of it.                      *)

Readers == {"int", "double", "string", "bool", "direction", "status", "reason", "ranges"}

\* What a field may hold.
IsValue(reader, v) ==
    /\ reader = "direction" => v \in {"yes", "no"}
    /\ reader = "status" => v \in {"accepted", "rejected"}
    /\ reader = "reason" => v = << >> \/ v = <<v[1]>>
    /\ reader = "ranges" => IsGrid(v)

LEMMA EncodeValueIs ==
  ASSUME NEW v
  PROVE  /\ EncodeValue("int", v) = <<[t |-> "int", n |-> v]>>
         /\ EncodeValue("double", v) = <<Real(v)>>
         /\ EncodeValue("string", v) = <<Text(v)>>
         /\ EncodeValue("direction", v) = <<Text(v)>>
         /\ EncodeValue("status", v) = <<Text(v)>>
         /\ EncodeValue("bool", v) = <<[t |-> "bool", b |-> v]>>
         /\ EncodeValue("reason", v) = IF v = << >> THEN <<Mark("null")>> ELSE <<Text(v[1])>>
         /\ EncodeValue("ranges", v) = GridText(v)
  <1>1. EncodeValue("int", v) = <<[t |-> "int", n |-> v]>>
    BY SMT DEF EncodeValue
  <1>2. EncodeValue("double", v) = <<Real(v)>>
    BY SMT DEF EncodeValue
  <1>3. /\ EncodeValue("string", v) = <<Text(v)>>
        /\ EncodeValue("direction", v) = <<Text(v)>>
        /\ EncodeValue("status", v) = <<Text(v)>>
    BY SMT DEF EncodeValue
  <1>4. EncodeValue("bool", v) = <<[t |-> "bool", b |-> v]>>
    BY SMT DEF EncodeValue
  <1>5. EncodeValue("reason", v) = IF v = << >> THEN <<Mark("null")>> ELSE <<Text(v[1])>>
    BY SMT DEF EncodeValue
  <1>6. EncodeValue("ranges", v) = GridText(v)
    BY SMT DEF EncodeValue, GridText, RangeTexts, RangeText
  <1> QED
    BY <1>1, <1>2, <1>3, <1>4, <1>5, <1>6

LEMMA ReadAsIs ==
  ASSUME NEW r
  PROVE  /\ ReadAs("int", r) = ReadInt(r)
         /\ ReadAs("double", r) = ReadDouble(r)
         /\ ReadAs("string", r) = ReadString(r)
         /\ ReadAs("bool", r) = ReadBool(r)
         /\ ReadAs("direction", r) = ReadEnum(r, {"yes", "no"})
         /\ ReadAs("status", r) = ReadEnum(r, {"accepted", "rejected"})
         /\ ReadAs("reason", r) = ReadReason(r)
         /\ ReadAs("ranges", r) = ReadPriceRanges(r)
  <1>1. ReadAs("int", r) = ReadInt(r) /\ ReadAs("double", r) = ReadDouble(r)
    BY SMT DEF ReadAs
  <1>2. ReadAs("string", r) = ReadString(r) /\ ReadAs("bool", r) = ReadBool(r)
    BY SMT DEF ReadAs
  <1>3. ReadAs("direction", r) = ReadEnum(r, {"yes", "no"})
    BY SMT DEF ReadAs
  <1>4. ReadAs("status", r) = ReadEnum(r, {"accepted", "rejected"})
    BY SMT DEF ReadAs
  <1>5. ReadAs("reason", r) = ReadReason(r) /\ ReadAs("ranges", r) = ReadPriceRanges(r)
    BY SMT DEF ReadAs
  <1> QED
    BY <1>1, <1>2, <1>3, <1>4, <1>5

LEMMA ValueText ==
  ASSUME NEW reader, reader \in Readers, NEW v, IsValue(reader, v)
  PROVE  IsText(EncodeValue(reader, v))
  <1>1. CASE reader \in {"int", "double", "string", "direction", "status", "bool"}
    <2> DEFINE i == [t |-> "int", n |-> v]
               b == [t |-> "bool", b |-> v]
    <2>1. /\ EncodeValue("int", v) = <<i>> /\ EncodeValue("double", v) = <<Real(v)>>
          /\ EncodeValue("string", v) = <<Text(v)>> /\ EncodeValue("direction", v) = <<Text(v)>>
          /\ EncodeValue("status", v) = <<Text(v)>> /\ EncodeValue("bool", v) = <<b>>
      BY EncodeValueIs
    <2> HIDE DEF i, b
    <2>2. \E a : EncodeValue(reader, v) = <<a>>
      BY <1>1, <2>1
    <2> QED
      BY <2>2, OneToken DEF IsOne
  <1>2. CASE reader = "reason"
    <2>1. \E a : EncodeValue(reader, v) = <<a>>
      BY <1>2, EncodeValueIs
    <2> QED
      BY <2>1, OneToken DEF IsOne
  <1>3. CASE reader = "ranges"
    <2>1. TextList(RangeTexts(v))
      BY <1>3, GridPieces DEF IsValue, IsGrid
    <2>2. IsText(GridText(v))
      BY <2>1, BracketedText DEF GridText
    <2> QED
      BY <1>3, <2>2, EncodeValueIs
  <1> QED
    BY <1>1, <1>2, <1>3 DEF Readers

LEMMA OneTokenAt ==
  ASSUME NEW text, NEW p, NEW x, IsText(text), At(text, p, <<x>>)
  PROVE  /\ HasToken(text, p, x) /\ Len(<<x>>) = 1 /\ p \in Nat
  <1>1. Len(<<x>>) = 1 /\ <<x>>[1] = x
    BY OneToken DEF IsOne
  <1>2. /\ p \in Nat \ {0} /\ (p - 1) + 1 <= Len(text) /\ Len(text) \in Nat
        /\ text[(p - 1) + 1] = x
    BY <1>1, TextIs DEF At
  <1>3. (p - 1) + 1 = p /\ p \in 1..Len(text)
    BY <1>2
  <1> QED
    BY <1>1, <1>2, <1>3 DEF HasToken

LEMMA EnumRead ==
  ASSUME NEW text, NEW p, NEW first, NEW present, NEW out, NEW v, NEW names, v \in names,
         HasToken(text, p, Text(v))
  PROVE  ReadEnum(ReaderAt(text, p, first, present, out), names)
           = ReaderAt(text, p + 1, first, present, v)
  <1> DEFINE r == ReaderAt(text, p, first, present, out)
             s == ReaderAt(text, p + 1, first, present, v)
  <1>1. Stands(text, p) /\ text[p] = Text(v)
    BY DEF HasToken, Stands, Text
  <1>2. ReadString(r) = s
    BY <1>1, StringRead
  <1>3. s.err = "none" /\ s.out = v
    BY DEF ReaderAt
  <1> HIDE DEF r, s
  <1>4. ReadEnum(r, names) = s
    BY <1>2, <1>3, Zenon DEF ReadEnum, Then
  <1> QED
    BY <1>4 DEF r, s

LEMMA ReasonRead ==
  ASSUME NEW text, NEW p, NEW first, NEW present, NEW out, NEW v, v = << >> \/ v = <<v[1]>>,
         HasToken(text, p, IF v = << >> THEN Mark("null") ELSE Text(v[1]))
  PROVE  ReadReason(ReaderAt(text, p, first, present, out))
           = ReaderAt(text, p + 1, first, present, v)
  <1> DEFINE r == ReaderAt(text, p, first, present, out)
             w == v[1]
             s == ReaderAt(text, p + 1, first, present, w)
  <1>1. CASE v = << >>
    <2>1. Stands(text, p) /\ text[p] = Mark("null")
      BY <1>1 DEF HasToken, Stands, Mark
    <2>2. AtNull(r) /\ ReadNull(r) = ReaderAt(text, p + 1, first, present, << >>)
      BY <2>1, NullRead
    <2> QED
      BY <1>1, <2>2, Zenon DEF ReadReason
  <1>2. CASE v # << >>
    <2>1. Stands(text, p) /\ text[p] = Text(w) /\ text[p].t = "string"
      BY <1>2 DEF HasToken, Stands, Text
    <2> HIDE DEF w
    <2>2. ReadString(r) = s
      BY <2>1, StringRead
    <2>3. s.err = "none" /\ s.out = w /\ IsReader(r) /\ r.text = text /\ r.pos = p
      BY DEF ReaderAt, IsReader
    <2>4. ~AtNull(r)
      <3> HIDE DEF r
      <3>1. SkipWhitespace(r) = r /\ Peek(r) = "string"
        BY <2>1, <2>3, SkipStays
      <3> QED
        BY <3>1 DEF AtNull
    <2>5. v = <<w>>
      BY <1>2 DEF w
    <2>6. [s EXCEPT !.out = v] = ReaderAt(text, p + 1, first, present, v)
      BY DEF ReaderAt
    <2> HIDE DEF r, s
    <2>7. ReadReason(r) = [s EXCEPT !.out = <<s.out>>]
      BY <2>2, <2>3, <2>4, Zenon DEF ReadReason, Then
    <2> QED
      BY <2>3, <2>5, <2>6, <2>7, Zenon DEF r
  <1> QED
    BY <1>1, <1>2

\* The value of a field, wherever it is.
ValueIsRead(text, p, base, present, out, reader, v) ==
    \E b : ReadAs(reader, ReaderAt(text, p, base, present, out))
             = ReaderAt(text, p + Len(EncodeValue(reader, v)), base, b, v)

LEMMA OneTokenRead ==
  ASSUME NEW text, NEW p, NEW base, NEW present, NEW out, NEW reader, NEW v, NEW x,
         EncodeValue(reader, v) = <<x>>,
         ReadAs(reader, ReaderAt(text, p, base, present, out))
           = ReaderAt(text, p + 1, base, present, v)
  PROVE  ValueIsRead(text, p, base, present, out, reader, v)
  <1>1. Len(EncodeValue(reader, v)) = 1
    BY OneToken DEF IsOne
  <1> QED
    BY <1>1, Zenon DEF ValueIsRead

LEMMA IntValueRead ==
  ASSUME NEW text, NEW p, NEW base, NEW present, NEW out, NEW v, IsText(text),
         At(text, p, EncodeValue("int", v))
  PROVE  ValueIsRead(text, p, base, present, out, "int", v)
  <1> DEFINE x == [t |-> "int", n |-> v]
             r == ReaderAt(text, p, base, present, out)
             z == ReaderAt(text, p + 1, base, present, v)
  <1>1. EncodeValue("int", v) = <<x>>
    BY EncodeValueIs, Zenon
  <1>2. HasToken(text, p, x)
    <2> HIDE DEF x
    <2> QED
      BY <1>1, OneTokenAt
  <1>3. Stands(text, p) /\ text[p] = x
    BY <1>2 DEF HasToken, Stands
  <1>4. ReadInt(r) = z
    BY <1>3, IntRead
  <1>5. ReadAs("int", r) = z
    BY <1>4, ReadAsIs, Zenon
  <1> QED
    BY <1>1, <1>5, OneTokenRead, Zenon

LEMMA BoolValueRead ==
  ASSUME NEW text, NEW p, NEW base, NEW present, NEW out, NEW v, IsText(text),
         At(text, p, EncodeValue("bool", v))
  PROVE  ValueIsRead(text, p, base, present, out, "bool", v)
  <1> DEFINE x == [t |-> "bool", b |-> v]
             r == ReaderAt(text, p, base, present, out)
             z == ReaderAt(text, p + 1, base, present, v)
  <1>1. EncodeValue("bool", v) = <<x>>
    BY EncodeValueIs, Zenon
  <1>2. HasToken(text, p, x)
    <2> HIDE DEF x
    <2> QED
      BY <1>1, OneTokenAt
  <1>3. Stands(text, p) /\ text[p] = x
    BY <1>2 DEF HasToken, Stands
  <1>4. ReadBool(r) = z
    BY <1>3, BoolRead
  <1>5. ReadAs("bool", r) = z
    BY <1>4, ReadAsIs, Zenon
  <1> QED
    BY <1>1, <1>5, OneTokenRead, Zenon

LEMMA DoubleValueRead ==
  ASSUME NEW text, NEW p, NEW base, NEW present, NEW out, NEW v, IsText(text),
         At(text, p, EncodeValue("double", v))
  PROVE  ValueIsRead(text, p, base, present, out, "double", v)
  <1> DEFINE x == Real(v)
             r == ReaderAt(text, p, base, present, out)
             z == ReaderAt(text, p + 1, base, present, v)
  <1>1. EncodeValue("double", v) = <<x>>
    BY EncodeValueIs, Zenon
  <1>2. HasToken(text, p, x)
    <2> HIDE DEF x
    <2> QED
      BY <1>1, OneTokenAt
  <1>3. Stands(text, p) /\ text[p] = x
    BY <1>2 DEF HasToken, Stands, Real
  <1>4. ReadDouble(r) = z
    BY <1>3, DoubleRead
  <1>5. ReadAs("double", r) = z
    BY <1>4, ReadAsIs, Zenon
  <1> QED
    BY <1>1, <1>5, OneTokenRead, Zenon

LEMMA TextValueRead ==
  ASSUME NEW text, NEW p, NEW base, NEW present, NEW out, NEW reader, NEW v, IsText(text),
         reader \in {"string", "direction", "status"}, IsValue(reader, v),
         At(text, p, EncodeValue(reader, v))
  PROVE  ValueIsRead(text, p, base, present, out, reader, v)
  <1> DEFINE x == Text(v)
             r == ReaderAt(text, p, base, present, out)
             z == ReaderAt(text, p + 1, base, present, v)
             directions == {"yes", "no"}
             statuses == {"accepted", "rejected"}
  <1>1. EncodeValue(reader, v) = <<x>>
    <2>1. /\ EncodeValue("string", v) = <<x>> /\ EncodeValue("direction", v) = <<x>>
          /\ EncodeValue("status", v) = <<x>>
      BY EncodeValueIs, Zenon
    <2> HIDE DEF x
    <2> QED
      BY <2>1
  <1>2. HasToken(text, p, x)
    <2> HIDE DEF x
    <2> QED
      BY <1>1, OneTokenAt
  <1>3. Stands(text, p) /\ text[p] = x
    BY <1>2 DEF HasToken, Stands, Text
  <1>4. ReadString(r) = z
    BY <1>3, StringRead
  <1>5. reader = "direction" => v \in directions
    BY Zenon DEF IsValue
  <1>6. reader = "status" => v \in statuses
    BY Zenon DEF IsValue
  <1>7. /\ ReadAs("string", r) = ReadString(r) /\ ReadAs("direction", r) = ReadEnum(r, directions)
        /\ ReadAs("status", r) = ReadEnum(r, statuses)
    BY ReadAsIs, Zenon
  <1> HIDE DEF directions, statuses
  <1>8. \A names : v \in names => ReadEnum(r, names) = z
    BY <1>2, EnumRead DEF x
  <1> HIDE DEF r, z, x
  <1>9. ReadAs(reader, r) = z
    BY <1>4, <1>5, <1>6, <1>7, <1>8
  <1> QED
    BY <1>1, <1>9, OneTokenRead, Zenon DEF r, z

LEMMA ReasonValueRead ==
  ASSUME NEW text, NEW p, NEW base, NEW present, NEW out, NEW v, IsText(text),
         IsValue("reason", v), At(text, p, EncodeValue("reason", v))
  PROVE  ValueIsRead(text, p, base, present, out, "reason", v)
  <1> DEFINE x == IF v = << >> THEN Mark("null") ELSE Text(v[1])
             r == ReaderAt(text, p, base, present, out)
             z == ReaderAt(text, p + 1, base, present, v)
  <1>1. EncodeValue("reason", v) = <<x>>
    BY EncodeValueIs
  <1>2. HasToken(text, p, x)
    <2> HIDE DEF x
    <2> QED
      BY <1>1, OneTokenAt
  <1>3. v = << >> \/ v = <<v[1]>>
    BY DEF IsValue
  <1>4. ReadReason(r) = z
    BY <1>2, <1>3, ReasonRead DEF x
  <1>5. ReadAs("reason", r) = z
    BY <1>4, ReadAsIs, Zenon
  <1> QED
    BY <1>1, <1>5, OneTokenRead, Zenon

LEMMA GridValueRead ==
  ASSUME NEW text, NEW p, NEW base, NEW present, NEW out, NEW v, IsText(text),
         base \in Seq(BOOLEAN), Len(base) # MaxDepth, Len(base) + 1 # MaxDepth,
         IsValue("ranges", v), At(text, p, EncodeValue("ranges", v))
  PROVE  ValueIsRead(text, p, base, present, out, "ranges", v)
  <1> DEFINE r == ReaderAt(text, p, base, present, out)
             q == GridEnd(p, v) + 1
             z == ReaderAt(text, q, base, No, v)
  <1>1. EncodeValue("ranges", v) = GridText(v)
    BY EncodeValueIs, Zenon
  <1>2. IsGrid(v) /\ IsText(v)
    BY Zenon DEF IsValue, IsGrid
  <1>3. GridIn(text, p, v) /\ p + Len(GridText(v)) = q
    BY <1>1, <1>2, GridAt
  <1>4. ReadPriceRanges(r) = z
    BY <1>2, <1>3, GridRead
  <1>5. ReadAs("ranges", r) = z
    BY <1>4, ReadAsIs, Zenon
  <1> HIDE DEF q
  <1> QED
    BY <1>1, <1>3, <1>5, Zenon DEF ValueIsRead

LEMMA ValueRead ==
  ASSUME NEW text, NEW p, NEW base, NEW present, NEW out, NEW reader, NEW v, IsText(text),
         base \in Seq(BOOLEAN), Len(base) # MaxDepth, Len(base) + 1 # MaxDepth,
         reader \in Readers, IsValue(reader, v), At(text, p, EncodeValue(reader, v))
  PROVE  ValueIsRead(text, p, base, present, out, reader, v)
  <1>1. CASE reader = "int"
    BY <1>1, IntValueRead
  <1>2. CASE reader = "bool"
    BY <1>2, BoolValueRead
  <1>3. CASE reader = "double"
    BY <1>3, DoubleValueRead
  <1>4. CASE reader \in {"string", "direction", "status"}
    BY <1>4, TextValueRead
  <1>5. CASE reader = "reason"
    BY <1>5, ReasonValueRead
  <1>6. CASE reader = "ranges"
    BY <1>6, GridValueRead
  <1> QED
    BY <1>1, <1>2, <1>3, <1>4, <1>5, <1>6 DEF Readers

-----------------------------------------------------------------------------
(* A member, read from what was written of it.                             *)

\* The fields of a message: no two have the same key, and a default is a value.
GoodFields(fields) ==
    /\ IsText(fields) /\ Len(fields) > 0
    /\ \A i \in 1..Len(fields) :
          fields[i].reader \in Readers /\ IsValue(fields[i].reader, fields[i].default)
    /\ \A i, j \in 1..Len(fields) : fields[i].key = fields[j].key => i = j

LEMMA FieldIs ==
  ASSUME NEW fields, GoodFields(fields), NEW i, i \in 1..Len(fields)
  PROVE  fields[i].key \in Keys(fields) /\ Field(fields, fields[i].key) = fields[i]
  <1>1. DOMAIN fields = 1..Len(fields)
    BY TextIs DEF GoodFields
  <1>2. fields[i].key \in Keys(fields)
    BY <1>1, Zenon DEF Keys
  <1> DEFINE key == fields[i].key
             j == CHOOSE j \in DOMAIN fields : fields[j].key = key
  <1>3. j \in DOMAIN fields /\ fields[j].key = key
    BY <1>1, Zenon
  <1> HIDE DEF j
  <1>4. j = i
    BY <1>1, <1>3, Zenon DEF GoodFields
  <1>5. Field(fields, key) = fields[j]
    BY Zenon DEF Field, j
  <1> QED
    BY <1>2, <1>4, <1>5, Zenon

LEMMA MemberAt ==
  ASSUME NEW text, NEW p, NEW msg, NEW field, IsText(text),
         IsText(EncodeValue(field.reader, msg[field.key])),
         At(text, p, EncodeMember(msg, field))
  PROVE  /\ HasToken(text, p, Text(field.key)) /\ HasToken(text, p + 1, Mark("colon"))
         /\ At(text, p + 2, EncodeValue(field.reader, msg[field.key]))
         /\ Len(EncodeMember(msg, field))
              = 2 + Len(EncodeValue(field.reader, msg[field.key]))
         /\ IsText(EncodeMember(msg, field)) /\ p \in Nat
  <1> DEFINE a == Text(field.key)
             b == Mark("colon")
             s == <<a, b>>
             t == EncodeValue(field.reader, msg[field.key])
  <1>1. EncodeMember(msg, field) = s \o t
    BY DEF EncodeMember
  <1> HIDE DEF a, b, t
  <1>2. IsTwo(s, a, b)
    BY TwoTokens
  <1> HIDE DEF s
  <1>3. IsText(s) /\ Len(s) = 2 /\ s[1] = a /\ s[2] = b /\ IsText(t)
    BY <1>2 DEF IsTwo, t
  <1>4. At(text, p, s) /\ At(text, p + Len(s), t)
    <2>1. At(text, p, s \o t)
      BY <1>1
    <2> QED
      BY <1>3, <2>1, AtJoined
  <1>5. InTurn(s, t, s \o t)
    BY <1>3, TextJoined
  <1>6. Len(text) \in Nat
    BY TextIs
  <1>7. p \in Nat \ {0} /\ (p - 1) + 2 <= Len(text) /\ text[(p - 1) + 1] = a /\ text[(p - 1) + 2] = b
    BY <1>3, <1>4 DEF At
  <1>8. (p - 1) + 1 = p /\ (p - 1) + 2 = p + 1
    BY <1>7
  <1>9. HasToken(text, p, a) /\ HasToken(text, p + 1, b)
    BY <1>6, <1>7, <1>8 DEF HasToken
  <1>10. Len(s \o t) = 2 + Len(t) /\ IsText(s \o t)
    BY <1>3, <1>5 DEF InTurn
  <1>11. At(text, p + 2, t)
    BY <1>3, <1>4
  <1> QED
    BY <1>1, <1>7, <1>9, <1>10, <1>11 DEF a, b, t

\* The key and its colon.
LEMMA KeyRead ==
  ASSUME NEW text, NEW p, NEW first, NEW out, NEW key, NEW r,
         AdvanceTo(r, "end_object") = ReaderAt(text, p, first, Yes, out),
         HasToken(text, p, Text(key)), HasToken(text, p + 1, Mark("colon"))
  PROVE  NextMember(r) = ReaderAt(text, (p + 1) + 1, first, Yes, key)
  <1> DEFINE q == p + 1
             c == "colon"
             s == ReaderAt(text, p, first, Yes, out)
             k == ReaderAt(text, q, first, Yes, key)
             w == ReaderAt(text, q + 1, first, Yes, key)
  <1>1. Stands(text, p) /\ text[p] = Text(key)
    BY DEF HasToken, Stands, Text
  <1>2. ReadString(s) = k
    BY <1>1, StringRead
  <1>3. HasToken(text, q, Mark(c))
    OBVIOUS
  <1> HIDE DEF q
  <1>4. Stands(text, q) /\ text[q] = Mark(c)
    <2>1. c # "ws"
      OBVIOUS
    <2> HIDE DEF c
    <2> QED
      BY <1>3, <2>1, MarkStands DEF HasToken
  <1>5. IsReader(k) /\ k.text = text /\ k.pos = q /\ k.err = "none" /\ Advance(k) = w
    BY ReaderIs
  <1>6. s.err = "none" /\ s.present = Yes
    BY ReaderIs
  <1> HIDE DEF k, s, w, c
  <1>7. Expect(k, c) = w
    <2>1. Expect(k, c) = Advance(k)
      BY <1>4, <1>5, ExpectTakes
    <2> QED
      BY <1>5, <2>1
  <1>8. AdvanceTo(r, "end_object") = s
    BY DEF s
  <1>9. NextMember(r) = Expect(k, "colon")
    BY <1>2, <1>5, <1>6, <1>8, Zenon DEF NextMember, Then, Yes
  <1> QED
    BY <1>7, <1>9, Zenon DEF c, w, q

\* What Decode has made of the members so far.
DecodedAt(r, v, seen) == [r |-> r, v |-> v, seen |-> seen]

Put(v, key, w) == [v EXCEPT ![key] = w]
With(seen, key) == seen \cup {key}

\* The field with this key and this reader.
HasField(fields, key, reader) ==
    \E i \in 1..Len(fields) : fields[i].key = key /\ fields[i].reader = reader

LEMMA FieldRead ==
  ASSUME NEW r, NEW v, NEW seen, NEW fields, GoodFields(fields), NEW key, NEW reader,
         HasField(fields, key, reader), NEW m, m.out = key, NEW text, NEW e, NEW first, NEW b, NEW w,
         ReadAs(reader, m) = ReaderAt(text, e, first, b, w)
  PROVE  ReadField(DecodedAt(r, v, seen), m, fields)
           = DecodedAt(ReaderAt(text, e, first, Yes, w), Put(v, key, w), With(seen, key))
  <1> DEFINE d == DecodedAt(r, v, seen)
             x == ReaderAt(text, e, first, b, w)
             y == ReaderAt(text, e, first, Yes, w)
             u == Put(v, key, w)
             s == With(seen, key)
  <1>0. PICK i \in 1..Len(fields) : fields[i].key = key /\ fields[i].reader = reader
    BY DEF HasField
  <1>1. key \in Keys(fields) /\ Field(fields, key) = fields[i]
    BY <1>0, FieldIs
  <1>2. x.err = "none" /\ x.out = w /\ [x EXCEPT !.present = Yes] = y
    BY DEF ReaderAt
  <1> HIDE DEF x, y
  <1>3. ReadAs(Field(fields, m.out).reader, m) = x
    BY <1>0, <1>1, Zenon DEF x
  <1>4. ReadField(d, m, fields)
          = [d EXCEPT !.r = [x EXCEPT !.present = Yes], !.v[key] = w, !.seen = @ \cup {key}]
    <2> HIDE DEF d
    <2>1. m.out = key
      OBVIOUS
    <2> QED
      BY <1>1, <1>2, <1>3, <2>1, Zenon DEF ReadField, Yes
  <1>5. d.v = v /\ d.seen = seen
    BY DEF DecodedAt
  <1> SUFFICES ReadField(d, m, fields) = DecodedAt(y, u, s)
    BY DEF y
  <1>6. ReadField(d, m, fields) = [[[d EXCEPT !.r = y] EXCEPT !.v = u] EXCEPT !.seen = s]
    <2> HIDE DEF d
    <2>1. ReadField(d, m, fields) = [d EXCEPT !.r = y, !.v[key] = w, !.seen = @ \cup {key}]
      BY <1>2, <1>4, Zenon
    <2> QED
      BY <1>5, <2>1, Zenon DEF Put, With
  <1> HIDE DEF u, s
  <1>7. [[[d EXCEPT !.r = y] EXCEPT !.v = u] EXCEPT !.seen = s] = DecodedAt(y, u, s)
    <2>1. [d EXCEPT !.r = y] = DecodedAt(y, v, seen)
      BY DEF DecodedAt
    <2>2. [DecodedAt(y, v, seen) EXCEPT !.v = u] = DecodedAt(y, u, seen)
      BY DEF DecodedAt
    <2>3. [DecodedAt(y, u, seen) EXCEPT !.seen = s] = DecodedAt(y, u, s)
      BY DEF DecodedAt
    <2> QED
      BY <2>1, <2>2, <2>3, Zenon
  <1> QED
    BY <1>6, <1>7, Zenon

-----------------------------------------------------------------------------
(* The turns of Decode, on what EncodeBody wrote.                          *)

IsMessage(msg, fields) ==
    /\ msg = [key \in Keys(fields) |-> msg[key]]
    /\ \A i \in 1..Len(fields) : IsValue(fields[i].reader, msg[fields[i].key])

MemberTexts(msg, fields) == [i \in DOMAIN fields |-> EncodeMember(msg, fields[i])]

\* The keys of the first k fields, the message when those have been read, and what the
\* last of them was.
KeysTo(fields, k) == {fields[i].key : i \in 1..k}
FilledTo(msg, fields, k) ==
    [key \in Keys(fields) |-> IF key \in KeysTo(fields, k) THEN msg[key]
                              ELSE Default(fields)[key]]
LastRead(msg, fields, k) == IF k = 0 THEN << >> ELSE msg[fields[k].key]

\* The text is members of the fields at f.
BodyIn(text, msg, fields, f) ==
    /\ IsText(text) /\ HasToken(text, 1, Mark("begin_object")) /\ f[1] = 2
    /\ \A i \in 1..Len(fields) : At(text, f[i], EncodeMember(msg, fields[i]))
    /\ \A i \in 1..Len(fields) :
          f[i + 1] = (f[i] + Len(EncodeMember(msg, fields[i]))) + 1
    /\ \A i \in 2..Len(fields) : HasToken(text, f[i] - 1, Mark("comma"))
    /\ f[Len(fields) + 1] = Len(text) + 1
    /\ HasToken(text, Len(text), Mark("end_object"))
    /\ \A i \in 1..(Len(fields) + 1) : f[i] \in Nat \ {0}

LEMMA MemberTextsPieces ==
  ASSUME NEW msg, NEW fields, GoodFields(fields), IsMessage(msg, fields)
  PROVE  /\ TextList(MemberTexts(msg, fields))
         /\ Len(MemberTexts(msg, fields)) = Len(fields) /\ Len(fields) \in Nat \ {0}
         /\ \A i \in 1..Len(fields) :
               /\ MemberTexts(msg, fields)[i] = EncodeMember(msg, fields[i])
               /\ IsText(EncodeValue(fields[i].reader, msg[fields[i].key]))
  <1> DEFINE n == Len(fields)
             P == MemberTexts(msg, fields)
  <1>1. n \in Nat \ {0} /\ DOMAIN fields = 1..n
    BY TextIs DEF GoodFields
  <1>2. \A i \in 1..n : IsText(EncodeValue(fields[i].reader, msg[fields[i].key]))
    BY ValueText DEF GoodFields, IsMessage
  <1>3. P = [i \in 1..n |-> EncodeMember(msg, fields[i])]
    BY <1>1, Zenon DEF MemberTexts
  <1>4. \A i \in 1..n : P[i] = EncodeMember(msg, fields[i])
    BY <1>3
  <1>5. P = [i \in 1..n |-> P[i]]
    BY <1>3, <1>4, Zenon
  <1>6. \A i \in 1..n : IsText(EncodeMember(msg, fields[i]))
    <2> SUFFICES ASSUME NEW i \in 1..n PROVE IsText(EncodeMember(msg, fields[i]))
      OBVIOUS
    <2> DEFINE s == <<Text(fields[i].key), Mark("colon")>>
               t == EncodeValue(fields[i].reader, msg[fields[i].key])
    <2>1. IsText(s)
      BY TwoTokens, Zenon DEF IsTwo
    <2>2. IsText(t)
      BY <1>2
    <2>3. EncodeMember(msg, fields[i]) = s \o t
      BY Zenon DEF EncodeMember
    <2> HIDE DEF s, t
    <2>4. InTurn(s, t, s \o t)
      BY <2>1, <2>2, TextJoined
    <2> QED
      BY <2>3, <2>4 DEF InTurn
  <1> HIDE DEF P, n
  <1>7. Len(P) = n
    BY <1>1, <1>5, TextMade
  <1>8. TextList(P)
    BY <1>1, <1>4, <1>6, <1>7 DEF TextList
  <1> QED
    BY <1>1, <1>2, <1>4, <1>7, <1>8 DEF P, n

LEMMA BodyAt ==
  ASSUME NEW msg, NEW fields, GoodFields(fields), IsMessage(msg, fields)
  PROVE  \E f : BodyIn(EncodeBody(msg, fields), msg, fields, f)
  <1> DEFINE n == Len(fields)
             P == MemberTexts(msg, fields)
             open == "begin_object"
             close == "end_object"
             text == Bracketed(open, P, close)
             M(i) == EncodeMember(msg, fields[i])
  <1>1. /\ TextList(P) /\ Len(P) = n /\ n \in Nat \ {0}
        /\ \A i \in 1..n : P[i] = M(i)
    BY MemberTextsPieces
  <1>2. EncodeBody(msg, fields) = text
    BY Zenon DEF EncodeBody, MemberTexts
  <1> HIDE DEF P, n, open, close
  <1>3. IsText(text) /\ Len(text) >= 2 /\ Len(text) \in Nat
    BY <1>1, BracketedText, TextIs
  <1> HIDE DEF text
  <1>4. At(text, 1, text)
    BY <1>3 DEF At
  <1>5. PICK f : LaidOut(text, 1, 1 + Len(text), open, P, close, f)
    <2>1. \E f : LaidOut(text, 1, 1 + Len(Bracketed(open, P, close)), open, P, close, f)
      BY <1>1, <1>3, <1>4, BracketedAt DEF text
    <2> QED
      BY <2>1, Zenon DEF text
  <1>6. /\ text[1] = Mark(open) /\ f[1] = 1 + 1
        /\ \A i \in 1..(n + 1) : f[i] \in Nat \ {0}
        /\ \A i \in 1..n : At(text, f[i], M(i))
        /\ \A i \in 1..n : f[i + 1] = (f[i] + Len(M(i))) + 1
        /\ \A i \in 2..n : text[f[i] - 1] = Mark("comma")
        /\ text[(1 + Len(text)) - 1] = Mark(close)
        /\ 1 + Len(text) = f[n + 1]
    <2> HIDE DEF M
    <2>1. \A i \in 1..n : P[i] = M(i)
      BY <1>1
    <2> QED
      BY <1>1, <1>5, <2>1, SMTT(30) DEF LaidOut
  <1>7. \A i \in 2..n : HasToken(text, f[i] - 1, Mark("comma"))
    <2> SUFFICES ASSUME NEW i \in 2..n PROVE HasToken(text, f[i] - 1, Mark("comma"))
      OBVIOUS
    <2>1. i \in 1..n /\ i \in 1..(n + 1)
      BY <1>1
    <2>2. f[i] \in Nat \ {0} /\ (f[i] - 1) + Len(M(i)) <= Len(text) /\ Len(M(i)) \in Nat
      <3>1. IsText(M(i))
        BY <1>1, <2>1 DEF TextList
      <3> QED
        BY <1>6, <2>1, <3>1, TextIs DEF At
    <2>3. f[i] # 1
      <3>1. i - 1 \in 1..n /\ i - 1 \in 1..(n + 1) /\ (i - 1) + 1 = i
        BY <1>1
      <3>2. IsText(M(i - 1))
        BY <1>1, <3>1 DEF TextList
      <3>3. f[i] = (f[i - 1] + Len(M(i - 1))) + 1 /\ f[i - 1] \in Nat \ {0} /\ Len(M(i - 1)) \in Nat
        BY <1>6, <3>1, <3>2, TextIs
      <3> HIDE DEF M
      <3> QED
        BY <3>3
    <2>4. text[f[i] - 1] = Mark("comma")
      BY <1>6
    <2>5. f[i] - 1 \in 1..Len(text)
      <3> DEFINE x == f[i]
                 l == Len(M(i))
                 z == Len(text)
      <3>1. x \in Nat \ {0} /\ (x - 1) + l <= z /\ l \in Nat /\ x # 1 /\ z \in Nat
        BY <1>3, <2>2, <2>3
      <3> HIDE DEF x, l, z
      <3>2. x - 1 \in 1..z
        BY <3>1
      <3> QED
        BY <3>2 DEF x, z
    <2> QED
      BY <1>3, <2>4, <2>5, Zenon DEF HasToken
  <1>8. HasToken(text, 1, Mark(open)) /\ HasToken(text, Len(text), Mark(close)) /\ f[n + 1] = Len(text) + 1
    <2>1. (1 + Len(text)) - 1 = Len(text) /\ 1 \in 1..Len(text) /\ Len(text) \in 1..Len(text)
      BY <1>3
    <2> QED
      BY <1>3, <1>6, <2>1 DEF HasToken
  <1>9. f[1] = 2
    BY <1>6
  <1>10. BodyIn(text, msg, fields, f)
    BY <1>3, <1>6, <1>7, <1>8, <1>9, Zenon DEF BodyIn, n, M, open, close
  <1> QED
    BY <1>2, <1>10, Zenon

\* The one level that is open between the members.
Top(b) == Append(<< >>, b)

LEMMA TopLevel ==
  ASSUME NEW b, b \in BOOLEAN
  PROVE  Top(b) \in Seq(BOOLEAN) /\ Len(Top(b)) # MaxDepth /\ Len(Top(b)) + 1 # MaxDepth
  <1> DEFINE none == << >>
  <1>1. none \in Seq(BOOLEAN) /\ Len(none) = 0
    OBVIOUS
  <1> HIDE DEF none
  <1>2. Append(none, b) \in Seq(BOOLEAN) /\ Len(Append(none, b)) = Len(none) + 1
    BY <1>1, Levels
  <1>3. MaxDepth \in Nat /\ MaxDepth >= 3
    BY ReaderAssumption, CodecAssumption
  <1> QED
    BY <1>1, <1>2, <1>3 DEF Top, none

\* A turn that takes a member, one that finds the end, and one after that.
LEMMA MemberTaken ==
  ASSUME NEW text, NEW p, NEW first, NEW out, NEW r, NEW v, NEW seen, NEW msg, NEW fields,
         IsText(text), first \in Seq(BOOLEAN), Len(first) # MaxDepth, Len(first) + 1 # MaxDepth,
         GoodFields(fields), IsMessage(msg, fields), NEW i, i \in 1..Len(fields),
         r.present = Yes, r.err = "none",
         AdvanceTo(r, "end_object") = ReaderAt(text, p, first, Yes, out),
         At(text, p, EncodeMember(msg, fields[i]))
  PROVE  MemberTurn(DecodedAt(r, v, seen), fields)
           = DecodedAt(ReaderAt(text, p + Len(EncodeMember(msg, fields[i])), first, Yes,
                                msg[fields[i].key]),
                       Put(v, fields[i].key, msg[fields[i].key]), With(seen, fields[i].key))
  <1> DEFINE key == fields[i].key
             reader == fields[i].reader
             w == msg[key]
             l == Len(EncodeMember(msg, fields[i]))
             d == DecodedAt(r, v, seen)
             q == (p + 1) + 1
             m == ReaderAt(text, q, first, Yes, key)
             u == Put(v, key, w)
             z == With(seen, key)
  <1>1. reader \in Readers /\ IsValue(reader, w)
    BY DEF GoodFields, IsMessage
  <1>2. IsText(EncodeValue(reader, w))
    BY <1>1, ValueText
  <1>3. /\ HasToken(text, p, Text(key)) /\ HasToken(text, p + 1, Mark("colon"))
        /\ At(text, p + 2, EncodeValue(reader, w)) /\ l = 2 + Len(EncodeValue(reader, w))
        /\ p \in Nat
    <2> DEFINE f == fields[i]
    <2>1. At(text, p, EncodeMember(msg, f)) /\ IsText(EncodeValue(f.reader, msg[f.key]))
      BY <1>2, Zenon
    <2> HIDE DEF f
    <2>2. /\ HasToken(text, p, Text(f.key)) /\ HasToken(text, p + 1, Mark("colon"))
          /\ At(text, p + 2, EncodeValue(f.reader, msg[f.key]))
          /\ Len(EncodeMember(msg, f)) = 2 + Len(EncodeValue(f.reader, msg[f.key]))
          /\ p \in Nat
      BY <2>1, MemberAt
    <2> QED
      BY <2>2, Zenon DEF f
  <1>4. NextMember(r) = m
    BY <1>3, KeyRead, SMTT(30)
  <1>5. q = p + 2 /\ q + Len(EncodeValue(reader, w)) = p + l
    <2>1. Len(EncodeValue(reader, w)) \in Nat
      BY <1>2, TextIs
    <2> DEFINE x == Len(EncodeValue(reader, w))
    <2>2. x \in Nat /\ p \in Nat /\ l = 2 + x
      BY <1>3, <2>1
    <2> HIDE DEF x, l
    <2>3. q + x = p + l /\ q = p + 2
      BY <2>2
    <2> QED
      BY <2>3 DEF x
  <1>6. At(text, q, EncodeValue(reader, w))
    BY <1>3, <1>5
  <1> HIDE DEF reader, w, q, l
  <1>7. ValueIsRead(text, q, first, Yes, key, reader, w)
    <2> HIDE DEF key
    <2> QED
      BY <1>1, <1>6, ValueRead
  <1>8. PICK b : ReadAs(reader, m) = ReaderAt(text, p + l, first, b, w)
    BY <1>5, <1>7, Zenon DEF ValueIsRead
  <1>9. m.err = "none" /\ m.present = Yes /\ m.out = key
    BY ReaderIs
  <1> HIDE DEF m
  <1>10. ReadField(d, m, fields) = DecodedAt(ReaderAt(text, p + l, first, Yes, w), u, z)
    <2> DEFINE e == p + l
    <2>1. ReadAs(reader, m) = ReaderAt(text, e, first, b, w)
      BY <1>8
    <2>2. HasField(fields, key, reader)
      BY Zenon DEF HasField, reader
    <2>3. m.out = key
      BY <1>9
    <2> HIDE DEF e, key
    <2>4. ReadField(DecodedAt(r, v, seen), m, fields)
           = DecodedAt(ReaderAt(text, e, first, Yes, w), u, z)
      BY <2>1, <2>2, <2>3, FieldRead
    <2> QED
      BY <2>4 DEF e
  <1>11. d.r = r
    BY DEF DecodedAt
  <1> HIDE DEF d
  <1>12. MemberTurn(d, fields) = ReadField(d, m, fields)
    BY <1>4, <1>9, <1>11, Zenon DEF MemberTurn, Yes
  <1> QED
    BY <1>10, <1>12 DEF d, l, w

LEMMA MembersEnd ==
  ASSUME NEW text, NEW p, NEW b, NEW out, NEW v, NEW seen, NEW fields, b \in BOOLEAN,
         HasToken(text, p, Mark("end_object"))
  PROVE  MemberTurn(DecodedAt(ReaderAt(text, p, Top(b), Yes, out), v, seen), fields)
           = DecodedAt(ReaderAt(text, p + 1, << >>, No, out), v, seen)
  <1> DEFINE none == << >>
             close == "end_object"
             r == ReaderAt(text, p, Append(none, b), Yes, out)
             z == ReaderAt(text, p + 1, none, No, out)
             d == DecodedAt(r, v, seen)
  <1>1. none \in Seq(BOOLEAN)
    OBVIOUS
  <1>2. close \in Closers
    BY DEF Closers
  <1>3. Stands(text, p) /\ text[p] = Mark(close)
    <2>1. close # "ws"
      OBVIOUS
    <2>2. HasToken(text, p, Mark(close))
      OBVIOUS
    <2> HIDE DEF close
    <2> QED
      BY <2>1, <2>2, MarkStands DEF HasToken
  <1> HIDE DEF none, close
  <1>4. AdvanceTo(r, close) = z
    BY <1>1, <1>2, <1>3, Closes
  <1>5. z.err = "none" /\ z.present = No /\ r.err = "none" /\ r.present = Yes
    <2> DEFINE f == Append(none, b)
    <2> HIDE DEF f
    <2>1. ReaderAt(text, p, f, Yes, out).err = "none" /\ ReaderAt(text, p, f, Yes, out).present = Yes
      BY ReaderIs
    <2> QED
      BY <2>1, ReaderIs DEF f
  <1> HIDE DEF r, z
  <1>6. NextMember(r) = z
    BY <1>4, <1>5, Zenon DEF NextMember, Then, No, close
  <1>7. d.r = r /\ [d EXCEPT !.r = z] = DecodedAt(z, v, seen)
    BY DEF DecodedAt
  <1> HIDE DEF d
  <1>8. MemberTurn(d, fields) = [d EXCEPT !.r = z]
    BY <1>5, <1>6, <1>7, Zenon DEF MemberTurn, Yes, No
  <1> QED
    BY <1>7, <1>8, Zenon DEF d, r, z, none, Top

LEMMA MembersStay ==
  ASSUME NEW d, NEW fields, d.r.present = No
  PROVE  MemberTurn(d, fields) = d
  BY Zenon DEF MemberTurn, No

LEMMA KeysGrow ==
  ASSUME NEW fields, NEW k, k \in Nat \ {0}
  PROVE  With(KeysTo(fields, k - 1), fields[k].key) = KeysTo(fields, k)
  <1>1. 1..k = (1..(k - 1)) \cup {k}
    OBVIOUS
  <1>2. ASSUME NEW key PROVE key \in KeysTo(fields, k) <=> key \in With(KeysTo(fields, k - 1), fields[k].key)
    BY <1>1, Zenon DEF KeysTo, With
  <1> QED
    BY <1>2, Zenon

LEMMA FilledGrows ==
  ASSUME NEW msg, NEW fields, GoodFields(fields), NEW k, k \in 1..Len(fields)
  PROVE  Put(FilledTo(msg, fields, k - 1), fields[k].key, msg[fields[k].key])
           = FilledTo(msg, fields, k)
  <1> DEFINE v == FilledTo(msg, fields, k - 1)
             u == FilledTo(msg, fields, k)
             key == fields[k].key
             A == KeysTo(fields, k - 1)
             B == KeysTo(fields, k)
             K == Keys(fields)
             D == Default(fields)
             w == msg[key]
  <1>1. B = A \cup {key} /\ key \in K
    <2>1. k \in Nat \ {0}
      BY TextIs DEF GoodFields
    <2>2. With(A, key) = B
      BY <2>1, KeysGrow
    <2> QED
      BY <2>2, FieldIs, Zenon DEF With
  <1>2. v = [x \in K |-> IF x \in A THEN msg[x] ELSE D[x]]
    BY Zenon DEF FilledTo
  <1>3. u = [x \in K |-> IF x \in B THEN msg[x] ELSE D[x]]
    BY Zenon DEF FilledTo
  <1> SUFFICES Put(v, key, w) = u
    OBVIOUS
  <1> HIDE DEF v, u, A, B, K, D, key
  <1>4. DOMAIN v = K
    BY <1>2
  <1>5. Put(v, key, w) = [x \in K |-> IF x = key THEN w ELSE v[x]]
    BY <1>4, Zenon DEF Put
  <1>6. ASSUME NEW x \in K PROVE (IF x = key THEN w ELSE v[x]) = (IF x \in B THEN msg[x] ELSE D[x])
    <2>1. v[x] = IF x \in A THEN msg[x] ELSE D[x]
      BY <1>2
    <2> QED
      BY <1>1, <2>1
  <1> QED
    BY <1>3, <1>5, <1>6, Zenon

LEMMA FilledEnds ==
  ASSUME NEW msg, NEW fields, GoodFields(fields), IsMessage(msg, fields)
  PROVE  /\ FilledTo(msg, fields, 0) = Default(fields) /\ KeysTo(fields, 0) = {}
         /\ FilledTo(msg, fields, Len(fields)) = msg
         /\ KeysTo(fields, Len(fields)) = Keys(fields)
  <1> DEFINE n == Len(fields)
  <1>1. n \in Nat /\ DOMAIN fields = 1..n
    BY TextIs DEF GoodFields
  <1>2. KeysTo(fields, 0) = {}
    <2>1. 1..0 = {}
      OBVIOUS
    <2> QED
      BY <2>1, Zenon DEF KeysTo
  <1>3. KeysTo(fields, n) = Keys(fields)
    BY <1>1, Zenon DEF KeysTo, Keys
  <1>4. FilledTo(msg, fields, 0) = Default(fields)
    <2> DEFINE D == Default(fields)
               K == Keys(fields)
    <2>1. D = [key \in K |-> D[key]]
      BY DEF Default
    <2>2. FilledTo(msg, fields, 0) = [key \in K |-> D[key]]
      BY <1>2, Zenon DEF FilledTo
    <2> QED
      BY <2>1, <2>2, Zenon
  <1>5. FilledTo(msg, fields, n) = msg
    <2> DEFINE K == Keys(fields)
    <2>1. FilledTo(msg, fields, n) = [key \in K |-> msg[key]]
      BY <1>3, Zenon DEF FilledTo
    <2> QED
      BY <2>1, Zenon DEF IsMessage
  <1> QED
    BY <1>2, <1>3, <1>4, <1>5

\* What Decode has after k turns.
BodyState(text, f, msg, fields, k) ==
    IF k > Len(fields)
    THEN DecodedAt(ReaderAt(text, Len(text) + 1, << >>, No, LastRead(msg, fields, Len(fields))),
                   msg, Keys(fields))
    ELSE DecodedAt(ReaderAt(text, IF k = 0 THEN 2 ELSE f[k + 1] - 1, Top(IF k = 0 THEN Yes ELSE No),
                            Yes, LastRead(msg, fields, k)),
                   FilledTo(msg, fields, k), KeysTo(fields, k))

\* A turn at the first member, and at a later one.
LEMMA BodyFirst ==
  ASSUME NEW text, NEW f, NEW msg, NEW fields, GoodFields(fields), IsMessage(msg, fields),
         BodyIn(text, msg, fields, f), NEW out, NEW v, NEW seen
  PROVE  MemberTurn(DecodedAt(ReaderAt(text, 2, Top(Yes), Yes, out), v, seen), fields)
           = DecodedAt(ReaderAt(text, f[2] - 1, Top(No), Yes, msg[fields[1].key]),
                       Put(v, fields[1].key, msg[fields[1].key]), With(seen, fields[1].key))
  <1> DEFINE p == f[1]
             none == << >>
             close == "end_object"
             l == Len(EncodeMember(msg, fields[1]))
             r == ReaderAt(text, p, Top(Yes), Yes, out)
             g == Top(No)
  <1>1. 1 \in 1..Len(fields)
    BY TextIs DEF GoodFields
  <1>2. /\ IsText(text) /\ p = 2 /\ At(text, p, EncodeMember(msg, fields[1]))
        /\ f[1 + 1] = (p + l) + 1
    BY <1>1 DEF BodyIn
  <1>3. IsText(EncodeValue(fields[1].reader, msg[fields[1].key]))
    BY <1>1, MemberTextsPieces
  <1>4. HasToken(text, p, Text(fields[1].key)) /\ p \in Nat /\ l \in Nat
    <2>1. IsText(EncodeMember(msg, fields[1])) /\ HasToken(text, p, Text(fields[1].key)) /\ p \in Nat
      BY <1>2, <1>3, MemberAt
    <2> QED
      BY <2>1, TextIs
  <1>5. Stands(text, p) /\ text[p].t # close /\ text[p].t # "end"
    BY <1>4 DEF HasToken, Stands, Text
  <1>6. f[2] - 1 = p + l
    <2>1. f[2] = (p + l) + 1
      BY <1>2
    <2> HIDE DEF p, l
    <2> QED
      BY <1>4, <2>1
  <1>7. none \in Seq(BOOLEAN) /\ close \in Closers
    BY DEF Closers
  <1> HIDE DEF none, close, p, l
  <1>8. AdvanceTo(r, close) = ReaderAt(text, p, g, Yes, out)
    <2>1. AdvanceTo(ReaderAt(text, p, Append(none, Yes), Yes, out), close)
            = ReaderAt(text, p, Append(none, No), Yes, out)
      BY <1>5, <1>7, ComesFirst
    <2> QED
      BY <2>1, Zenon DEF Top, none
  <1>9. g \in Seq(BOOLEAN) /\ Len(g) # MaxDepth /\ Len(g) + 1 # MaxDepth
    BY TopLevel, YesNoBoolean
  <1>10. r.present = Yes /\ r.err = "none"
    BY ReaderIs
  <1> HIDE DEF g, r
  <1>11. MemberTurn(DecodedAt(r, v, seen), fields)
           = DecodedAt(ReaderAt(text, p + Len(EncodeMember(msg, fields[1])), g, Yes,
                                msg[fields[1].key]),
                       Put(v, fields[1].key, msg[fields[1].key]), With(seen, fields[1].key))
    BY <1>1, <1>2, <1>8, <1>9, <1>10, MemberTaken DEF close
  <1> QED
    BY <1>2, <1>6, <1>11, Zenon DEF l, g, r

\* A later member, between p and e.
MemberFrom(f, msg, fields, i, p, e, key, w) ==
    /\ i \in 2..Len(fields) /\ p = f[i] - 1 /\ e = f[i + 1] - 1
    /\ key = fields[i].key /\ w = msg[key]

LEMMA BodyNext ==
  ASSUME NEW text, NEW f, NEW msg, NEW fields, GoodFields(fields), IsMessage(msg, fields),
         BodyIn(text, msg, fields, f), NEW out, NEW v, NEW seen, NEW i, NEW p, NEW e,
         NEW key, NEW w, MemberFrom(f, msg, fields, i, p, e, key, w)
  PROVE  MemberTurn(DecodedAt(ReaderAt(text, p, Top(No), Yes, out), v, seen), fields)
           = DecodedAt(ReaderAt(text, e, Top(No), Yes, w), Put(v, key, w), With(seen, key))
  <1> DEFINE q == p + 1
             none == << >>
             close == "end_object"
             l == Len(EncodeMember(msg, fields[i]))
             r == ReaderAt(text, p, Top(No), Yes, out)
             g == Top(No)
  <1>0. /\ i \in 2..Len(fields) /\ p = f[i] - 1 /\ e = f[i + 1] - 1
        /\ key = fields[i].key /\ w = msg[key]
    BY Zenon DEF MemberFrom
  <1>1. i \in 1..Len(fields) /\ i \in 1..(Len(fields) + 1) /\ i \in 2..Len(fields)
    <2>1. Len(fields) \in Nat
      BY TextIs DEF GoodFields
    <2> QED
      BY <1>0, <2>1
  <1>2. /\ IsText(text) /\ At(text, f[i], EncodeMember(msg, fields[i]))
        /\ f[i + 1] = (f[i] + l) + 1 /\ HasToken(text, f[i] - 1, Mark("comma")) /\ f[i] \in Nat \ {0}
    BY <1>1 DEF BodyIn
  <1>3. f[i] = q /\ p = f[i] - 1 /\ HasToken(text, p, Mark("comma"))
    BY <1>0, <1>2
  <1>4. IsText(EncodeValue(fields[i].reader, msg[fields[i].key]))
    BY <1>1, MemberTextsPieces
  <1>5. l \in Nat
    <2>1. IsText(EncodeMember(msg, fields[i]))
      BY <1>2, <1>4, MemberAt
    <2> QED
      BY <2>1, TextIs
  <1>6. e = q + l
    <2> DEFINE y == f[i]
               z == f[i + 1]
    <2>1. z = (y + l) + 1 /\ y \in Nat /\ y = q /\ e = z - 1
      BY <1>0, <1>2, <1>3
    <2> HIDE DEF q, l, y, z
    <2>2. q \in Nat /\ z = (q + l) + 1
      BY <2>1
    <2> QED
      BY <1>5, <2>1, <2>2
  <1>7. At(text, q, EncodeMember(msg, fields[i]))
    BY <1>2, <1>3
  <1>8. none \in Seq(BOOLEAN) /\ close \in Closers
    BY DEF Closers
  <1>9. Stands(text, p) /\ text[p] = Mark("comma")
    BY <1>3, MarkStands DEF HasToken
  <1> HIDE DEF none, close, l
  <1>10. AdvanceTo(r, close) = ReaderAt(text, q, g, Yes, out)
    <2>1. AdvanceTo(ReaderAt(text, p, Append(none, No), Yes, out), close)
            = ReaderAt(text, p + 1, Append(none, No), Yes, out)
      BY <1>8, <1>9, ComesNext
    <2> QED
      BY <2>1, Zenon DEF Top, none
  <1>11. g \in Seq(BOOLEAN) /\ Len(g) # MaxDepth /\ Len(g) + 1 # MaxDepth
    BY TopLevel, YesNoBoolean
  <1>12. r.present = Yes /\ r.err = "none"
    BY ReaderIs
  <1> HIDE DEF g, r, q
  <1>13. MemberTurn(DecodedAt(r, v, seen), fields)
           = DecodedAt(ReaderAt(text, q + Len(EncodeMember(msg, fields[i])), g, Yes,
                                msg[fields[i].key]),
                       Put(v, fields[i].key, msg[fields[i].key]), With(seen, fields[i].key))
    BY <1>1, <1>2, <1>7, <1>10, <1>11, <1>12, MemberTaken, SMTT(30) DEF close
  <1> QED
    BY <1>0, <1>6, <1>13, Zenon DEF l, g, r

LEMMA BodyTurnIs ==
  ASSUME NEW text, NEW f, NEW msg, NEW fields, GoodFields(fields), IsMessage(msg, fields),
         BodyIn(text, msg, fields, f), NEW k, k \in Nat \ {0}
  PROVE  MemberTurn(BodyState(text, f, msg, fields, k - 1), fields)
           = BodyState(text, f, msg, fields, k)
  <1> DEFINE n == Len(fields)
             m == k - 1
             S(j) == BodyState(text, f, msg, fields, j)
             V(j) == FilledTo(msg, fields, j)
             K(j) == KeysTo(fields, j)
             L(j) == LastRead(msg, fields, j)
  <1>1. n \in Nat \ {0}
    BY TextIs DEF GoodFields
  <1>2. m \in Nat /\ k = m + 1 /\ k # 0
    OBVIOUS
  <1>3. CASE k <= n
    <2>1. /\ ~(m > n) /\ ~(k > n) /\ k \in 1..n
      BY <1>1, <1>2, <1>3
    <2>2. /\ Put(V(m), fields[k].key, msg[fields[k].key]) = V(k)
          /\ With(K(m), fields[k].key) = K(k) /\ L(k) = msg[fields[k].key]
      <3>1. L(k) = msg[fields[k].key]
        BY <1>2, Zenon DEF LastRead
      <3> QED
        BY <2>1, <3>1, FilledGrows, KeysGrow, Zenon
    <2> DEFINE z == f[k + 1] - 1
    <2>3. S(k) = DecodedAt(ReaderAt(text, z, Top(No), Yes, L(k)), V(k), K(k))
      <3> HIDE DEF n
      <3> QED
        BY <1>2, <2>1, Zenon DEF BodyState, n
    <2>4. CASE m = 0
      <3>1. S(m) = DecodedAt(ReaderAt(text, 2, Top(Yes), Yes, L(m)), V(m), K(m))
        BY <2>1, <2>4, Zenon DEF BodyState
      <3>2. k = 1 /\ z = f[2] - 1
        BY <1>2, <2>4
      <3> DEFINE o == L(m)
                 v == V(m)
                 s == K(m)
      <3> HIDE DEF z, o, v, s
      <3>3. MemberTurn(DecodedAt(ReaderAt(text, 2, Top(Yes), Yes, o), v, s), fields)
           = DecodedAt(ReaderAt(text, z, Top(No), Yes, msg[fields[1].key]),
                       Put(v, fields[1].key, msg[fields[1].key]), With(s, fields[1].key))
        BY <3>2, BodyFirst
      <3> QED
        BY <2>2, <2>3, <3>1, <3>2, <3>3, Zenon DEF o, v, s
    <2>5. CASE m # 0
      <3>1. m + 1 = k /\ k \in 2..Len(fields)
        BY <1>1, <1>2, <2>1, <2>5
      <3> DEFINE y == f[k] - 1
      <3>2. S(m) = DecodedAt(ReaderAt(text, y, Top(No), Yes, L(m)), V(m), K(m))
        <4>1. f[m + 1] - 1 = y
          BY <3>1
        <4> QED
          BY <2>1, <2>5, <4>1, Zenon DEF BodyState
      <3> DEFINE o == L(m)
                 v == V(m)
                 s == K(m)
                 x == fields[k].key
                 w == msg[x]
      <3> HIDE DEF o, v, s, m, n
      <3>3. MemberTurn(DecodedAt(ReaderAt(text, y, Top(No), Yes, o), v, s), fields)
           = DecodedAt(ReaderAt(text, z, Top(No), Yes, w), Put(v, x, w), With(s, x))
        <4>1. MemberFrom(f, msg, fields, k, y, z, x, w)
          BY <3>1, Zenon DEF MemberFrom
        <4> SUFFICES ASSUME NEW from, NEW to, NEW name, NEW value,
                            MemberFrom(f, msg, fields, k, from, to, name, value)
                     PROVE  MemberTurn(DecodedAt(ReaderAt(text, from, Top(No), Yes, o), v, s), fields)
                              = DecodedAt(ReaderAt(text, to, Top(No), Yes, value), Put(v, name, value),
                                          With(s, name))
          BY <4>1, Zenon
        <4> QED
          BY BodyNext
      <3> QED
        BY <2>2, <2>3, <3>2, <3>3, Zenon DEF o, v, s, m
    <2> QED
      BY <2>4, <2>5
  <1>4. CASE k = n + 1
    <2> DEFINE b == No
               q == Len(text)
               none == << >>
               o == L(n)
               z == q + 1
    <2>1. m = n /\ ~(m > n) /\ k > n /\ m # 0
      BY <1>1, <1>2, <1>4
    <2>2. /\ HasToken(text, q, Mark("end_object")) /\ f[n + 1] = q + 1 /\ q \in Nat
      <3>1. HasToken(text, q, Mark("end_object")) /\ f[n + 1] = q + 1 /\ IsText(text)
        BY Zenon DEF BodyIn
      <3> QED
        BY <3>1, TextIs
    <2>3. f[m + 1] - 1 = q
      BY <2>1, <2>2
    <2>4. V(n) = msg /\ K(n) = Keys(fields)
      BY FilledEnds
    <2>5. S(m) = DecodedAt(ReaderAt(text, q, Top(b), Yes, o), msg, Keys(fields))
      <3>1. S(m) = DecodedAt(ReaderAt(text, f[m + 1] - 1, Top(No), Yes, L(m)), V(m), K(m))
        BY <2>1, Zenon DEF BodyState
      <3> HIDE DEF m, n
      <3> QED
        BY <2>1, <2>3, <2>4, <3>1, Zenon DEF b, o
    <2>6. S(k) = DecodedAt(ReaderAt(text, z, none, No, o), msg, Keys(fields))
      BY <2>1, Zenon DEF BodyState
    <2> DEFINE Y == Keys(fields)
    <2> HIDE DEF o, Y, q
    <2>7. MemberTurn(DecodedAt(ReaderAt(text, q, Top(b), Yes, o), msg, Y), fields)
            = DecodedAt(ReaderAt(text, q + 1, << >>, No, o), msg, Y)
      BY <2>2, MembersEnd, YesNoBoolean
    <2> QED
      BY <2>5, <2>6, <2>7, Zenon DEF Y
  <1>5. CASE k > n + 1
    <2>1. m > n /\ k > n
      BY <1>1, <1>2, <1>5
    <2> DEFINE z == ReaderAt(text, Len(text) + 1, << >>, No, L(n))
               d == DecodedAt(z, msg, Keys(fields))
    <2>2. S(m) = d /\ S(k) = d
      BY <2>1, Zenon DEF BodyState
    <2>3. z.present = No
      BY DEF ReaderAt
    <2> HIDE DEF z
    <2>4. d.r = z
      BY DEF DecodedAt
    <2> HIDE DEF d
    <2>5. MemberTurn(d, fields) = d
      BY <2>3, <2>4, MembersStay
    <2> QED
      BY <2>2, <2>5, Zenon
  <1> QED
    BY <1>1, <1>2, <1>3, <1>4, <1>5

\* There is a colon for every member.
LEMMA ColonCount ==
  ASSUME NEW text, NEW f, NEW msg, NEW fields, GoodFields(fields), IsMessage(msg, fields),
         BodyIn(text, msg, fields, f)
  PROVE  Count(text, "colon") \in Nat /\ Count(text, "colon") >= Len(fields)
  <1> DEFINE n == Len(fields)
             c == "colon"
             g == [i \in 1..n |-> f[i] + 1]
             l(i) == Len(EncodeMember(msg, fields[i]))
  <1>1. n \in Nat
    BY TextIs DEF GoodFields
  <1>2. IsText(text)
    BY DEF BodyIn
  <1>3. ASSUME NEW i \in 1..n
        PROVE  /\ f[i] \in Nat /\ l(i) \in Nat /\ f[i + 1] = (f[i] + l(i)) + 1
               /\ HasToken(text, f[i] + 1, Mark(c))
    <2>1. At(text, f[i], EncodeMember(msg, fields[i])) /\ f[i + 1] = (f[i] + l(i)) + 1
      BY Zenon DEF BodyIn
    <2>2. IsText(EncodeValue(fields[i].reader, msg[fields[i].key]))
      BY MemberTextsPieces
    <2>3. IsText(EncodeMember(msg, fields[i])) /\ HasToken(text, f[i] + 1, Mark(c)) /\ f[i] \in Nat
      BY <1>2, <2>1, <2>2, MemberAt
    <2> QED
      BY <2>1, <2>3, TextIs
  <1>4. \A i \in 1..n : g[i] \in 1..Len(text) /\ text[g[i]].t = c
    <2> SUFFICES ASSUME NEW i \in 1..n PROVE g[i] \in 1..Len(text) /\ text[g[i]].t = c
      OBVIOUS
    <2>1. HasToken(text, g[i], Mark(c))
      BY <1>3
    <2>2. Mark(c).t = c
      BY DEF Mark
    <2> HIDE DEF g, c
    <2> QED
      BY <2>1, <2>2, Zenon DEF HasToken
  <1>5. \A j \in 1..n : \A i \in 1..n : i < j => f[i] < f[j]
    <2> DEFINE T == {j \in 1..n : \A i \in 1..n : i < j => f[i] < f[j]}
    <2>1. CASE n = 0
      BY <2>1
    <2>2. CASE n # 0
      <3>1. 1 \in T
        BY <1>1, <2>2
      <3>2. ASSUME NEW j \in 2..n, j - 1 \in T PROVE j \in T
        <4>1. j - 1 \in 1..n /\ j \in 1..n /\ (j - 1) + 1 = j
          BY <1>1
        <4>2. f[j - 1] \in Nat /\ l(j - 1) \in Nat /\ f[j] = (f[j - 1] + l(j - 1)) + 1
          BY <1>3, <4>1
        <4> HIDE DEF l
        <4>3. f[j - 1] < f[j]
          BY <4>2
        <4>4. ASSUME NEW i \in 1..n, i < j PROVE f[i] < f[j]
          <5>1. CASE i = j - 1
            BY <4>3, <5>1
          <5>2. CASE i # j - 1
            <6>1. i < j - 1
              BY <4>1, <4>4, <5>2
            <6>2. f[i] < f[j - 1]
              BY <3>2, <6>1
            <6>3. f[i] \in Nat /\ f[j] \in Nat
              BY <1>3, <4>1
            <6> DEFINE a == f[i]
                       b == f[j - 1]
                       d == f[j]
            <6>4. a \in Nat /\ b \in Nat /\ d \in Nat /\ a < b /\ b < d
              BY <4>2, <4>3, <6>2, <6>3
            <6> HIDE DEF a, b, d
            <6>5. a < d
              BY <6>4
            <6> QED
              BY <6>5 DEF a, d
          <5> QED
            BY <5>1, <5>2
        <4> QED
          BY <4>1, <4>4
      <3>3. \A j \in 1..n : j \in T
        <4> DEFINE U == {j \in 0..(n - 1) : j + 1 \in T}
                   o == n - 1
        <4>1. o \in Nat /\ 0 \in U
          BY <1>1, <2>2, <3>1
        <4>2. ASSUME NEW j \in 1..o, j - 1 \in U PROVE j \in U
          <5>1. j + 1 \in 2..n /\ (j + 1) - 1 = (j - 1) + 1 /\ j \in 0..(n - 1)
            BY <1>1
          <5>2. (j + 1) - 1 \in T
            BY <4>2, <5>1
          <5> HIDE DEF T
          <5>3. j + 1 \in T
            BY <3>2, <5>1, <5>2
          <5> QED
            BY <5>1, <5>3
        <4> HIDE DEF U, T
        <4>3. \A j \in 0..o : j \in U
          BY <4>1, <4>2, UpTo
        <4>4. ASSUME NEW j \in 1..n PROVE j \in T
          <5>1. j - 1 \in 0..o /\ (j - 1) + 1 = j
            BY <1>1
          <5>2. j - 1 \in U
            BY <4>3, <5>1
          <5> QED
            BY <5>1, <5>2 DEF U
        <4> QED
          BY <4>4
      <3> QED
        BY <3>3
    <2> QED
      BY <2>1, <2>2
  <1>6. \A i, j \in 1..n : i < j => g[i] < g[j]
    <2> SUFFICES ASSUME NEW i \in 1..n, NEW j \in 1..n, i < j PROVE g[i] < g[j]
      OBVIOUS
    <2>1. f[i] < f[j] /\ f[i] \in Nat /\ f[j] \in Nat
      BY <1>3, <1>5
    <2> QED
      BY <2>1
  <1> HIDE DEF g, c, n
  <1>7. Count(text, c) \in Nat /\ Count(text, c) >= n
    BY <1>1, <1>2, <1>4, <1>6, CountAtLeast
  <1> QED
    BY <1>7 DEF c, n

\* g is what the turns of Decode come to.
MemberTurns(text, fields, g) ==
    Steps(g, "members", Count(text, "colon") + 1,
          DecodedAt([BeginObject(Reader(text)) EXCEPT !.present = TRUE], Default(fields), {}), fields)

\* What Decode makes of what its turns came to.
Concluded(d, required) ==
    IF Then(d.r, AtDocumentEnd).err # "none" THEN Failure(Then(d.r, AtDocumentEnd).err)
    ELSE IF ~(required \subseteq d.seen) THEN Failure("MissingField")
    ELSE Ok(d.v)

LEMMA DecodeIs ==
  ASSUME NEW text, IsText(text), NEW fields, NEW required
  PROVE  \E g : /\ MemberTurns(text, fields, g)
                /\ Decode(text, fields, required)
                     = Concluded(g[Count(text, "colon") + 1], required)
  <1> DEFINE n == Count(text, "colon") + 1
             a == DecodedAt([BeginObject(Reader(text)) EXCEPT !.present = TRUE], Default(fields), {})
             body(g, i) == IF i = 0 THEN a ELSE MemberTurn(g[i - 1], fields)
             turn == CHOOSE g : g = [i \in 0..n |-> body(g, i)]
  <1>1. n \in Nat
    <2>1. Count(text, "colon") \in Nat
      BY CountIsNat
    <2> QED
      BY <2>1
  <1>2. Decode(text, fields, required) = Concluded(turn[n], required)
    BY Zenon DEF Decode, MemberTurn, DecodedAt, Concluded
  <1>3. PICK g : Steps(g, "members", n, a, fields)
    <2> HIDE DEF n, a
    <2> QED
      BY <1>1, RecursionIs
  <1> HIDE DEF n, a
  <1>4. ASSUME NEW i \in 0..n PROVE g[i] = body(g, i)
    <2>1. CASE i = 0
      BY <1>3, <2>1, Zenon DEF Steps
    <2>2. CASE i # 0
      <3>1. i \in 1..n
        BY <1>1, <2>2
      <3>2. g[i] = StepOf("members", i, g[i - 1], fields)
        BY <1>3, <3>1, Zenon DEF Steps
      <3> QED
        BY <2>2, <3>2, SMT DEF StepOf
    <2> QED
      BY <2>1, <2>2
  <1>5. g = [i \in 0..n |-> g[i]]
    BY <1>3, Zenon DEF Steps
  <1>6. g = [i \in 0..n |-> body(g, i)]
    BY <1>4, <1>5, Zenon
  <1>7. turn = [i \in 0..n |-> body(turn, i)]
    BY <1>6, Zenon
  <1> HIDE DEF turn
  <1>8. turn = [i \in 0..n |-> turn[i]]
    BY <1>7
  <1>9. turn[0] = a /\ \A i \in 1..n : turn[i] = StepOf("members", i, turn[i - 1], fields)
    <2>1. 0 \in 0..n /\ \A i \in 1..n : i \in 0..n /\ i # 0
      BY <1>1
    <2>2. \A i \in 0..n : turn[i] = body(turn, i)
      BY <1>7, Zenon
    <2>3. turn[0] = a
      BY <2>1, <2>2, Zenon
    <2>4. ASSUME NEW i \in 1..n PROVE turn[i] = StepOf("members", i, turn[i - 1], fields)
      <3>1. turn[i] = MemberTurn(turn[i - 1], fields)
        BY <2>1, <2>2, Zenon
      <3> QED
        BY <3>1, SMT DEF StepOf
    <2> QED
      BY <2>3, <2>4
  <1>10. Steps(turn, "members", n, a, fields)
    BY <1>8, <1>9, Zenon DEF Steps
  <1>11. MemberTurns(text, fields, turn)
    BY <1>10, Zenon DEF MemberTurns, n, a
  <1> QED
    BY <1>2, <1>11, Zenon DEF n

LEMMA TurnsAreTurns ==
  ASSUME NEW text, IsText(text), NEW fields, NEW g, MemberTurns(text, fields, g)
  PROVE  /\ g[0] = DecodedAt([BeginObject(Reader(text)) EXCEPT !.present = TRUE], Default(fields), {})
         /\ \A k \in 1..(Count(text, "colon") + 1) : g[k] = MemberTurn(g[k - 1], fields)
  <1> DEFINE n == Count(text, "colon") + 1
             a == DecodedAt([BeginObject(Reader(text)) EXCEPT !.present = TRUE], Default(fields), {})
  <1>1. Steps(g, "members", n, a, fields)
    BY Zenon DEF MemberTurns
  <1> HIDE DEF n, a
  <1>2. g[0] = a /\ \A k \in 1..n : g[k] = StepOf("members", k, g[k - 1], fields)
    BY <1>1, Zenon DEF Steps
  <1>3. ASSUME NEW k \in 1..n PROVE g[k] = MemberTurn(g[k - 1], fields)
    <2>1. g[k] = StepOf("members", k, g[k - 1], fields)
      BY <1>2
    <2> QED
      BY <2>1 DEF StepOf
  <1> QED
    BY <1>2, <1>3, Zenon DEF n, a

\* What is behind the last token is the end of the document.
LEMMA DocumentEnds ==
  ASSUME NEW text, IsText(text), NEW first, NEW present, NEW out
  PROVE  AtDocumentEnd(ReaderAt(text, Len(text) + 1, first, present, out))
           = ReaderAt(text, Len(text) + 1, first, present, out)
  <1> DEFINE q == Len(text) + 1
             r == ReaderAt(text, q, first, present, out)
  <1>1. Len(text) \in Nat
    BY TextIs
  <1>2. IsReader(r) /\ r.text = text /\ r.pos = q
    BY ReaderIs
  <1>3. Stop(r.text, r.pos, q)
    BY <1>1, <1>2 DEF Stop
  <1>4. r.pos \in 1..(Len(r.text) + 1) /\ Len(r.text) \in Nat
    BY <1>1, <1>2
  <1> SUFFICES AtDocumentEnd(r) = r
    OBVIOUS
  <1> HIDE DEF r
  <1>5. SkipWhitespace(r) = [r EXCEPT !.pos = q]
    BY <1>3, <1>4, SkipIs
  <1>6. [r EXCEPT !.pos = q] = r
    <2> HIDE DEF q
    <2> QED
      BY <1>2 DEF IsReader
  <1>7. Peek(r) = "end"
    BY <1>1, <1>2 DEF Peek
  <1> QED
    BY <1>5, <1>6, <1>7, Zenon DEF AtDocumentEnd

\* What is sent is decoded to what was sent.
LEMMA MessageReadBack ==
  ASSUME NEW msg, NEW fields, GoodFields(fields), IsMessage(msg, fields),
         NEW required, required \subseteq Keys(fields)
  PROVE  Decode(EncodeBody(msg, fields), fields, required) = Ok(msg)
  <1> DEFINE text == EncodeBody(msg, fields)
             n == Count(text, "colon") + 1
             l == Len(fields)
             none == << >>

  <1>1. PICK f : BodyIn(text, msg, fields, f)
    BY BodyAt
  <1> HIDE DEF text
  <1>2. IsText(text) /\ l \in Nat \ {0} /\ HasToken(text, 1, Mark("begin_object"))
    BY <1>1, TextIs DEF BodyIn, GoodFields
  <1>3. n \in Nat /\ n > l
    <2>1. Count(text, "colon") \in Nat /\ Count(text, "colon") >= l
      BY <1>1, ColonCount
    <2> QED
      BY <1>2, <2>1
  <1>4. PICK g : /\ MemberTurns(text, fields, g)
                 /\ Decode(text, fields, required) = Concluded(g[n], required)
    BY <1>2, DecodeIs
  <1> DEFINE r == Reader(text)
             top == Append(none, Yes)
             b == ReaderAt(text, 2, top, No, none)
             a == ReaderAt(text, 2, top, Yes, none)
             D == Default(fields)
             Z(k) == BodyState(text, f, msg, fields, k)
  <1>5. BeginObject(r) = b
    <2>1. r = ReaderAt(text, 1, none, No, none)
      BY Zenon DEF Reader, ReaderAt, No
    <2>2. Stands(text, 1) /\ text[1] = Mark("begin_object")
      BY <1>2, MarkStands DEF HasToken
    <2>3. none \in Seq(BOOLEAN) /\ Len(none) # MaxDepth
      BY CodecAssumption, ReaderAssumption
    <2>4. 1 + 1 = 2
      OBVIOUS
    <2> HIDE DEF none
    <2>5. BeginObject(ReaderAt(text, 1, none, No, none)) = ReaderAt(text, 1 + 1, top, No, none)
      BY <2>2, <2>3, ObjectBegins
    <2> QED
      BY <2>1, <2>4, <2>5, Zenon
  <1>6. g[0] = Z(0)
    <2>1. [b EXCEPT !.present = Yes] = a
      <3> HIDE DEF top, none
      <3> QED
        BY DEF ReaderAt
    <2> HIDE DEF a, b, r
    <2>2. [BeginObject(r) EXCEPT !.present = TRUE] = a
      BY <1>5, <2>1, Zenon DEF Yes
    <2>3. g[0] = DecodedAt([BeginObject(r) EXCEPT !.present = TRUE], D, {})
      BY <1>2, <1>4, TurnsAreTurns, Zenon DEF r
    <2>4. Z(0) = DecodedAt(a, D, {})
      <3>1. FilledTo(msg, fields, 0) = D /\ KeysTo(fields, 0) = {}
        BY FilledEnds
      <3>2. LastRead(msg, fields, 0) = none
        BY Zenon DEF LastRead
      <3>3. ~(0 > Len(fields))
        BY <1>2
      <3> QED
        BY <3>1, <3>2, <3>3, Zenon DEF BodyState, a, Top
    <2> QED
      BY <2>2, <2>3, <2>4, Zenon
  <1>7. \A k \in 1..n : g[k] = MemberTurn(g[k - 1], fields)
    BY <1>2, <1>4, TurnsAreTurns, Zenon
  <1> HIDE DEF n, l
  <1>8. \A k \in 0..n : g[k] = Z(k)
    <2> DEFINE T == {k \in 0..n : g[k] = Z(k)}
    <2>1. 0 \in T
      BY <1>3, <1>6
    <2>2. ASSUME NEW k \in 1..n, k - 1 \in T PROVE k \in T
      <3>1. k \in Nat \ {0} /\ k \in 0..n
        BY <1>3
      <3>2. g[k - 1] = Z(k - 1)
        BY <2>2
      <3>3. MemberTurn(Z(k - 1), fields) = Z(k)
        BY <1>1, <3>1, BodyTurnIs
      <3>4. g[k] = Z(k)
        BY <1>7, <3>2, <3>3, Zenon
      <3> QED
        BY <3>1, <3>4
    <2> HIDE DEF T
    <2>3. \A k \in 0..n : k \in T
      BY <1>3, <2>1, <2>2, UpTo
    <2> QED
      BY <2>3, Zenon DEF T
  <1> DEFINE z == ReaderAt(text, Len(text) + 1, none, No, LastRead(msg, fields, l))
             d == DecodedAt(z, msg, Keys(fields))
  <1>9. g[n] = d
    <2>1. g[n] = Z(n) /\ n > Len(fields)
      BY <1>3, <1>8 DEF l
    <2> QED
      BY <2>1, Zenon DEF BodyState, l
  <1>10. AtDocumentEnd(z) = z
    BY <1>2, DocumentEnds
  <1>11. z.err = "none"
    BY ReaderIs
  <1> HIDE DEF z
  <1>12. d.r = z /\ d.v = msg /\ d.seen = Keys(fields)
    BY DEF DecodedAt
  <1> HIDE DEF d
  <1>13. Concluded(d, required) = Ok(msg)
    BY <1>10, <1>11, <1>12, Zenon DEF Concluded, Then
  <1> QED
    BY <1>4, <1>9, <1>13, Zenon DEF text

-----------------------------------------------------------------------------
(* The fields of the two messages.                                         *)

LEMMA AckFieldsGood == GoodFields(AckFields)
  <1>1. IsText(AckFields) /\ Len(AckFields) = 5
    <2>1. AckFields = [i \in 1..5 |-> AckFields[i]]
      BY DEF AckFields
    <2> QED
      BY <2>1, TextMade
  <1>2. /\ AckFields[1].key = "schema_version" /\ AckFields[2].key = "correlation_id"
        /\ AckFields[3].key = "received_at_ms" /\ AckFields[4].key = "status"
        /\ AckFields[5].key = "reason"
    BY DEF AckFields
  <1>3. /\ AckFields[1].reader = "int" /\ AckFields[2].reader = "string"
        /\ AckFields[3].reader = "int" /\ AckFields[4].reader = "status"
        /\ AckFields[5].reader = "reason" /\ AckFields[5].default = << >>
        /\ AckFields[4].default = "accepted"
    BY DEF AckFields
  <1>4. \A i \in 1..5 : AckFields[i].reader \in Readers
    BY <1>3 DEF Readers
  <1>5. \A i \in 1..5 : IsValue(AckFields[i].reader, AckFields[i].default)
    BY <1>3 DEF IsValue
  <1>6. \A i, j \in 1..5 : AckFields[i].key = AckFields[j].key => i = j
    BY <1>2
  <1> QED
    BY <1>1, <1>4, <1>5, <1>6 DEF GoodFields

LEMMA WakeFieldsText == IsText(WakeFields) /\ Len(WakeFields) = 20
  <1>1. WakeFields = [i \in 1..20 |-> WakeFields[i]]
    BY DEF WakeFields
  <1> QED
    BY <1>1, TextMade

LEMMA WakeKeys ==
  /\ WakeFields[1].key = "schema_version" /\ WakeFields[2].key = "correlation_id"
  /\ WakeFields[3].key = "market_ticker" /\ WakeFields[4].key = "asset"
  /\ WakeFields[5].key = "direction" /\ WakeFields[6].key = "kalshi_price"
  /\ WakeFields[7].key = "model_probability" /\ WakeFields[8].key = "fee"
  /\ WakeFields[9].key = "edge" /\ WakeFields[10].key = "decision_ts_ms"
  /\ WakeFields[11].key = "sent_at_ms" /\ WakeFields[12].key = "sent_at_ns"
  /\ WakeFields[13].key = "recv_ns" /\ WakeFields[14].key = "clock_domain"
  /\ WakeFields[15].key = "dry_run" /\ WakeFields[16].key = "wire_price_yes_dollars"
  /\ WakeFields[17].key = "exchange_index" /\ WakeFields[18].key = "available_size_contracts"
  /\ WakeFields[19].key = "price_ranges" /\ WakeFields[20].key = "correlation_group"
  BY DEF WakeFields

LEMMA WakeKeysDiffer ==
  \A i, j \in 1..20 : WakeFields[i].key = WakeFields[j].key => i = j
  BY WakeKeys, SMTT(30)

LEMMA WakeReaders ==
  /\ WakeFields[1].reader = "int" /\ WakeFields[2].reader = "string"
  /\ WakeFields[3].reader = "string" /\ WakeFields[4].reader = "string"
  /\ WakeFields[5].reader = "direction" /\ WakeFields[6].reader = "double"
  /\ WakeFields[7].reader = "double" /\ WakeFields[8].reader = "double"
  /\ WakeFields[9].reader = "double" /\ WakeFields[10].reader = "int"
  /\ WakeFields[11].reader = "int" /\ WakeFields[12].reader = "int"
  /\ WakeFields[13].reader = "int" /\ WakeFields[14].reader = "string"
  /\ WakeFields[15].reader = "bool" /\ WakeFields[16].reader = "double"
  /\ WakeFields[17].reader = "int" /\ WakeFields[18].reader = "double"
  /\ WakeFields[19].reader = "ranges" /\ WakeFields[20].reader = "string"
  BY DEF WakeFields

LEMMA WakeReadersGood ==
  \A i \in 1..20 : WakeFields[i].reader \in Readers
  BY WakeReaders DEF Readers

LEMMA DefaultGrid == IsGrid(<< <<0, 100, 1>> >>)
  <1> DEFINE x == <<0, 100, 1>>
             v == <<x>>
  <1>1. x = Triple(x)
    BY DEF Triple
  <1> HIDE DEF x
  <1>2. IsOne(v, x)
    BY OneToken
  <1> HIDE DEF v
  <1>3. IsText(v) /\ Len(v) = 1 /\ v[1] = x
    BY <1>2 DEF IsOne
  <1>4. IsGrid(v)
    BY <1>1, <1>3 DEF IsGrid
  <1> QED
    BY <1>4 DEF v, x

LEMMA WakeDefaults ==
  \A i \in 1..20 : IsValue(WakeFields[i].reader, WakeFields[i].default)
  <1> SUFFICES ASSUME NEW i \in 1..20
               PROVE  IsValue(WakeFields[i].reader, WakeFields[i].default)
    OBVIOUS
  <1> DEFINE grid == << <<0, 100, 1>> >>
  <1>1. WakeFields[5].default = "yes" /\ WakeFields[19].default = grid
    BY DEF WakeFields
  <1>2. IsGrid(grid)
    BY DefaultGrid
  <1> HIDE DEF grid
  <1>3. CASE i = 5
    BY <1>1, <1>3, WakeReaders DEF IsValue
  <1>4. CASE i = 19
    BY <1>1, <1>2, <1>4, WakeReaders DEF IsValue
  <1>5. CASE i # 5 /\ i # 19
    <2> DEFINE x == WakeFields[i].reader
    <2>1. x # "direction" /\ x # "status" /\ x # "reason" /\ x # "ranges"
      BY <1>5, WakeReaders
    <2> HIDE DEF x
    <2>2. \A y : IsValue(x, y)
      BY <2>1 DEF IsValue
    <2> QED
      BY <2>2, Zenon DEF x
  <1> QED
    BY <1>3, <1>4, <1>5

LEMMA WakeFieldsGood == GoodFields(WakeFields)
  <1> DEFINE n == 20
  <1>1. IsText(WakeFields) /\ Len(WakeFields) = n /\ n > 0
    BY WakeFieldsText, SMTT(30)
  <1>2. /\ \A i \in 1..n : /\ WakeFields[i].reader \in Readers
                          /\ IsValue(WakeFields[i].reader, WakeFields[i].default)
        /\ \A i, j \in 1..n : WakeFields[i].key = WakeFields[j].key => i = j
    BY WakeKeysDiffer, WakeReadersGood, WakeDefaults, Zenon
  <1> HIDE DEF n
  <1> QED
    BY <1>1, <1>2, Zenon DEF GoodFields

LEMMA RequiredAreKeys ==
  WakeRequired \subseteq Keys(WakeFields) /\ AckRequired \subseteq Keys(AckFields)
  <1>1. DOMAIN WakeFields = 1..20 /\ DOMAIN AckFields = 1..5
    <2>1. IsText(WakeFields) /\ IsText(AckFields) /\ Len(WakeFields) = 20 /\ Len(AckFields) = 5
      <3>1. AckFields = [i \in 1..5 |-> AckFields[i]]
        BY DEF AckFields
      <3> QED
        BY <3>1, WakeFieldsText, TextMade
    <2> QED
      BY <2>1, TextIs
  <1>2. \A i \in 1..12 : i \in 1..20
    OBVIOUS
  <1>3. \A i \in 1..4 : i \in 1..5
    OBVIOUS
  <1> QED
    BY <1>1, <1>2, <1>3, Zenon DEF WakeRequired, AckRequired, Keys

-----------------------------------------------------------------------------
(* The calls of the reader on any text.                                    *)

\* s is a reader of the text of r, and holds what r returned last.
Reads(r, s) == IsReader(s) /\ s.text = r.text
Follow(r, s) == Reads(r, s) /\ s.out = r.out

LEMMA FieldSet ==
  ASSUME NEW r, IsReader(r), NEW x
  PROVE  /\ Follow(r, [r EXCEPT !.pos = x]) /\ Follow(r, [r EXCEPT !.first = x])
         /\ Follow(r, [r EXCEPT !.present = x])
         /\ Follow(r, [r EXCEPT !.err = x]) /\ [r EXCEPT !.err = x].err = x
         /\ Reads(r, [r EXCEPT !.out = x]) /\ [r EXCEPT !.out = x].out = x
         /\ [r EXCEPT !.out = x].err = r.err
  BY DEF IsReader, Follow, Reads

LEMMA SkipFollows ==
  ASSUME NEW r, IsReader(r)
  PROVE  Follow(r, SkipWhitespace(r)) /\ Follow(r, Advance(r))
  <1>1. \E x : SkipWhitespace(r) = [r EXCEPT !.pos = x]
    BY Zenon DEF SkipWhitespace
  <1>2. \E x : Advance(r) = [r EXCEPT !.pos = x]
    BY Zenon DEF Advance
  <1>3. \A x : Follow(r, [r EXCEPT !.pos = x])
    BY FieldSet, Zenon
  <1> QED
    BY <1>1, <1>2, <1>3, Zenon

LEMMA FailFollows ==
  ASSUME NEW r, IsReader(r), NEW code
  PROVE  Follow(r, Fail(r, code)) /\ (code # "none" => Fail(r, code).err # "none")
  <1>1. Follow(r, [r EXCEPT !.err = code]) /\ [r EXCEPT !.err = code].err = code
    BY FieldSet, Zenon
  <1>2. Follow(r, r)
    BY Zenon DEF Follow, Reads
  <1> QED
    BY <1>1, <1>2, Zenon DEF Fail

LEMMA ThenFollows ==
  ASSUME NEW q, NEW r, NEW s, Follow(q, r), Follow(r, s)
  PROVE  Follow(q, s)
  BY Zenon DEF Follow, Reads

LEMMA ExpectFollows ==
  ASSUME NEW r, IsReader(r), NEW c
  PROVE  Follow(r, Expect(r, c))
  <1> DEFINE s == SkipWhitespace(r)
  <1>1. Follow(r, s) /\ IsReader(s)
    BY SkipFollows, Zenon DEF Follow, Reads
  <1>2. Expect(r, c) = Advance(s) \/ Expect(r, c) = Fail(s, "MalformedJson")
    BY Zenon DEF Expect
  <1> HIDE DEF s
  <1>3. Follow(s, Advance(s)) /\ Follow(s, Fail(s, "MalformedJson"))
    BY <1>1, SkipFollows, FailFollows, Zenon
  <1> QED
    BY <1>1, <1>2, <1>3, ThenFollows

LEMMA BeginFollows ==
  ASSUME NEW r, IsReader(r)
  PROVE  Follow(r, BeginArray(r)) /\ Follow(r, BeginObject(r))
  <1>1. ASSUME NEW s, IsReader(s) PROVE Follow(s, PushLevel(s))
    <2>1. \/ PushLevel(s) = Fail(s, "MalformedJson")
          \/ \E x : PushLevel(s) = [s EXCEPT !.first = x]
      BY Zenon DEF PushLevel
    <2>2. Follow(s, Fail(s, "MalformedJson")) /\ \A x : Follow(s, [s EXCEPT !.first = x])
      BY <1>1, FailFollows, FieldSet, Zenon
    <2> QED
      BY <2>1, <2>2, Zenon
  <1>2. ASSUME NEW c PROVE Follow(r, Then(Expect(r, c), PushLevel))
    <2> DEFINE s == Expect(r, c)
    <2>1. Follow(r, s) /\ IsReader(s)
      BY ExpectFollows, Zenon DEF Follow, Reads
    <2>2. Then(s, PushLevel) = s \/ Then(s, PushLevel) = PushLevel(s)
      BY Zenon DEF Then
    <2> HIDE DEF s
    <2>3. Follow(s, PushLevel(s)) /\ Follow(s, s)
      BY <1>1, <2>1, Zenon DEF Follow, Reads
    <2>4. Follow(s, Then(s, PushLevel))
      BY <2>2, <2>3, Zenon
    <2> QED
      BY <2>1, <2>4, Zenon DEF s, Follow, Reads
  <1> QED
    BY <1>2, Zenon DEF BeginArray, BeginObject

LEMMA AdvanceFollows ==
  ASSUME NEW r, IsReader(r), NEW close, close \in Closers
  PROVE  Follow(r, AdvanceTo(r, close))
  <1> DEFINE s == SkipWhitespace(r)
             a == AdvanceTo(r, close)
             F1(x) == [s EXCEPT !.first = x]
             A1(x) == [Advance(s) EXCEPT !.first = x]
  <1>1. Follow(r, s) /\ IsReader(s)
    BY SkipFollows, Zenon DEF Follow, Reads
  <1>2. \/ a = Fail(s, "MalformedJson")
        \/ \E x, y : a = [[Advance(s) EXCEPT !.first = x] EXCEPT !.present = y]
        \/ \E x, y : a = [[s EXCEPT !.first = x] EXCEPT !.present = y]
        \/ \E x : a = [Expect(s, "comma") EXCEPT !.present = x]
    <2>1. close # "end"
      BY DEF Closers
    <2>2. CASE Peek(s) = "end"
      <3>1. a = Fail(s, "MalformedJson")
        <4> HIDE DEF s
        <4> QED
          BY <2>1, <2>2 DEF AdvanceTo, s
      <3> QED
        BY <3>1, Zenon
    <2>3. CASE Peek(s) = close
      <3>1. a = [Advance(s) EXCEPT !.first = Front(@), !.present = FALSE]
        BY <2>1, <2>3 DEF AdvanceTo
      <3> QED
        BY <3>1, Zenon
    <2>4. CASE Peek(s) \notin {"end", close} /\ Last(s.first)
      <3>1. a = [s EXCEPT !.first = Append(Front(@), FALSE), !.present = TRUE]
        BY <2>4 DEF AdvanceTo
      <3> QED
        BY <3>1, Zenon
    <2>5. CASE Peek(s) \notin {"end", close} /\ ~Last(s.first)
      <3>1. a = [Expect(s, "comma") EXCEPT !.present = TRUE]
        BY <2>5 DEF AdvanceTo
      <3> QED
        BY <3>1, Zenon
    <2> QED
      BY <2>2, <2>3, <2>4, <2>5, Zenon
  <1> HIDE DEF s, a
  <1>3. Follow(s, Fail(s, "MalformedJson")) /\ Follow(s, Advance(s)) /\ Follow(s, Expect(s, "comma"))
    BY <1>1, FailFollows, SkipFollows, ExpectFollows, Zenon
  <1>4. ASSUME NEW t, Follow(s, t), NEW x, NEW y
        PROVE  Follow(s, [[t EXCEPT !.first = x] EXCEPT !.present = y])
    <2> DEFINE u == [t EXCEPT !.first = x]
    <2>1. IsReader(t)
      BY <1>4, Zenon DEF Follow, Reads
    <2>2. Follow(t, u) /\ IsReader(u)
      BY <2>1, FieldSet, Zenon DEF Follow, Reads
    <2> HIDE DEF u
    <2>3. Follow(u, [u EXCEPT !.present = y])
      BY <2>2, FieldSet, Zenon
    <2> QED
      BY <1>4, <2>2, <2>3, Zenon DEF u, Follow, Reads
  <1>5. Follow(s, s)
    BY <1>1, Zenon DEF Follow, Reads
  <1>6. ASSUME NEW t, Follow(s, t), NEW x PROVE Follow(s, [t EXCEPT !.present = x])
    <2>1. IsReader(t)
      BY <1>6, Zenon DEF Follow, Reads
    <2>2. Follow(t, [t EXCEPT !.present = x])
      BY <2>1, FieldSet, Zenon
    <2> QED
      BY <1>6, <2>2, Zenon DEF Follow, Reads
  <1>7. Follow(s, a)
    <2>1. CASE a = Fail(s, "MalformedJson")
      BY <1>3, <2>1, Zenon
    <2>2. CASE \E x, y : a = [[Advance(s) EXCEPT !.first = x] EXCEPT !.present = y]
      <3>1. PICK x, y : a = [[Advance(s) EXCEPT !.first = x] EXCEPT !.present = y]
        BY <2>2, Zenon
      <3>2. Follow(s, Advance(s))
        BY <1>3
      <3>3. Follow(s, [[Advance(s) EXCEPT !.first = x] EXCEPT !.present = y])
        BY <1>4, <3>2, Zenon
      <3> QED
        BY <3>1, <3>3, Zenon
    <2>3. CASE \E x, y : a = [[s EXCEPT !.first = x] EXCEPT !.present = y]
      <3>1. PICK x, y : a = [[s EXCEPT !.first = x] EXCEPT !.present = y]
        BY <2>3, Zenon
      <3>2. Follow(s, s)
        BY <1>5
      <3>3. Follow(s, [[s EXCEPT !.first = x] EXCEPT !.present = y])
        BY <1>4, <3>2, Zenon
      <3> QED
        BY <3>1, <3>3, Zenon
    <2>4. CASE \E x : a = [Expect(s, "comma") EXCEPT !.present = x]
      BY <1>3, <1>6, <2>4, ZenonT(30)
    <2> QED
      BY <1>2, <2>1, <2>2, <2>3, <2>4, Zenon
  <1> QED
    BY <1>1, <1>7, Zenon DEF a, s, Follow, Reads

\* What the calls that read a value return: a reader of the text, and its value is one
\* of those the call is for unless it failed.
LEMMA ScalarReads ==
  ASSUME NEW r, IsReader(r)
  PROVE  /\ \A x : LET s == [Advance(SkipWhitespace(r)) EXCEPT !.out = x]
                   IN  Reads(r, s) /\ s.out = x
         /\ Reads(r, Fail(SkipWhitespace(r), "WrongType"))
         /\ Fail(SkipWhitespace(r), "WrongType").err # "none"
  <1> DEFINE w == SkipWhitespace(r)
             a == Advance(w)
  <1>1. Follow(r, w) /\ IsReader(w) /\ w.text = r.text
    BY SkipFollows, Zenon DEF Follow, Reads
  <1> HIDE DEF w
  <1>2. Follow(w, a) /\ IsReader(a) /\ a.text = w.text
    BY <1>1, SkipFollows, Zenon DEF Follow, Reads
  <1> HIDE DEF a
  <1>3. ASSUME NEW x PROVE Reads(r, [a EXCEPT !.out = x]) /\ [a EXCEPT !.out = x].out = x
    <2>1. Reads(a, [a EXCEPT !.out = x]) /\ [a EXCEPT !.out = x].out = x
      BY <1>2, FieldSet, Zenon
    <2> QED
      BY <1>1, <1>2, <2>1, Zenon DEF Reads
  <1>4. Follow(w, Fail(w, "WrongType")) /\ Fail(w, "WrongType").err # "none"
    <2>1. "WrongType" # "none"
      OBVIOUS
    <2> QED
      BY <1>1, <2>1, FailFollows, Zenon
  <1> QED
    BY <1>1, <1>3, <1>4, Zenon DEF a, w, Follow, Reads

LEMMA PlainReads ==
  ASSUME NEW r, IsReader(r)
  PROVE  /\ Reads(r, ReadString(r)) /\ Reads(r, ReadBool(r)) /\ Reads(r, ReadInt(r))
         /\ Reads(r, ReadDouble(r))
         /\ Reads(r, ReadNull(r)) /\ (ReadNull(r).err = "none" => ReadNull(r).out = << >>)
  <1> DEFINE S(s) == \/ \E x : s = [Advance(SkipWhitespace(r)) EXCEPT !.out = x]
                     \/ s = Fail(SkipWhitespace(r), "WrongType")
  <1>1. S(ReadString(r)) /\ S(ReadBool(r))
    BY Zenon DEF ReadString, ReadBool, ReadScalar
  <1>2. S(ReadInt(r)) \/ ReadInt(r) = Fail(r, "OutOfRange")
    BY Zenon DEF ReadInt, ReadScalar
  <1>3. S(ReadDouble(r)) \/ ReadDouble(r) = Fail(r, "OutOfRange")
    BY Zenon DEF ReadDouble, ReadScalar
  <1>4. \/ ReadNull(r) = [Advance(SkipWhitespace(r)) EXCEPT !.out = << >>]
        \/ ReadNull(r) = Fail(SkipWhitespace(r), "WrongType")
    BY Zenon DEF ReadNull, ReadScalar
  <1>5. ASSUME NEW s, S(s) PROVE Reads(r, s)
    BY <1>5, ScalarReads, Zenon
  <1>6. Reads(r, Fail(r, "OutOfRange"))
    BY FailFollows, Zenon DEF Follow
  <1>7. Reads(r, ReadNull(r)) /\ (ReadNull(r).err = "none" => ReadNull(r).out = << >>)
    <2>1. CASE ReadNull(r) = [Advance(SkipWhitespace(r)) EXCEPT !.out = << >>]
      BY <2>1, ScalarReads, Zenon
    <2>2. CASE ReadNull(r) = Fail(SkipWhitespace(r), "WrongType")
      BY <2>2, ScalarReads, Zenon
    <2> QED
      BY <1>4, <2>1, <2>2
  <1> HIDE DEF S
  <1> QED
    BY <1>1, <1>2, <1>3, <1>5, <1>6, <1>7, Zenon

LEMMA EnumReads ==
  ASSUME NEW r, IsReader(r), NEW names
  PROVE  /\ Reads(r, ReadEnum(r, names))
         /\ ReadEnum(r, names).err = "none" => ReadEnum(r, names).out \in names
  <1> DEFINE s == ReadString(r)
             q == ReadEnum(r, names)
  <1>1. \/ q = s /\ s.err # "none"
        \/ q = s /\ s.out \in names
        \/ q = Fail(s, "UnknownEnumValue")
    BY Zenon DEF ReadEnum, Then
  <1>2. Reads(r, s) /\ IsReader(s)
    BY PlainReads, Zenon DEF Reads
  <1> HIDE DEF s, q
  <1>3. Follow(s, Fail(s, "UnknownEnumValue")) /\ Fail(s, "UnknownEnumValue").err # "none"
    <2>1. "UnknownEnumValue" # "none"
      OBVIOUS
    <2> QED
      BY <1>2, <2>1, FailFollows, Zenon
  <1>4. Reads(r, Fail(s, "UnknownEnumValue"))
    BY <1>2, <1>3, Zenon DEF Follow, Reads
  <1>5. Reads(r, q) /\ (q.err = "none" => q.out \in names)
    BY <1>1, <1>2, <1>3, <1>4, Zenon
  <1> QED
    BY <1>5, Zenon DEF q

LEMMA ReasonReads ==
  ASSUME NEW r, IsReader(r)
  PROVE  /\ Reads(r, ReadReason(r))
         /\ ReadReason(r).err = "none" => IsValue("reason", ReadReason(r).out)
  <1> DEFINE s == ReadString(r)
             q == ReadReason(r)
             z == ReadNull(r)
  <1>1. \/ q = z
        \/ q = s /\ s.err # "none"
        \/ \E x : q = [s EXCEPT !.out = <<x>>]
    BY Zenon DEF ReadReason, Then
  <1>2. Reads(r, s) /\ IsReader(s) /\ Reads(r, z) /\ (z.err = "none" => z.out = << >>)
    BY PlainReads, Zenon DEF Reads
  <1> HIDE DEF s, q, z
  <1>3. Reads(r, q) /\ (q.err = "none" => q.out = << >> \/ \E x : q.out = <<x>>)
    <2>1. CASE \E x : q = [s EXCEPT !.out = <<x>>]
      <3>1. PICK x : q = [s EXCEPT !.out = <<x>>]
        BY <2>1
      <3>2. \A y : Reads(s, [s EXCEPT !.out = y]) /\ [s EXCEPT !.out = y].out = y
        BY <1>2, FieldSet, Zenon
      <3> QED
        BY <1>2, <3>1, <3>2, Zenon DEF Reads
    <2> QED
      BY <1>1, <1>2, <2>1, Zenon
  <1>4. \A x : x = << >> \/ (\E y : x = <<y>>) => IsValue("reason", x)
    BY SMT DEF IsValue
  <1> QED
    BY <1>3, <1>4, Zenon DEF q

LEMMA BoundReads ==
  ASSUME NEW r, IsReader(r)
  PROVE  Reads(r, NextElement(r)) /\ Reads(r, Bound(r)) /\ Reads(r, Then(r, Bound))
         /\ Reads(r, Then(r, NextElement)) /\ NextElement(r).out = r.out
  <1> DEFINE e == NextElement(r)
             b == Bound(r)
  <1>1. Follow(r, e)
    <2>1. "end_array" \in Closers
      BY DEF Closers
    <2> QED
      BY <2>1, AdvanceFollows, Zenon DEF NextElement
  <1>2. b = e \/ b = ReadDouble(e) \/ b = Fail(e, "MalformedPriceRange")
    BY Zenon DEF Bound, Then
  <1>3. Then(r, Bound) = r \/ Then(r, Bound) = b
    BY Zenon DEF Then
  <1>4. Then(r, NextElement) = r \/ Then(r, NextElement) = e
    BY Zenon DEF Then
  <1> HIDE DEF e, b
  <1>5. IsReader(e) /\ Reads(r, e) /\ Reads(r, r) /\ e.out = r.out
    BY <1>1, Zenon DEF Follow, Reads
  <1>6. Reads(e, ReadDouble(e)) /\ Follow(e, Fail(e, "MalformedPriceRange"))
    BY <1>5, PlainReads, FailFollows, Zenon
  <1>7. Reads(r, b)
    BY <1>2, <1>5, <1>6, Zenon DEF Follow, Reads
  <1> QED
    BY <1>3, <1>4, <1>5, <1>7, Zenon DEF e, b

LEMMA RangeReads ==
  ASSUME NEW r, IsReader(r)
  PROVE  /\ Reads(r, ReadRange(r))
         /\ ReadRange(r).err = "none" => ReadRange(r).out = Triple(ReadRange(r).out)
  <1> DEFINE a == BeginArray(r)
             start == Then(a, Bound)
             end == Then(start, Bound)
             step == Then(end, Bound)
             n == Then(step, NextElement)
             q == ReadRange(r)
  <1>1. \/ q = n /\ n.err # "none"
        \/ q = Fail(n, "MalformedPriceRange")
        \/ q = [n EXCEPT !.out = <<start.out, end.out, step.out>>]
    BY ZenonT(30) DEF ReadRange, Then, Bound
  <1>2. IsReader(a) /\ Reads(r, a)
    BY BeginFollows, Zenon DEF Follow, Reads
  <1> HIDE DEF q, a
  <1>3. IsReader(start) /\ Reads(a, start)
    BY <1>2, BoundReads, Zenon DEF Reads
  <1> HIDE DEF start
  <1>4. IsReader(end) /\ Reads(start, end)
    BY <1>3, BoundReads, Zenon DEF Reads
  <1> HIDE DEF end
  <1>5. IsReader(step) /\ Reads(end, step)
    BY <1>4, BoundReads, Zenon DEF Reads
  <1> HIDE DEF step
  <1>6. IsReader(n) /\ Reads(step, n)
    BY <1>5, BoundReads, Zenon DEF Reads
  <1> HIDE DEF n
  <1>7. Reads(r, n)
    BY <1>2, <1>3, <1>4, <1>5, <1>6, Zenon DEF Reads
  <1>8. Follow(n, Fail(n, "MalformedPriceRange")) /\ Fail(n, "MalformedPriceRange").err # "none"
    <2>1. "MalformedPriceRange" # "none"
      OBVIOUS
    <2> QED
      BY <1>6, <2>1, FailFollows, Zenon
  <1> DEFINE x == <<start.out, end.out, step.out>>
  <1>9. x = Triple(x)
    BY DEF Triple
  <1> HIDE DEF x
  <1>10. Reads(n, [n EXCEPT !.out = x]) /\ [n EXCEPT !.out = x].out = x
    BY <1>6, FieldSet, Zenon
  <1>11. Reads(r, q) /\ (q.err = "none" => q.out = Triple(q.out))
    <2>1. CASE q = n /\ n.err # "none"
      BY <1>7, <2>1, Zenon
    <2>2. CASE q = Fail(n, "MalformedPriceRange")
      BY <1>7, <1>8, <2>2, Zenon DEF Follow, Reads
    <2>3. CASE q = [n EXCEPT !.out = x]
      BY <1>7, <1>9, <1>10, <2>3, Zenon DEF Reads
    <2> QED
      BY <1>1, <2>1, <2>2, <2>3, Zenon DEF x
  <1> QED
    BY <1>11, Zenon DEF q

LEMMA GridGrows ==
  ASSUME NEW v, IsGrid(v), NEW x, x = Triple(x)
  PROVE  IsGrid(Append(v, x))
  <1>1. PICK S : v \in Seq(S)
    BY DEF IsGrid, IsText
  <1> DEFINE T == S \cup {x}
             w == Append(v, x)
  <1>2. v \in Seq(T) /\ x \in T
    BY <1>1
  <1> HIDE DEF T
  <1>3. /\ w \in Seq(T) /\ Len(w) = Len(v) + 1 /\ Len(v) \in Nat
        /\ \A i \in 1..Len(w) : w[i] = IF i <= Len(v) THEN v[i] ELSE x
    BY <1>2
  <1> HIDE DEF w
  <1>4. ASSUME NEW i \in 1..Len(w) PROVE w[i] = Triple(w[i])
    <2>1. CASE i <= Len(v)
      <3>1. i \in 1..Len(v) /\ w[i] = v[i]
        BY <1>3, <2>1
      <3>2. v[i] = Triple(v[i])
        BY <3>1, Zenon DEF IsGrid
      <3> QED
        BY <3>1, <3>2, Zenon
    <2>2. CASE ~(i <= Len(v))
      <3>1. w[i] = x
        BY <1>3, <2>2
      <3> QED
        BY <3>1, Zenon
    <2> QED
      BY <2>1, <2>2
  <1> QED
    BY <1>3, <1>4, Zenon DEF IsGrid, IsText, w

\* What the turns of ReadPriceRanges keep.
GridSoFar(r, s) == Reads(r, s) /\ (s.err = "none" => IsGrid(s.out))

LEMMA GridTurnReads ==
  ASSUME NEW r, NEW s, GridSoFar(r, s)
  PROVE  GridSoFar(r, GridTurn(s))
  <1> DEFINE e == NextElement(s)
             x == ReadRange(e)
             a == Append(s.out, x.out)
             q == GridTurn(s)
  <1>1. \/ q = s
        \/ q = e /\ s.err = "none"
        \/ q = x /\ x.err # "none"
        \/ q = [x EXCEPT !.present = TRUE, !.out = Append(s.out, @)] /\ s.err = "none" /\ x.err = "none"
    BY Zenon DEF GridTurn, Then
  <1>2. IsReader(s) /\ Reads(r, s)
    BY Zenon DEF GridSoFar, Reads
  <1>3. IsReader(e) /\ Reads(s, e) /\ e.out = s.out
    BY <1>2, BoundReads, Zenon DEF Reads
  <1> HIDE DEF e
  <1>4. IsReader(x) /\ Reads(e, x) /\ (x.err = "none" => x.out = Triple(x.out))
    BY <1>3, RangeReads, Zenon DEF Reads
  <1> HIDE DEF x
  <1>5. Reads(r, e) /\ Reads(r, x)
    BY <1>2, <1>3, <1>4, Zenon DEF Reads
  <1>6. GridSoFar(r, q)
    <2> HIDE DEF q
    <2>1. CASE q = s
      BY <2>1, Zenon
    <2>2. CASE q = e /\ s.err = "none"
      BY <1>3, <1>5, <2>2, Zenon DEF GridSoFar
    <2>3. CASE q = x /\ x.err # "none"
      BY <1>5, <2>3, Zenon DEF GridSoFar
    <2>4. CASE q = [x EXCEPT !.present = TRUE, !.out = Append(s.out, @)] /\ s.err = "none" /\ x.err = "none"
      <3> DEFINE u == [x EXCEPT !.present = Yes]
      <3>1. IsGrid(a)
        BY <1>4, <2>4, GridGrows, Zenon DEF GridSoFar
      <3>2. q = [u EXCEPT !.out = a]
        BY <2>4, Zenon DEF Yes
      <3> HIDE DEF a
      <3>3. Follow(x, u) /\ IsReader(u)
        BY <1>4, FieldSet, Zenon DEF Follow, Reads
      <3> HIDE DEF u
      <3>4. Reads(u, [u EXCEPT !.out = a]) /\ [u EXCEPT !.out = a].out = a
        BY <3>3, FieldSet, Zenon
      <3> QED
        BY <1>5, <3>1, <3>2, <3>3, <3>4, Zenon DEF GridSoFar, Follow, Reads
    <2> QED
      BY <1>1, <2>1, <2>2, <2>3, <2>4
  <1> QED
    BY <1>6, Zenon DEF q

LEMMA GridReads ==
  ASSUME NEW r, IsReader(r), IsText(r.text)
  PROVE  GridSoFar(r, ReadPriceRanges(r))
  <1> DEFINE n == Count(r.text, "begin_array")
             b == BeginArray(r)
             a == [[b EXCEPT !.present = Yes] EXCEPT !.out = << >>]
  <1>1. PICK g : GridTurns(r, g)
    BY GridTurnsExist
  <1>2. n \in Nat
    BY CountIsNat
  <1>3. a = [BeginArray(r) EXCEPT !.present = TRUE, !.out = << >>]
    BY Zenon DEF Yes
  <1>4. /\ ReadPriceRanges(r) = g[n] /\ g[0] = a
        /\ \A k \in 1..n : g[k] = StepOf("ranges", k, g[k - 1], << >>)
    BY <1>1, <1>3, Zenon DEF GridTurns, Steps
  <1>5. GridSoFar(r, a)
    <2> DEFINE u == [b EXCEPT !.present = Yes]
               none == << >>
    <2>1. IsReader(b) /\ Reads(r, b)
      BY BeginFollows, Zenon DEF Follow, Reads
    <2>2. IsGrid(none)
      <3>1. none \in Seq({}) /\ Len(none) = 0
        OBVIOUS
      <3> HIDE DEF none
      <3> QED
        BY <3>1 DEF IsGrid, IsText
    <2> HIDE DEF none, b
    <2>3. Follow(b, u) /\ IsReader(u)
      BY <2>1, FieldSet, Zenon DEF Follow, Reads
    <2> HIDE DEF u
    <2>4. Reads(u, [u EXCEPT !.out = none]) /\ [u EXCEPT !.out = none].out = none
      BY <2>3, FieldSet, Zenon
    <2> QED
      BY <2>1, <2>2, <2>3, <2>4, Zenon DEF GridSoFar, Follow, Reads, u, none
  <1> HIDE DEF n, a
  <1> DEFINE T == {k \in 0..n : GridSoFar(r, g[k])}
  <1>6. 0 \in T
    BY <1>2, <1>4, <1>5
  <1>7. ASSUME NEW k \in 1..n, k - 1 \in T PROVE k \in T
    <2>1. GridSoFar(r, g[k - 1]) /\ k \in 0..n
      BY <1>2, <1>7
    <2>2. g[k] = StepOf("ranges", k, g[k - 1], << >>)
      BY <1>4
    <2> DEFINE s == g[k - 1]
    <2>3. StepOf("ranges", k, s, << >>) = GridTurn(s)
      <3> HIDE DEF s
      <3> QED
        BY SMT DEF StepOf
    <2>4. GridSoFar(r, GridTurn(s))
      BY <2>1, GridTurnReads, Zenon
    <2> QED
      BY <2>1, <2>2, <2>3, <2>4, Zenon
  <1> HIDE DEF T
  <1>8. \A k \in 0..n : k \in T
    BY <1>2, <1>6, <1>7, UpTo
  <1>9. n \in T
    BY <1>2, <1>8
  <1> QED
    BY <1>4, <1>9, Zenon DEF T

\* What a field's reader returns is what the field may hold.
LEMMA ReadAsReads ==
  ASSUME NEW r, IsReader(r), IsText(r.text), NEW reader, reader \in Readers
  PROVE  /\ Reads(r, ReadAs(reader, r))
         /\ ReadAs(reader, r).err = "none" => IsValue(reader, ReadAs(reader, r).out)
  <1> DEFINE Good(s) == Reads(r, s) /\ (s.err = "none" => IsValue(reader, s.out))
  <1>1. CASE reader \in {"int", "double", "string", "bool"}
    <2>1. \A v : IsValue(reader, v)
      BY <1>1 DEF IsValue
    <2>2. ReadAs(reader, r) \in {ReadInt(r), ReadDouble(r), ReadString(r), ReadBool(r)}
      BY <1>1, ReadAsIs, Zenon
    <2>3. Reads(r, ReadAs(reader, r))
      BY <2>2, PlainReads, Zenon
    <2> QED
      BY <2>1, <2>3, Zenon
  <1>2. CASE reader = "direction"
    <2> DEFINE names == {"yes", "no"}
    <2>1. \A v \in names : IsValue(reader, v)
      BY <1>2 DEF IsValue
    <2>2. ReadAs(reader, r) = ReadEnum(r, names)
      BY <1>2, ReadAsIs, Zenon
    <2> HIDE DEF names
    <2> QED
      BY <2>1, <2>2, EnumReads, Zenon
  <1>3. CASE reader = "status"
    <2> DEFINE names == {"accepted", "rejected"}
    <2>1. \A v \in names : IsValue(reader, v)
      BY <1>3 DEF IsValue
    <2>2. ReadAs(reader, r) = ReadEnum(r, names)
      BY <1>3, ReadAsIs, Zenon
    <2> HIDE DEF names
    <2> QED
      BY <2>1, <2>2, EnumReads, Zenon
  <1>4. CASE reader = "reason"
    <2>1. ReadAs(reader, r) = ReadReason(r)
      BY <1>4, ReadAsIs, Zenon
    <2> QED
      BY <1>4, <2>1, ReasonReads, Zenon
  <1>5. CASE reader = "ranges"
    <2>1. ReadAs(reader, r) = ReadPriceRanges(r)
      BY <1>5, ReadAsIs, Zenon
    <2>2. \A v : IsGrid(v) => IsValue(reader, v)
      BY <1>5, SMT DEF IsValue
    <2> QED
      BY <2>1, <2>2, GridReads, Zenon DEF GridSoFar
  <1>6. reader \in {"int", "double", "string", "bool", "direction", "status", "reason", "ranges"}
    BY Zenon DEF Readers
  <1> QED
    BY <1>1, <1>2, <1>3, <1>4, <1>5, <1>6, Zenon

LEMMA MemberReads ==
  ASSUME NEW r, IsReader(r)
  PROVE  Reads(r, NextMember(r))
  <1> DEFINE s == AdvanceTo(r, "end_object")
             k == ReadString(s)
             q == NextMember(r)
  <1>1. q = s \/ q = k \/ q = Expect(k, "colon")
    BY Zenon DEF NextMember, Then
  <1>2. IsReader(s) /\ Reads(r, s)
    <2>1. "end_object" \in Closers
      BY DEF Closers
    <2> QED
      BY <2>1, AdvanceFollows, Zenon DEF Follow, Reads
  <1> HIDE DEF s, q
  <1>3. IsReader(k) /\ Reads(s, k)
    BY <1>2, PlainReads, Zenon DEF Reads
  <1> HIDE DEF k
  <1>4. Follow(k, Expect(k, "colon"))
    BY <1>3, ExpectFollows, Zenon
  <1>5. Reads(r, q)
    BY <1>1, <1>2, <1>3, <1>4, Zenon DEF Follow, Reads
  <1> QED
    BY <1>5, Zenon DEF q

LEMMA KeyOfField ==
  ASSUME NEW fields, GoodFields(fields), NEW key, key \in Keys(fields)
  PROVE  \E i \in 1..Len(fields) : fields[i].key = key /\ Field(fields, key) = fields[i]
  <1>1. DOMAIN fields = 1..Len(fields)
    BY TextIs DEF GoodFields
  <1>2. PICK i \in 1..Len(fields) : fields[i].key = key
    BY <1>1, Zenon DEF Keys
  <1> QED
    BY <1>2, FieldIs, Zenon

\* A message whose field is overwritten with a value of the field, and the defaults.
LEMMA PutIsMessage ==
  ASSUME NEW fields, GoodFields(fields), NEW v, IsMessage(v, fields), NEW key, key \in Keys(fields),
         NEW w, IsValue(Field(fields, key).reader, w)
  PROVE  IsMessage(Put(v, key, w), fields)
  <1> DEFINE u == Put(v, key, w)
             K == Keys(fields)
  <1>1. v = [k \in K |-> v[k]]
    BY Zenon DEF IsMessage
  <1>2. /\ u = [k \in K |-> u[k]]
        /\ \A k \in K : u[k] = IF k = key THEN w ELSE v[k]
    <2> HIDE DEF K
    <2> QED
      BY <1>1 DEF Put
  <1> HIDE DEF u
  <1>3. ASSUME NEW i \in 1..Len(fields) PROVE IsValue(fields[i].reader, u[fields[i].key])
    <2>1. fields[i].key \in K /\ Field(fields, fields[i].key) = fields[i]
      BY FieldIs, Zenon
    <2>2. CASE fields[i].key = key
      BY <1>2, <2>1, <2>2, Zenon
    <2>3. CASE fields[i].key # key
      BY <1>2, <2>1, <2>3, Zenon DEF IsMessage
    <2> QED
      BY <2>2, <2>3, Zenon
  <1> QED
    BY <1>2, <1>3, Zenon DEF IsMessage, u, K

LEMMA DefaultIsMessage ==
  ASSUME NEW fields, GoodFields(fields)
  PROVE  IsMessage(Default(fields), fields)
  <1> DEFINE D == Default(fields)
             K == Keys(fields)
  <1>1. D = [k \in K |-> Field(fields, k).default]
    BY Zenon DEF Default
  <1> HIDE DEF D, K
  <1>2. D = [k \in K |-> D[k]] /\ \A k \in K : D[k] = Field(fields, k).default
    BY <1>1
  <1>3. ASSUME NEW i \in 1..Len(fields) PROVE IsValue(fields[i].reader, D[fields[i].key])
    <2>1. fields[i].key \in K /\ Field(fields, fields[i].key) = fields[i]
      BY FieldIs, Zenon DEF K
    <2>2. IsValue(fields[i].reader, fields[i].default)
      BY Zenon DEF GoodFields
    <2> QED
      BY <1>2, <2>1, <2>2, Zenon
  <1> QED
    BY <1>2, <1>3, Zenon DEF IsMessage, D, K

\* What the turns of Decode keep.
MessageSoFar(text, fields, d) ==
    /\ d = DecodedAt(d.r, d.v, d.seen)
    /\ IsReader(d.r) /\ d.r.text = text
    /\ IsMessage(d.v, fields)

LEMMA OtherReader ==
  ASSUME NEW text, NEW fields, NEW d, MessageSoFar(text, fields, d), NEW s, Reads(d.r, s)
  PROVE  MessageSoFar(text, fields, [d EXCEPT !.r = s])
  <1> DEFINE x == d.r
             v == d.v
             seen == d.seen
  <1>1. d = DecodedAt(x, v, seen) /\ x.text = text /\ IsMessage(v, fields)
    BY Zenon DEF MessageSoFar
  <1>2. IsReader(s) /\ s.text = x.text
    BY Zenon DEF Reads
  <1> HIDE DEF x, v, seen
  <1>3. [DecodedAt(x, v, seen) EXCEPT !.r = s] = DecodedAt(s, v, seen)
    BY DEF DecodedAt
  <1>4. LET e == DecodedAt(s, v, seen) IN e.r = s /\ e.v = v /\ e.seen = seen
    BY DEF DecodedAt
  <1> QED
    BY <1>1, <1>2, <1>3, <1>4, Zenon DEF MessageSoFar

LEMMA FieldPut ==
  ASSUME NEW text, IsText(text), NEW fields, GoodFields(fields), NEW d, MessageSoFar(text, fields, d),
         NEW m, Reads(d.r, m)
  PROVE  MessageSoFar(text, fields, ReadField(d, m, fields))
  <1> DEFINE key == m.out
             reader == Field(fields, key).reader
             read == ReadAs(reader, m)
             q == ReadField(d, m, fields)
             w == read.out
             y == [read EXCEPT !.present = Yes]
             u == Put(d.v, key, w)
             s == With(d.seen, key)
  <1>0. IsReader(m) /\ m.text = text
    BY Zenon DEF Reads, MessageSoFar
  <1>1. CASE key \notin Keys(fields)
    <2>1. q = [d EXCEPT !.r = Fail(m, "UnknownField")]
      BY <1>1, Zenon DEF ReadField
    <2>2. Follow(m, Fail(m, "UnknownField"))
      BY <1>0, FailFollows, Zenon
    <2>3. Reads(d.r, Fail(m, "UnknownField"))
      BY <2>2, Zenon DEF Follow, Reads
    <2>4. MessageSoFar(text, fields, [d EXCEPT !.r = Fail(m, "UnknownField")])
      BY <2>3, OtherReader, Zenon
    <2> HIDE DEF q, key
    <2>5. MessageSoFar(text, fields, q)
      BY <2>1, <2>4, Zenon
    <2> QED
      BY <2>5, Zenon DEF q
  <1>2. CASE key \in Keys(fields)
    <2>1. reader \in Readers
      <3>1. PICK i \in 1..Len(fields) : Field(fields, key) = fields[i]
        BY <1>2, KeyOfField, Zenon
      <3> QED
        BY <3>1, Zenon DEF GoodFields
    <2>2. Reads(m, read) /\ (read.err = "none" => IsValue(reader, w))
      BY <1>0, <2>1, ReadAsReads, Zenon
    <2>3. \/ q = [d EXCEPT !.r = read]
          \/ /\ read.err = "none"
             /\ q = [d EXCEPT !.r = [read EXCEPT !.present = TRUE], !.v[key] = read.out,
                              !.seen = @ \cup {key}]
      BY <1>2, Zenon DEF ReadField
    <2> HIDE DEF q, read, reader, w
    <2>4. CASE q = [d EXCEPT !.r = read]
      <3>1. Reads(d.r, read)
        BY <2>2, Zenon DEF Reads
      <3>2. MessageSoFar(text, fields, [d EXCEPT !.r = read])
        BY <3>1, OtherReader, Zenon
      <3>3. MessageSoFar(text, fields, q)
        BY <2>4, <3>2, Zenon
      <3> QED
        BY <3>3, Zenon DEF q
    <2>5. CASE /\ read.err = "none"
               /\ q = [d EXCEPT !.r = [read EXCEPT !.present = TRUE], !.v[key] = read.out,
                                !.seen = @ \cup {key}]
      <3>1. q = [[[d EXCEPT !.r = y] EXCEPT !.v = u] EXCEPT !.seen = s]
        BY <2>5, Zenon DEF Put, With, Yes, w
      <3>2. IsMessage(u, fields)
        BY <1>2, <2>2, <2>5, PutIsMessage, Zenon DEF reader, MessageSoFar
      <3>3. IsReader(y) /\ y.text = text
        <4>1. IsReader(read) /\ read.text = text
          BY <1>0, <2>2, Zenon DEF Reads
        <4>2. Follow(read, [read EXCEPT !.present = Yes])
          BY <4>1, FieldSet, Zenon
        <4> QED
          BY <4>1, <4>2, Zenon DEF Follow, Reads
      <3> DEFINE r0 == d.r
                 v0 == d.v
                 s0 == d.seen
      <3>4. d = DecodedAt(r0, v0, s0)
        BY Zenon DEF MessageSoFar
      <3> HIDE DEF y, u, s, r0, v0, s0
      <3>5. /\ [DecodedAt(r0, v0, s0) EXCEPT !.r = y] = DecodedAt(y, v0, s0)
            /\ [DecodedAt(y, v0, s0) EXCEPT !.v = u] = DecodedAt(y, u, s0)
            /\ [DecodedAt(y, u, s0) EXCEPT !.seen = s] = DecodedAt(y, u, s)
        BY DEF DecodedAt
      <3>6. q = DecodedAt(y, u, s)
        BY <3>1, <3>4, <3>5, Zenon
      <3>7. LET e == DecodedAt(y, u, s) IN e.r = y /\ e.v = u /\ e.seen = s
        BY DEF DecodedAt
      <3> QED
        BY <3>2, <3>3, <3>6, <3>7, Zenon DEF MessageSoFar, q
    <2> QED
      BY <2>3, <2>4, <2>5
  <1> QED
    BY <1>1, <1>2

LEMMA MemberTurnReads ==
  ASSUME NEW text, IsText(text), NEW fields, GoodFields(fields), NEW d, MessageSoFar(text, fields, d)
  PROVE  MessageSoFar(text, fields, MemberTurn(d, fields))
  <1> DEFINE m == NextMember(d.r)
             q == MemberTurn(d, fields)
  <1>1. q = d \/ q = [d EXCEPT !.r = m] \/ q = ReadField(d, m, fields)
    BY Zenon DEF MemberTurn
  <1>2. Reads(d.r, m)
    BY MemberReads, Zenon DEF MessageSoFar
  <1> HIDE DEF m, q
  <1>3. MessageSoFar(text, fields, [d EXCEPT !.r = m])
    BY <1>2, OtherReader, Zenon
  <1>4. MessageSoFar(text, fields, ReadField(d, m, fields))
    BY <1>2, FieldPut, Zenon
  <1> QED
    BY <1>1, <1>3, <1>4, Zenon DEF q

\* Whatever text is accepted, what it is decoded to is a message.
LEMMA DecodeIsMessage ==
  ASSUME NEW text, IsText(text), NEW fields, GoodFields(fields), NEW required,
         Decode(text, fields, required).err = "none"
  PROVE  \E v : IsMessage(v, fields) /\ Decode(text, fields, required) = Ok(v)
  <1> DEFINE n == Count(text, "colon") + 1
             a == [BeginObject(Reader(text)) EXCEPT !.present = TRUE]
  <1>1. PICK g : /\ MemberTurns(text, fields, g)
                 /\ Decode(text, fields, required) = Concluded(g[n], required)
    BY DecodeIs
  <1>2. /\ g[0] = DecodedAt(a, Default(fields), {})
        /\ \A k \in 1..n : g[k] = MemberTurn(g[k - 1], fields)
    BY <1>1, TurnsAreTurns, Zenon
  <1>3. n \in Nat
    <2>1. Count(text, "colon") \in Nat
      BY CountIsNat
    <2> QED
      BY <2>1
  <1>4. MessageSoFar(text, fields, g[0])
    <2> DEFINE r == Reader(text)
               b == BeginObject(r)
               D == Default(fields)
               none == {}
    <2>1. IsReader(r) /\ r.text = text
      BY DEF Reader, IsReader
    <2> HIDE DEF r
    <2>2. IsReader(b) /\ b.text = text
      BY <2>1, BeginFollows, Zenon DEF Follow, Reads
    <2>3. a = [b EXCEPT !.present = Yes]
      BY Zenon DEF Yes, r
    <2> HIDE DEF b, D, a, none
    <2>4. IsReader(a) /\ a.text = text
      BY <2>2, <2>3, FieldSet, Zenon DEF Follow, Reads
    <2>5. LET e == DecodedAt(a, D, none) IN e.r = a /\ e.v = D /\ e.seen = none
      BY DEF DecodedAt
    <2>6. IsMessage(D, fields)
      BY DefaultIsMessage, Zenon DEF D
    <2> QED
      BY <1>2, <2>4, <2>5, <2>6, Zenon DEF MessageSoFar, D, none
  <1> HIDE DEF n, a
  <1> DEFINE T == {k \in 0..n : MessageSoFar(text, fields, g[k])}
  <1>5. 0 \in T
    BY <1>3, <1>4
  <1>6. ASSUME NEW k \in 1..n, k - 1 \in T PROVE k \in T
    <2>1. MessageSoFar(text, fields, g[k - 1]) /\ k \in 0..n
      BY <1>3, <1>6
    <2>2. g[k] = MemberTurn(g[k - 1], fields)
      BY <1>2
    <2> QED
      BY <2>1, <2>2, MemberTurnReads, Zenon
  <1> HIDE DEF T
  <1>7. \A k \in 0..n : k \in T
    BY <1>3, <1>5, <1>6, UpTo
  <1> DEFINE d == g[n]
             end == Then(d.r, AtDocumentEnd)
  <1>8. MessageSoFar(text, fields, d)
    <2>1. n \in T
      BY <1>3, <1>7
    <2> QED
      BY <2>1, Zenon DEF T
  <1> HIDE DEF d
  <1>9. \A code : code # "none" => Failure(code).err # "none"
    BY DEF Failure
  <1>10. Decode(text, fields, required) = Ok(d.v)
    <2>1. \/ end.err # "none" /\ Concluded(d, required) = Failure(end.err)
          \/ Concluded(d, required) = Failure("MissingField")
          \/ Concluded(d, required) = Ok(d.v)
      BY Zenon DEF Concluded
    <2> HIDE DEF end
    <2>2. "MissingField" # "none"
      OBVIOUS
    <2> QED
      BY <1>1, <1>9, <2>1, <2>2, Zenon DEF d
  <1> QED
    BY <1>8, <1>10, Zenon DEF MessageSoFar

\* What is decoded, sent again, is decoded to the same.
LEMMA DecodedReadBack ==
  ASSUME NEW text, IsText(text), NEW fields, GoodFields(fields), NEW required,
         required \subseteq Keys(fields), Decode(text, fields, required).err = "none"
  PROVE  Decode(EncodeBody(Decode(text, fields, required).v, fields), fields, required)
           = Decode(text, fields, required)
  <1>1. PICK v : IsMessage(v, fields) /\ Decode(text, fields, required) = Ok(v)
    BY DecodeIsMessage, Zenon
  <1>2. Ok(v).v = v
    BY DEF Ok
  <1>3. Decode(EncodeBody(v, fields), fields, required) = Ok(v)
    BY <1>1, MessageReadBack
  <1> QED
    BY <1>1, <1>2, <1>3, Zenon

-----------------------------------------------------------------------------
(* The bodies of the harness.                                              *)

LEMMA SubSeqText ==
  ASSUME NEW s, NEW m \in Int, NEW n \in Int
  PROVE  IsText(SubSeq(s, m, n))
  <1> DEFINE S == {s[i] : i \in m..n}
  <1>1. \A i \in m..n : s[i] \in S
    OBVIOUS
  <1> HIDE DEF S
  <1>2. SubSeq(s, m, n) \in Seq(S)
    BY <1>1, SubSeqProperties
  <1> QED
    BY <1>2 DEF IsText

LEMMA JoinedText ==
  ASSUME NEW s, NEW t, IsText(s), IsText(t)
  PROVE  IsText(s \o t)
  BY TextJoined DEF InTurn

\* A list of members, each of them a text.
MemberList(m) == \E M : m \in Seq(M) /\ \A x \in M : IsText(x)

LEMMA ListPieces ==
  ASSUME NEW m, MemberList(m)
  PROVE  TextList(m) /\ DOMAIN m = 1..Len(m)
  <1>1. PICK M : m \in Seq(M) /\ \A x \in M : IsText(x)
    BY DEF MemberList
  <1>2. Len(m) \in Nat /\ DOMAIN m = 1..Len(m) /\ \A i \in 1..Len(m) : m[i] \in M
    BY <1>1
  <1> QED
    BY <1>1, <1>2 DEF TextList

LEMMA ListMade ==
  ASSUME NEW n \in Nat, NEW m, m = [i \in 1..n |-> m[i]], \A i \in 1..n : IsText(m[i])
  PROVE  MemberList(m)
  <1> DEFINE M == {m[i] : i \in 1..n}
  <1>1. \A i \in 1..n : m[i] \in M
    OBVIOUS
  <1>2. \A x \in M : IsText(x)
    OBVIOUS
  <1> HIDE DEF M
  <1>3. m \in [1..n -> M]
    BY <1>1
  <1>4. m \in Seq(M)
    BY <1>3
  <1> QED
    BY <1>2, <1>4 DEF MemberList

LEMMA ListRemoved ==
  ASSUME NEW m, MemberList(m), NEW i \in DOMAIN m
  PROVE  MemberList(RemoveAt(m, i))
  <1>1. PICK M : m \in Seq(M) /\ \A x \in M : IsText(x)
    BY DEF MemberList
  <1> DEFINE a == SubSeq(m, 1, i - 1)
             b == SubSeq(m, i + 1, Len(m))
  <1>2. i \in 1..Len(m) /\ Len(m) \in Nat
    BY <1>1
  <1>3. a \in Seq(M) /\ b \in Seq(M)
    <2>1. \A j \in 1..(i - 1) : m[j] \in M
      BY <1>1, <1>2
    <2>2. \A j \in (i + 1)..Len(m) : m[j] \in M
      BY <1>1, <1>2
    <2>3. i - 1 \in Int /\ i + 1 \in Int /\ Len(m) \in Int
      BY <1>2
    <2> QED
      BY <2>1, <2>2, <2>3, SubSeqProperties
  <1> HIDE DEF a, b
  <1>4. a \o b \in Seq(M)
    BY <1>3
  <1>5. MemberList(a \o b)
    BY <1>1, <1>4 DEF MemberList
  <1> QED
    BY <1>5, Zenon DEF RemoveAt, a, b

LEMMA ListReplaced ==
  ASSUME NEW m, MemberList(m), NEW i, NEW x, IsText(x)
  PROVE  MemberList([m EXCEPT ![i] = x])
  <1>1. PICK M : m \in Seq(M) /\ \A y \in M : IsText(y)
    BY DEF MemberList
  <1> DEFINE N == M \cup {x}
             q == [m EXCEPT ![i] = x]
  <1>2. \A y \in N : IsText(y)
    BY <1>1
  <1>3. m \in Seq(N) /\ x \in N
    BY <1>1
  <1> HIDE DEF N
  <1> DEFINE n == Len(m)
  <1>4. q \in Seq(N)
    <2>1. n \in Nat /\ m \in [1..n -> N]
      BY <1>3
    <2> HIDE DEF n
    <2>2. q \in [1..n -> N]
      BY <1>3, <2>1
    <2> HIDE DEF q
    <2> QED
      BY <2>1, <2>2
  <1> HIDE DEF q
  <1>5. MemberList(q)
    BY <1>2, <1>4 DEF MemberList
  <1> QED
    BY <1>5 DEF q

LEMMA ListGrown ==
  ASSUME NEW m, MemberList(m), NEW x, IsText(x)
  PROVE  MemberList(Append(m, x))
  <1>1. PICK M : m \in Seq(M) /\ \A y \in M : IsText(y)
    BY DEF MemberList
  <1> DEFINE N == M \cup {x}
  <1>2. \A y \in N : IsText(y)
    BY <1>1
  <1>3. m \in Seq(N) /\ x \in N
    BY <1>1
  <1> HIDE DEF N
  <1>4. Append(m, x) \in Seq(N)
    BY <1>3
  <1> QED
    BY <1>2, <1>4 DEF MemberList

\* A body is its members, and no edit of a token or one.
Edited(at, removed, tokens) == [at |-> at, removed |-> removed, tokens |-> tokens]
Body(members, stray, edits) == [members |-> members, stray |-> stray, edits |-> edits]
IsStray(stray) ==
    \/ stray = << >>
    \/ \E e : stray = <<e>> /\ e.at \in Int /\ e.removed \in Int /\ IsText(e.tokens)
IsBody(b) ==
    b = Body(b.members, b.stray, b.edits) /\ MemberList(b.members) /\ IsStray(b.stray)

LEMMA BodyFields ==
  ASSUME NEW m, NEW s, NEW e
  PROVE  Body(m, s, e).members = m /\ Body(m, s, e).stray = s /\ Body(m, s, e).edits = e
  BY DEF Body

LEMMA BodyMade ==
  ASSUME NEW m, NEW s, NEW e, MemberList(m), IsStray(s)
  PROVE  IsBody(Body(m, s, e))
  <1> DEFINE b == Body(m, s, e)
  <1>1. b.members = m /\ b.stray = s /\ b.edits = e
    BY DEF Body
  <1>2. b = Body(b.members, b.stray, b.edits)
    BY <1>1, Zenon
  <1> HIDE DEF b
  <1>3. IsBody(b)
    BY <1>1, <1>2, Zenon DEF IsBody
  <1> QED
    BY <1>3, Zenon DEF b

LEMMA BodyIsText ==
  ASSUME NEW b, IsBody(b)
  PROVE  IsText(BodyText(b))
  <1> DEFINE text == Bracketed("begin_object", b.members, "end_object")
  <1>1. IsText(text) /\ Len(text) \in Nat
    <2>1. TextList(b.members)
      BY ListPieces DEF IsBody
    <2> QED
      BY <2>1, BracketedText, TextIs
  <1>2. CASE b.stray = << >>
    <2>1. BodyText(b) = text
      BY <1>2, Zenon DEF BodyText
    <2> QED
      BY <1>1, <2>1, Zenon
  <1>3. CASE b.stray # << >>
    <2> DEFINE e == b.stray[1]
               x == SubSeq(text, 1, e.at - 1)
               y == SubSeq(text, e.at + e.removed, Len(text))
    <2>1. BodyText(b) = x \o e.tokens \o y
      BY <1>3, Zenon DEF BodyText
    <2>2. PICK c : b.stray = <<c>> /\ c.at \in Int /\ c.removed \in Int /\ IsText(c.tokens)
      BY <1>3, Zenon DEF IsBody, IsStray
    <2>3. e = c
      BY <2>2
    <2> HIDE DEF e, text
    <2>4. IsText(x) /\ IsText(y)
      <3>1. e.at - 1 \in Int /\ e.at + e.removed \in Int /\ Len(text) \in Int
        BY <1>1, <2>2, <2>3
      <3> QED
        BY <3>1, SubSeqText
    <2> HIDE DEF x, y
    <2>5. IsText((x \o e.tokens) \o y)
      BY <2>2, <2>3, <2>4, JoinedText
    <2> QED
      BY <2>1, <2>5
  <1> QED
    BY <1>2, <1>3

\* A body that is nothing but tokens put in the place of its brackets, which is any text.
Free(text) == Body(<< >>, <<Edited(1, 2, text)>>, MaxEdits)

LEMMA FreeIsBody ==
  ASSUME NEW text, IsText(text)
  PROVE  IsBody(Free(text)) /\ BodyText(Free(text)) = text
  <1> DEFINE none == << >>
             stray == <<Edited(1, 2, text)>>
             pair == Bracketed("begin_object", none, "end_object")
             b == Free(text)
  <1>1. MemberList(none)
    <2>1. none \in Seq({})
      OBVIOUS
    <2> HIDE DEF none
    <2> QED
      BY <2>1 DEF MemberList
  <1>2. IsStray(stray)
    <2> DEFINE c == Edited(1, 2, text)
    <2>1. c.at \in Int /\ c.removed \in Int /\ IsText(c.tokens)
      BY DEF Edited
    <2> HIDE DEF c
    <2>2. IsStray(<<c>>)
      BY <2>1, Zenon DEF IsStray
    <2> QED
      BY <2>2 DEF c
  <1>3. b.members = none /\ b.stray = stray /\ IsBody(b)
    <2> HIDE DEF none, stray
    <2> QED
      BY <1>1, <1>2, BodyFields, BodyMade DEF Free, none, stray
  <1>4. stray # << >> /\ stray[1].at = 1 /\ stray[1].removed = 2 /\ stray[1].tokens = text
    BY DEF Edited
  <1>5. BodyText(b) = SubSeq(pair, 1, stray[1].at - 1) \o stray[1].tokens
                        \o SubSeq(pair, stray[1].at + stray[1].removed, Len(pair))
    <2> HIDE DEF stray, b, none
    <2> QED
      BY <1>3, <1>4, Zenon DEF BodyText
  <1>6. IsText(pair) /\ Len(pair) = 2
    <2> DEFINE x == <<Mark("begin_object")>>
               y == <<Mark("end_object")>>
    <2>1. Len(none) = 0
      OBVIOUS
    <2>2. TextList(none)
      BY <1>1, ListPieces
    <2>3. PICK J : Joins(J, none) /\ pair = (x \o J[Len(none)]) \o y
      <3> HIDE DEF none, pair
      <3> QED
        BY <2>2, BracketedIs, Zenon DEF pair
    <2>4. J[Len(none)] = none
      BY <2>1, <2>3, Zenon DEF Joins
    <2>5. IsText(x) /\ Len(x) = 1 /\ IsText(y) /\ Len(y) = 1
      BY OneToken DEF IsOne
    <2>6. IsText(none)
      BY NoTokens
    <2> HIDE DEF none, x, y, pair
    <2>7. InTurn(x, none, x \o none) /\ InTurn(x \o none, y, (x \o none) \o y)
      <3>1. InTurn(x, none, x \o none)
        BY <2>5, <2>6, TextJoined, Zenon
      <3>2. IsText(x \o none)
        BY <3>1, Zenon DEF InTurn
      <3> QED
        BY <2>5, <3>1, <3>2, TextJoined, Zenon
    <2>8. pair = (x \o none) \o y
      BY <2>3, <2>4, Zenon
    <2> QED
      BY <2>1, <2>5, <2>7, <2>8 DEF InTurn
  <1>7. BodyText(b) = SubSeq(pair, 1, 0) \o text \o SubSeq(pair, 3, 2)
    <2>1. 1 - 1 = 0 /\ 1 + 2 = 3
      OBVIOUS
    <2> HIDE DEF stray, b, pair
    <2> QED
      BY <1>4, <1>5, <1>6, <2>1, Zenon
  <1> HIDE DEF b, pair
  <1>8. SubSeq(pair, 1, 0) = << >> /\ SubSeq(pair, 3, 2) = << >>
    <2>1. 0 < 1 /\ 2 < 3
      OBVIOUS
    <2> QED
      BY <2>1, SubSeqEmpty
  <1>9. BodyText(b) = (<< >> \o text) \o << >>
    BY <1>7, <1>8, Zenon
  <1>10. PICK S : text \in Seq(S)
    BY DEF IsText
  <1>11. BodyText(b) = text
    BY <1>9, <1>10, ConcatEmptySeq
  <1> QED
    BY <1>3, <1>11, Zenon DEF b

LEMMA FewPieces ==
  /\ TextList(<< >>)
  /\ \A a : IsText(a) => TextList(<<a>>)
  /\ \A a, b : IsText(a) /\ IsText(b) => TextList(<<a, b>>)
  /\ \A a, b, c : IsText(a) /\ IsText(b) /\ IsText(c) => TextList(<<a, b, c>>)
  /\ \A a, b, c, d : IsText(a) /\ IsText(b) /\ IsText(c) /\ IsText(d) => TextList(<<a, b, c, d>>)
  BY DEF TextList

LEMMA ArrayText ==
  ASSUME NEW p, TextList(p)
  PROVE  IsText(Array(p))
  BY BracketedText, Zenon DEF Array

LEMMA ValuesAreTexts ==
  ASSUME NEW x, x \in Values
  PROVE  IsText(x)
  <1>1. \A a : IsText(<<a>>)
    BY OneToken, Zenon DEF IsOne
  <1>2. ASSUME NEW a, NEW b
        PROVE  IsText(Array(<< <<a>>, <<b>> >>))
    <2> DEFINE u == <<a>>
               v == <<b>>
    <2>1. IsText(u) /\ IsText(v)
      BY <1>1, Zenon
    <2> HIDE DEF u, v
    <2>2. TextList(<<u, v>>)
      BY <2>1, FewPieces, Zenon
    <2>3. IsText(Array(<<u, v>>))
      BY <2>2, ArrayText, Zenon
    <2> QED
      BY <2>3, Zenon DEF u, v
  <1>3. ASSUME NEW a, NEW b, NEW c
        PROVE  IsText(Array(<< <<a>>, <<b>>, <<c>> >>))
    <2> DEFINE u == <<a>>
               v == <<b>>
               w == <<c>>
    <2>1. IsText(u) /\ IsText(v) /\ IsText(w)
      BY <1>1, Zenon
    <2> HIDE DEF u, v, w
    <2>2. TextList(<<u, v, w>>)
      BY <2>1, FewPieces, Zenon
    <2>3. IsText(Array(<<u, v, w>>))
      BY <2>2, ArrayText, Zenon
    <2> QED
      BY <2>3, Zenon DEF u, v, w
  <1>4. ASSUME NEW a, NEW b, NEW c, NEW d
        PROVE  IsText(Array(<< <<a>>, <<b>>, <<c>>, <<d>> >>))
    <2> DEFINE u == <<a>>
               v == <<b>>
               w == <<c>>
               z == <<d>>
    <2>1. IsText(u) /\ IsText(v) /\ IsText(w) /\ IsText(z)
      BY <1>1, Zenon
    <2> HIDE DEF u, v, w, z
    <2>2. TextList(<<u, v, w, z>>)
      BY <2>1, FewPieces, Zenon
    <2>3. IsText(Array(<<u, v, w, z>>))
      BY <2>2, ArrayText, Zenon
    <2> QED
      BY <2>3, Zenon DEF u, v, w, z
  <1> DEFINE a1 == Array(<< >>)
             a2 == Array(<< <<Real(1)>> >>)
             g1 == Array(<< <<Real(0)>>, <<Real(50)>>, <<Real(2)>> >>)
             g2 == Array(<< <<Real(50)>>, <<Whole(1)>>, <<Real(5)>> >>)
             g3 == Array(<< <<Real(0)>>, <<Real(50)>> >>)
             g4 == Array(<< <<Real(0)>>, <<Real(50)>>, <<Real(2)>>, <<Real(3)>> >>)
             g5 == Array(<< <<Real(0)>>, <<Text("x")>> >>)
  <1>5. IsText(a1)
    BY FewPieces, ArrayText, Zenon
  <1>6. IsText(a2)
    <2> DEFINE u == <<Real(1)>>
    <2>1. IsText(u)
      BY <1>1, Zenon
    <2> HIDE DEF u
    <2>2. TextList(<<u>>)
      BY <2>1, FewPieces, Zenon
    <2>3. IsText(Array(<<u>>))
      BY <2>2, ArrayText, Zenon
    <2> QED
      BY <2>3, Zenon DEF u
  <1>7. IsText(g1) /\ IsText(g2)
    BY <1>3, Zenon
  <1>8. IsText(g3) /\ IsText(g5)
    BY <1>2, Zenon
  <1>9. IsText(g4)
    BY <1>4, Zenon
  <1> DEFINE v1 == <<Whole(1)>>
             v2 == <<[t |-> "bigint", n |-> 900]>>
             v3 == <<Real(50)>>
             v4 == <<Mark("hugereal")>>
             v5 == <<Text("no")>>
             v6 == <<Text("x")>>
             v7 == <<[t |-> "bool", b |-> TRUE]>>
             v8 == <<Mark("null")>>
  <1>10. /\ IsText(v1) /\ IsText(v2) /\ IsText(v3) /\ IsText(v4) /\ IsText(v5) /\ IsText(v6)
         /\ IsText(v7) /\ IsText(v8)
    BY <1>1, ZenonT(30)
  <1>13. x \in {v1, v2, v3, v4, v5, v6, v7, v8}
                \cup {a1, a2, Array(<<g1, g2>>), Array(<<g3>>), Array(<<g4>>), Array(<<g5>>)}
    BY DEF Values
  <1> HIDE DEF v1, v2, v3, v4, v5, v6, v7, v8
  <1>14. x \in {v1, v2, v3, v4, v5, v6, v7, v8} => IsText(x)
    BY <1>10, Zenon
  <1> HIDE DEF a1, a2, g1, g2, g3, g4, g5
  <1>11. IsText(Array(<<g1, g2>>))
    <2>1. TextList(<<g1, g2>>)
      BY <1>7, FewPieces, Zenon
    <2> QED
      BY <2>1, ArrayText, Zenon
  <1>12. IsText(Array(<<g3>>)) /\ IsText(Array(<<g4>>)) /\ IsText(Array(<<g5>>))
    <2>1. TextList(<<g3>>) /\ TextList(<<g4>>) /\ TextList(<<g5>>)
      BY <1>8, <1>9, FewPieces, Zenon
    <2> QED
      BY <2>1, ArrayText, Zenon
  <1> QED
    BY <1>5, <1>6, <1>11, <1>12, <1>13, <1>14, Zenon

\* The edits.
LEMMA EditKeepsBody ==
  ASSUME IsBody(input), Drop \/ Retype \/ Repeat \/ EditToken
  PROVE  IsBody(input')
  <1> DEFINE m == input.members
             s == input.stray
             e == input.edits
  <1>1. input = Body(m, s, e) /\ MemberList(m) /\ IsStray(s)
    BY Zenon DEF IsBody
  <1>2. ASSUME NEW u, NEW v
        PROVE  /\ [input EXCEPT !.members = u, !.edits = v] = Body(u, s, v)
               /\ [input EXCEPT !.edits = v, !.stray = u] = Body(m, u, v)
    <2>1. input = Body(m, s, e)
      BY <1>1, Zenon
    <2> HIDE DEF m, s, e
    <2>2. /\ [Body(m, s, e) EXCEPT !.members = u] = Body(u, s, e)
          /\ [Body(u, s, e) EXCEPT !.edits = v] = Body(u, s, v)
          /\ [Body(m, s, e) EXCEPT !.edits = v] = Body(m, s, v)
          /\ [Body(m, s, v) EXCEPT !.stray = u] = Body(m, u, v)
      BY DEF Body
    <2> QED
      BY <2>1, <2>2, Zenon
  <1>3. \A u, v : MemberList(u) => IsBody(Body(u, s, v))
    BY <1>1, BodyMade, Zenon
  <1>4. \A u, v : IsStray(u) => IsBody(Body(m, u, v))
    BY <1>1, BodyMade, Zenon
  <1>5. CASE Drop
    <2>1. PICK i \in DOMAIN m :
             input' = [input EXCEPT !.members = RemoveAt(@, i), !.edits = @ + 1]
      BY <1>5, Zenon DEF Drop
    <2>2. input' = Body(RemoveAt(m, i), s, e + 1)
      BY <1>2, <2>1, ZenonT(30)
    <2>3. MemberList(RemoveAt(m, i))
      BY <1>1, ListRemoved, Zenon
    <2> QED
      BY <1>3, <2>2, <2>3, Zenon
  <1>6. CASE Retype
    <2>1. PICK i \in DOMAIN m, x \in Values :
             input' = [input EXCEPT !.members[i] = SubSeq(@, 1, 2) \o x, !.edits = @ + 1]
      BY <1>6, Zenon DEF Retype
    <2> DEFINE w == SubSeq(m[i], 1, 2) \o x
    <2>2. input' = Body([m EXCEPT ![i] = w], s, e + 1)
      BY <1>2, <2>1, Zenon
    <2>3. IsText(w)
      <3>1. IsText(SubSeq(m[i], 1, 2))
        BY SubSeqText
      <3> QED
        BY <3>1, ValuesAreTexts, JoinedText, Zenon
    <2> HIDE DEF w
    <2>4. MemberList([m EXCEPT ![i] = w])
      BY <1>1, <2>3, ListReplaced, Zenon
    <2> QED
      BY <1>3, <2>2, <2>4, Zenon
  <1>7. CASE Repeat
    <2>1. PICK key \in EditedKeys, x \in Values :
             input' = [input EXCEPT !.members = Append(@, <<Text(key), Mark("colon")>> \o x),
                                    !.edits = @ + 1]
      BY <1>7, Zenon DEF Repeat
    <2> DEFINE w == <<Text(key), Mark("colon")>> \o x
    <2>2. input' = Body(Append(m, w), s, e + 1)
      BY <1>2, <2>1, Zenon
    <2>3. IsText(w)
      <3>1. IsText(<<Text(key), Mark("colon")>>)
        BY TwoTokens, Zenon DEF IsTwo
      <3> QED
        BY <3>1, ValuesAreTexts, JoinedText, Zenon
    <2> HIDE DEF w
    <2>4. MemberList(Append(m, w))
      BY <1>1, <2>3, ListGrown, Zenon
    <2> QED
      BY <1>3, <2>2, <2>4, Zenon
  <1>8. CASE EditToken
    <2> DEFINE n == Len(BodyText(input)) + 1
    <2>1. PICK at \in 1..n, removed \in {0, 1}, tokens \in {<< >>} \cup {<<x>> : x \in Strays} :
             input' = [input EXCEPT !.edits = MaxEdits,
                          !.stray = <<[at |-> at, removed |-> removed, tokens |-> tokens]>>]
      BY <1>8, Zenon DEF EditToken
    <2> DEFINE u == <<Edited(at, removed, tokens)>>
    <2>2. input' = Body(m, u, MaxEdits)
      BY <1>2, <2>1, Zenon DEF Edited
    <2>3. IsStray(u)
      <3>1. n \in Nat
        <4>1. IsText(BodyText(input))
          BY BodyIsText
        <4>2. Len(BodyText(input)) \in Nat
          BY <4>1, TextIs
        <4> QED
          BY <4>2
      <3> HIDE DEF n
      <3>2. at \in Int /\ removed \in Int
        BY <3>1
      <3>3. tokens = << >> \/ \E a : tokens = <<a>>
        BY Zenon
      <3>4. IsText(tokens)
        BY <3>3, NoTokens, OneToken, Zenon DEF IsOne
      <3> DEFINE c == Edited(at, removed, tokens)
      <3>5. c.at = at /\ c.removed = removed /\ c.tokens = tokens
        BY DEF Edited
      <3> HIDE DEF c
      <3>6. IsStray(<<c>>)
        BY <3>2, <3>4, <3>5, Zenon DEF IsStray
      <3> QED
        BY <3>6 DEF c
    <2> HIDE DEF u
    <2> QED
      BY <1>4, <2>2, <2>3, Zenon
  <1> QED
    BY <1>5, <1>6, <1>7, <1>8

\* The bodies that the harness starts from.
LEMMA MembersMade ==
  ASSUME NEW msg, NEW fields, GoodFields(fields), IsMessage(msg, fields),
         NEW n, n \in 1..Len(fields)
  PROVE  IsBody(Members(msg, SubSeq(fields, 1, n)))
  <1> DEFINE F == SubSeq(fields, 1, n)
             P == [i \in DOMAIN F |-> EncodeMember(msg, F[i])]
             none == << >>
  <1>1. n \in Nat /\ Len(fields) \in Nat /\ n <= Len(fields)
    <2>1. Len(fields) \in Nat
      BY TextIs DEF GoodFields
    <2> QED
      BY <2>1
  <1>2. IsText(F) /\ Len(F) = n /\ \A i \in 1..n : F[i] = fields[i]
    <2> DEFINE S == {fields[i] : i \in 1..n}
    <2>1. \A i \in 1..n : fields[i] \in S
      OBVIOUS
    <2> HIDE DEF S
    <2>2. /\ F \in Seq(S) /\ Len(F) = IF 1 <= n THEN n - 1 + 1 ELSE 0
          /\ \A i \in 1..(n - 1 + 1) : F[i] = fields[1 + i - 1]
      <3>1. 1 \in Int /\ n \in Int
        BY <1>1
      <3> QED
        BY <2>1, <3>1, SubSeqProperties
    <2> HIDE DEF F
    <2> QED
      BY <1>1, <2>2 DEF IsText
  <1> HIDE DEF F
  <1>3. DOMAIN F = 1..n
    BY <1>2, TextIs
  <1>4. ASSUME NEW i \in 1..n PROVE IsText(EncodeMember(msg, F[i]))
    <2>1. i \in 1..Len(fields) /\ F[i] = fields[i]
      BY <1>1, <1>2
    <2>2. TextList(MemberTexts(msg, fields)) /\ Len(MemberTexts(msg, fields)) = Len(fields)
      BY MemberTextsPieces
    <2>3. MemberTexts(msg, fields)[i] = EncodeMember(msg, fields[i])
      BY <2>1, MemberTextsPieces
    <2>4. IsText(MemberTexts(msg, fields)[i])
      BY <2>1, <2>2 DEF TextList
    <2> QED
      BY <2>1, <2>3, <2>4
  <1>5. P = [i \in 1..n |-> EncodeMember(msg, F[i])]
    BY <1>3, Zenon
  <1>6. /\ P = [i \in 1..n |-> P[i]]
        /\ \A i \in 1..n : P[i] = EncodeMember(msg, F[i])
    <2> HIDE DEF P
    <2> QED
      BY <1>5
  <1>7. Members(msg, F) = Body(P, none, 0)
    BY Zenon DEF Members, Body
  <1> HIDE DEF P, none
  <1>8. MemberList(P)
    BY <1>1, <1>4, <1>6, ListMade
  <1>9. IsStray(none)
    BY Zenon DEF IsStray, none
  <1>10. IsBody(Body(P, none, 0))
    BY <1>8, <1>9, BodyMade
  <1> QED
    BY <1>7, <1>10 DEF F

LEMMA PutAt ==
  ASSUME NEW fields, GoodFields(fields), NEW v, IsMessage(v, fields), NEW i, i \in 1..Len(fields),
         NEW w, IsValue(fields[i].reader, w)
  PROVE  IsMessage(Put(v, fields[i].key, w), fields)
  <1>1. fields[i].key \in Keys(fields) /\ Field(fields, fields[i].key) = fields[i]
    BY FieldIs
  <1> QED
    BY <1>1, PutIsMessage

LEMMA HarnessMessages ==
  IsMessage(Wake, WakeFields) /\ IsMessage(Ack, AckFields)
  <1>1. ASSUME NEW reader \in {"string", "double", "bool"}, NEW w PROVE IsValue(reader, w)
    BY <1>1 DEF IsValue
  <1>2. ASSUME NEW v, IsMessage(v, WakeFields), NEW i \in {2, 3, 6, 15, 16}, NEW w
        PROVE  IsMessage(Put(v, WakeFields[i].key, w), WakeFields)
    <2>1. WakeFields[i].reader \in {"string", "double", "bool"}
      BY WakeReaders
    <2>2. i \in 1..Len(WakeFields)
      BY WakeFieldsText
    <2>3. IsValue(WakeFields[i].reader, w)
      BY <1>1, <2>1
    <2> QED
      BY <1>2, <2>2, <2>3, PutAt, WakeFieldsGood
  <1>3. IsMessage(Wake, WakeFields)
    <2> DEFINE a == Put(Default(WakeFields), WakeFields[2].key, "c")
               b == Put(a, WakeFields[3].key, "m")
               c == Put(b, WakeFields[6].key, 40)
               d == Put(c, WakeFields[16].key, 41)
               e == Put(d, WakeFields[15].key, Yes)
    <2>1. IsMessage(Default(WakeFields), WakeFields)
      BY DefaultIsMessage, WakeFieldsGood
    <2>2. IsMessage(a, WakeFields)
      BY <1>2, <2>1
    <2> HIDE DEF a
    <2>3. IsMessage(b, WakeFields)
      BY <1>2, <2>2
    <2> HIDE DEF b
    <2>4. IsMessage(c, WakeFields)
      BY <1>2, <2>3
    <2> HIDE DEF c
    <2>5. IsMessage(d, WakeFields)
      BY <1>2, <2>4
    <2> HIDE DEF d
    <2>6. IsMessage(e, WakeFields)
      BY <1>2, <2>5
    <2>7. Wake = Put(Put(Put(Put(Put(Default(WakeFields), "correlation_id", "c"), "market_ticker", "m"),
                             "kalshi_price", 40), "wire_price_yes_dollars", 41), "dry_run", Yes)
      BY Zenon DEF Wake, Put, Yes
    <2>8. /\ WakeFields[2].key = "correlation_id" /\ WakeFields[3].key = "market_ticker"
          /\ WakeFields[6].key = "kalshi_price" /\ WakeFields[16].key = "wire_price_yes_dollars"
          /\ WakeFields[15].key = "dry_run"
      BY WakeKeys
    <2>9. Wake = e
      BY <2>7, <2>8, Zenon DEF a, b, c, d
    <2> QED
      BY <2>6, <2>9
  <1>4. IsMessage(Ack, AckFields)
    <2> DEFINE reason == <<"x">>
               a == Put(Default(AckFields), AckFields[2].key, "c")
               b == Put(a, AckFields[5].key, reason)
    <2>1. /\ AckFields[2].key = "correlation_id" /\ AckFields[5].key = "reason"
          /\ AckFields[2].reader = "string" /\ AckFields[5].reader = "reason"
      BY DEF AckFields
    <2>2. 2 \in 1..Len(AckFields) /\ 5 \in 1..Len(AckFields)
      <3>1. AckFields = [i \in 1..5 |-> AckFields[i]]
        BY DEF AckFields
      <3>2. Len(AckFields) = 5
        BY <3>1, TextMade
      <3> QED
        BY <3>2
    <2>3. IsValue("reason", reason)
      BY DEF IsValue
    <2> HIDE DEF reason
    <2>4. IsMessage(Default(AckFields), AckFields)
      BY DefaultIsMessage, AckFieldsGood
    <2>5. IsMessage(a, AckFields)
      <3>1. IsValue(AckFields[2].reader, "c")
        BY <1>1, <2>1
      <3> QED
        BY <2>2, <2>4, <3>1, PutAt, AckFieldsGood
    <2> HIDE DEF a
    <2>6. IsMessage(b, AckFields)
      BY <2>1, <2>2, <2>3, <2>5, PutAt, AckFieldsGood
    <2>7. Ack = Put(Put(Default(AckFields), "correlation_id", "c"), "reason", reason)
      BY Zenon DEF Ack, Put, reason
    <2>8. Ack = b
      BY <2>1, <2>7, Zenon DEF a
    <2> QED
      BY <2>6, <2>8
  <1> QED
    BY <1>3, <1>4

LEMMA LengthsFit ==
  ASSUME NEW n, n \in Lengths
  PROVE  n \in Nat /\ n < 4294967296
  <1>1. CASE n \in {k \in (MaxFrameBytes - 1)..(MaxFrameBytes + 1) : k >= 0}
    <2>1. MaxFrameBytes \in Nat /\ (MaxFrameBytes + 1) \div 256^3 < 256
      BY CodecAssumption
    <2>2. 256^3 = 16777216
      OBVIOUS
    <2>3. MaxFrameBytes + 1 < 4294967296
      BY <2>1, <2>2
    <2> QED
      BY <1>1, <2>1, <2>3
  <1>2. CASE n \in {256^3 * b[1] + 256^2 * b[2] + 256 * b[3] + b[4] :
                      b \in {p \in [1..4 -> {0, 1, 127, 255}] : p[1] < 128}}
    <2>1. PICK b \in {p \in [1..4 -> {0, 1, 127, 255}] : p[1] < 128} :
             n = 256^3 * b[1] + 256^2 * b[2] + 256 * b[3] + b[4]
      BY <1>2
    <2>2. /\ b[1] \in 0..127 /\ b[2] \in 0..255 /\ b[3] \in 0..255 /\ b[4] \in 0..255
      BY <2>1
    <2>3. n = 16777216 * b[1] + 65536 * b[2] + 256 * b[3] + b[4]
      BY <2>1
    <2> QED
      BY <2>2, <2>3
  <1> QED
    BY <1>1, <1>2 DEF Lengths

-----------------------------------------------------------------------------
(* The frames.                                                             *)

\* What four bytes hold.
FourBytes == {n \in Nat : n < 4294967296}

\* The calls of the harness, and every call there can be: a body of any tokens, and any
\* length that four bytes hold.
CodingInit ==
    \/ CodecInit
    \/ /\ subject \in {"wake", "ack"} /\ output = << >>
       /\ \E text : IsText(text) /\ input = Free(text)
    \/ Given("length", FourBytes)

CodingSpec == CodingInit /\ [][CodecNext]_callVars

\* The inductive invariant: the body is one of texts, whatever was edited, and what was
\* returned is the result of the call.
CodingInv ==
    /\ subject \in {"wake", "ack", "length"}
    /\ subject = "wake" =>
          IsBody(input) /\ output \in {<< >>, <<DecodeWakeMessage(BodyText(input))>>}
    /\ subject = "ack" =>
          IsBody(input) /\ output \in {<< >>, <<DecodeWakeAck(BodyText(input))>>}
    /\ subject = "length" =>
          /\ input \in FourBytes
          /\ output \in {<< >>, <<DecodeFrameLength(WriteLengthPrefix(input))>>}

LEMMA CodingInitially ==
  CodingInit => CodingInv
  <1> SUFFICES ASSUME CodingInit PROVE CodingInv
    OBVIOUS
  <1>1. CASE /\ subject \in {"wake", "ack"} /\ output = << >>
             /\ \E text : IsText(text) /\ input = Free(text)
    <2>1. IsBody(input)
      BY <1>1, FreeIsBody
    <2> QED
      BY <1>1, <2>1 DEF CodingInv
  <1>2. CASE Given("length", FourBytes)
    BY <1>2 DEF Given, CodingInv
  <1>3. CASE CodecInit
    <2>1. CASE Given("wake", {Members(Wake, SubSeq(WakeFields, 1, n)) : n \in {12, 20}})
      <3>1. subject = "wake" /\ output = << >>
        BY <2>1 DEF Given
      <3>2. PICK n \in {12, 20} : input = Members(Wake, SubSeq(WakeFields, 1, n))
        BY <2>1, Zenon DEF Given
      <3>3. n \in 1..Len(WakeFields)
        BY WakeFieldsText
      <3>4. IsBody(input)
        BY <3>2, <3>3, MembersMade, WakeFieldsGood, HarnessMessages
      <3> QED
        BY <3>1, <3>4 DEF CodingInv
    <2>2. CASE Given("ack", {Members(Ack, SubSeq(AckFields, 1, n)) : n \in {4, 5}})
      <3>1. subject = "ack" /\ output = << >>
        BY <2>2 DEF Given
      <3>2. PICK n \in {4, 5} : input = Members(Ack, SubSeq(AckFields, 1, n))
        BY <2>2, Zenon DEF Given
      <3>3. n \in 1..Len(AckFields)
        <4>1. AckFields = [i \in 1..5 |-> AckFields[i]]
          BY DEF AckFields
        <4>2. Len(AckFields) = 5
          BY <4>1, TextMade
        <4> QED
          BY <4>2
      <3>4. IsBody(input)
        BY <3>2, <3>3, MembersMade, AckFieldsGood, HarnessMessages
      <3> QED
        BY <3>1, <3>4 DEF CodingInv
    <2>3. CASE Given("length", Lengths)
      <3>1. subject = "length" /\ output = << >> /\ input \in Lengths
        BY <2>3, Zenon DEF Given
      <3>2. input \in FourBytes
        <4>1. input \in Nat /\ input < 4294967296
          BY <3>1, LengthsFit
        <4> QED
          BY <4>1, SMT DEF FourBytes
      <3> QED
        BY <3>1, <3>2 DEF CodingInv
    <2> QED
      BY <1>3, <2>1, <2>2, <2>3, Zenon DEF CodecInit
  <1> QED
    BY <1>1, <1>2, <1>3 DEF CodingInit

LEMMA CodingStep ==
  CodingInv /\ [CodecNext]_callVars => CodingInv'
  <1> SUFFICES ASSUME CodingInv, [CodecNext]_callVars PROVE CodingInv'
    OBVIOUS
  <1>1. CASE Edit
    <2>1. /\ subject \in {"wake", "ack"} /\ output = << >>
          /\ subject' = subject /\ output' = output
          /\ Drop \/ Retype \/ Repeat \/ EditToken
      BY <1>1, Zenon DEF Edit
    <2>2. IsBody(input)
      BY <2>1, Zenon DEF CodingInv
    <2>3. IsBody(input')
      BY <2>1, <2>2, EditKeepsBody
    <2>4. IsBody(input)'
      BY <2>3, Zenon DEF IsBody
    <2>5. output' = << >> /\ subject' \in {"wake", "ack"}
      BY <2>1
    <2> QED
      BY <2>4, <2>5, SMT DEF CodingInv
  <1>2. CASE Call("wake", LAMBDA x : DecodeWakeMessage(BodyText(x)))
    BY <1>2 DEF CodingInv, Call
  <1>3. CASE Call("ack", LAMBDA x : DecodeWakeAck(BodyText(x)))
    BY <1>3 DEF CodingInv, Call
  <1>4. CASE Call("length", LAMBDA n : DecodeFrameLength(WriteLengthPrefix(n)))
    BY <1>4 DEF CodingInv, Call
  <1>5. CASE UNCHANGED callVars
    BY <1>5 DEF CodingInv, callVars
  <1> QED
    BY <1>1, <1>2, <1>3, <1>4, <1>5 DEF CodecNext

LEMMA CodingGood ==
  CodingInv => FramesRoundTrip
  <1> SUFFICES ASSUME CodingInv PROVE FramesRoundTrip
    OBVIOUS
  <1>1. ASSUME NEW decoded \in Returned("wake") \cup Returned("ack"), decoded.err = "none"
        PROVE  Decode(EncodeBody(decoded.v, Fields), Fields, Required) = decoded
    <2>1. CASE subject = "wake"
      <3>1. IsText(BodyText(input))
        BY <2>1, BodyIsText, Zenon DEF CodingInv
      <3>2. decoded = Decode(BodyText(input), WakeFields, WakeRequired)
        BY <2>1 DEF CodingInv, Returned, DecodeWakeMessage
      <3>3. Fields = WakeFields /\ Required = WakeRequired
        BY <2>1, Zenon DEF Fields, Required
      <3>4. WakeRequired \subseteq Keys(WakeFields) /\ GoodFields(WakeFields)
        BY RequiredAreKeys, WakeFieldsGood
      <3>5. Decode(EncodeBody(decoded.v, WakeFields), WakeFields, WakeRequired) = decoded
        BY <1>1, <3>1, <3>2, <3>4, DecodedReadBack, Zenon
      <3> QED
        BY <3>3, <3>5, Zenon
    <2>2. CASE subject = "ack"
      <3>1. IsText(BodyText(input))
        BY <2>2, BodyIsText, Zenon DEF CodingInv
      <3>2. decoded = Decode(BodyText(input), AckFields, AckRequired)
        BY <2>2 DEF CodingInv, Returned, DecodeWakeAck
      <3>3. Fields = AckFields /\ Required = AckRequired
        <4>1. subject # "wake"
          BY <2>2
        <4> QED
          BY <4>1, Zenon DEF Fields, Required
      <3>4. AckRequired \subseteq Keys(AckFields) /\ GoodFields(AckFields)
        BY RequiredAreKeys, AckFieldsGood
      <3>5. Decode(EncodeBody(decoded.v, AckFields), AckFields, AckRequired) = decoded
        BY <1>1, <3>1, <3>2, <3>4, DecodedReadBack, Zenon
      <3> QED
        BY <3>3, <3>5, Zenon
    <2> QED
      BY <2>1, <2>2 DEF Returned
  <1>2. ASSUME NEW read \in Returned("length")
        PROVE  /\ read.err = "none" <=> input <= MaxFrameBytes
               /\ read.err = "none" => read.v = input
    <2>1. input \in FourBytes /\ read = DecodeFrameLength(WriteLengthPrefix(input))
      BY DEF CodingInv, Returned
    <2>2. input \in Nat /\ input < 4294967296
      BY <2>1, SMT DEF FourBytes
    <2>3. read = IF input > MaxFrameBytes THEN Failure("FrameTooLarge") ELSE Ok(input)
      BY <2>1, <2>2, LengthIsReadBack
    <2> QED
      BY <2>2, <2>3, CodecAssumption DEF Failure, Ok
  <1> QED
    BY <1>1, <1>2, Zenon DEF FramesRoundTrip

\* For every text of tokens, the bodies that any number of edits make of a frame among
\* them: what decode_wake_message and decode_wake_ack accept is, encoded again, decoded to
\* the same message; and every length of four bytes is read back off its prefix, and
\* refused exactly above kMaxFrameBytes.
THEOREM FramesAreReadBack == CodingSpec => []FramesRoundTrip
  BY CodingInitially, CodingStep, CodingGood, PTL DEF CodingSpec

=============================================================================
