-------------------------- MODULE Argon2FillProofs --------------------------
(***************************************************************************)
(* The properties of Argon2Fill for every number of passes, lanes and      *)
(* blocks, and every value a block may begin with.                         *)
(***************************************************************************)
EXTENDS Argon2d, NumberProofs

(* Why the cache is complete: each block holds as many passes as the loops *)
(* have come past it, the first two of a lane one from the beginning.      *)
Lanes == 0 .. lanes - 1
Offsets == 0 .. laneLength - 1
Block(l, o) == l * laneLength + o

Passed(l, o) ==
    \/ o < slice * segmentLength
    \/ /\ o < slice * segmentLength + segmentLength
       /\ \/ l < lane
          \/ l = lane /\ o < slice * segmentLength + index

Expected(l, o) ==
    IF Passed(l, o) \/ (pass = 0 /\ o < 2) THEN pass + 1 ELSE pass

Counts ==
    /\ pc = "init" => /\ pass = 0 /\ slice = 0 /\ lane = 0 /\ index = 0
                      /\ \A b \in Blocks : memory[b] = 0
    /\ pc = "fill" => \A l \in Lanes, o \in Offsets : memory[Block(l, o)] = Expected(l, o)
    /\ pc = "done" => \A b \in Blocks : memory[b] = passes

IInv == TypeOK /\ Counts

-----------------------------------------------------------------------------
(* Arithmetic. *)

LEMMA Times ==
    ASSUME NEW i \in Nat, NEW j \in Nat, i <= j, NEW q \in Nat
    PROVE  /\ i * q \in Nat /\ j * q \in Nat /\ i * q <= j * q
           /\ (i + 1) * q = i * q + q
<1>1. PICK k \in Nat : j = i + k
  <2>. WITNESS j - i \in Nat
  <2>. QED  OBVIOUS
<1>2. j * q = i * q + k * q
  BY <1>1
<1>. QED  BY <1>2

(* A scaled product s * x / W with x < W stays below s. *)
LEMMA Scaled ==
    ASSUME NEW s \in Nat, NEW x \in 0 .. W - 1, s > 0
    PROVE  (s * x) \div W \in 0 .. s - 1
<1>0. W \in Nat /\ W > 0 /\ x \in Nat /\ x + 1 <= W
  BY SizesAssumption
<1>. DEFINE q == (s * x) \div W
<1>1. s * x \in Nat /\ s * x < s * W
  <2>1. x * s \in Nat /\ (x + 1) * s <= W * s /\ (x + 1) * s = x * s + s
    BY <1>0, Times
  <2>2. x * s = s * x /\ W * s = s * W
    BY <1>0
  <2>3. W * s \in Nat
    BY <1>0
  <2>. QED  BY <2>1, <2>2, <2>3
<1>2. q \in Nat /\ W * q <= s * x
  <2>1. (s * x) % W \in Nat /\ s * x = W * q + ((s * x) % W) /\ q \in Nat
    BY <1>0, <1>1, Quotients
  <2>2. W * q \in Nat
    BY <1>0, <2>1
  <2>. QED  BY <1>1, <2>1, <2>2
<1>3. q < s
  <2>1. SUFFICES ASSUME s <= q PROVE FALSE
    BY <1>2
  <2>2. s * W <= q * W /\ q * W = W * q /\ s * W \in Nat /\ q * W \in Nat
    BY <2>1, <1>0, <1>2, Times
  <2>. QED  BY <2>2, <1>1, <1>2
<1>. QED  BY <1>2, <1>3

LEMMA Square ==
    ASSUME NEW x \in 0 .. W - 1
    PROVE  (x * x) \div W \in 0 .. W - 1
<1>0. W \in Nat /\ W > 0 /\ x \in Nat
  BY SizesAssumption
<1>1. CASE x = 0
  BY <1>0, <1>1
<1>2. CASE x > 0
  BY <1>0, <1>2, Scaled
<1>. QED  BY <1>0, <1>1, <1>2

LEMMA ModOnce ==
    ASSUME NEW n \in Nat, NEW d \in Nat, d > 0, n < 2 * d
    PROVE  n % d = IF n < d THEN n ELSE n - d
<1>1. CASE n < d
  BY <1>1
<1>2. CASE n >= d
  <2>1. n % d = (n - d) % d
    <3>. DEFINE q == n \div d
                r == n % d
    <3>1. q \in Nat /\ r \in 0 .. d - 1 /\ n = d * q + r
      BY <1>2, Quotients
    <3>2. q = 1
      <4>1. q # 0
        BY <3>1, <1>2
      <4>2. q < 2
        <5>1. SUFFICES ASSUME 2 <= q PROVE FALSE
          BY <3>1
        <5>2. 2 * d <= q * d /\ q * d = d * q /\ q * d \in Nat
          BY <3>1, <5>1, Times
        <5>. QED  BY <5>2, <3>1
      <4>. QED  BY <4>1, <4>2, <3>1
    <3>3. r = n - d
      BY <3>1, <3>2
    <3>. QED  BY <3>1, <3>3
  <2>. QED  BY <2>1, <1>2
<1>. QED  BY <1>1, <1>2

(* The segments of a lane, and its length. *)
LEMMA Lane ==
    /\ laneLength = 4 * segmentLength /\ laneLength \in Nat /\ laneLength >= 8
    /\ laneLength < W /\ W \in Nat /\ lanes \in Nat /\ lanes > 0
    /\ segmentLength \in Nat /\ segmentLength >= 2
<1>1. laneLength = 4 * segmentLength /\ laneLength \in Nat /\ laneLength >= 8
  BY SizesAssumption DEF laneLength, SyncPoints
<1>2. 1 * laneLength <= lanes * laneLength /\ lanes * laneLength \in Nat
  BY <1>1, SizesAssumption, Times
<1>. QED  BY <1>1, <1>2, SizesAssumption

LEMMA Segment ==
    ASSUME TypeOK
    PROVE  /\ slice * segmentLength \in Nat
           /\ slice * segmentLength + segmentLength <= laneLength
           /\ (slice + 1) * segmentLength = slice * segmentLength + segmentLength
           /\ slice = 0 <=> slice * segmentLength = 0
           /\ slice = 3 <=> slice * segmentLength + segmentLength = laneLength
           /\ slice < 3 => slice * segmentLength + 2 * segmentLength <= laneLength
<1>1. slice = 0 \/ slice = 1 \/ slice = 2 \/ slice = 3
  BY DEF TypeOK, SyncPoints
<1>2. CASE slice = 0
  BY <1>2, Lane
<1>3. CASE slice = 1
  BY <1>3, Lane
<1>4. CASE slice = 2
  BY <1>4, Lane
<1>5. CASE slice = 3
  BY <1>5, Lane
<1>. QED  BY <1>1, <1>2, <1>3, <1>4, <1>5

-----------------------------------------------------------------------------
(* The reference. *)

LEMMA Area ==
    ASSUME TypeOK, AboutToFill
    PROVE  /\ currentIndex \in Nat /\ currentIndex < laneLength
           /\ currentIndex = slice * segmentLength + index
           /\ pass = 0 => currentIndex >= 2 /\ referenceAreaSize = currentIndex - 1
           /\ pass # 0 => referenceAreaSize = laneLength - segmentLength + index - 1
           /\ referenceAreaSize \in Nat /\ referenceAreaSize >= 1
           /\ referenceAreaSize < laneLength
<1>. DEFINE s == slice * segmentLength
<1>1. index \in Nat /\ index < segmentLength /\ pass \in Nat
  BY DEF TypeOK, AboutToFill
<1>2. s \in Nat /\ s + segmentLength <= laneLength /\ (slice # 0 => s >= segmentLength)
  <2>1. slice = 0 \/ slice = 1 \/ slice = 2 \/ slice = 3
    BY DEF TypeOK, SyncPoints
  <2>. QED  BY <2>1, Lane
<1>3. currentIndex = s + index /\ currentIndex \in Nat /\ currentIndex < laneLength
  BY <1>1, <1>2, Lane DEF currentIndex
<1>4. \A n \in Nat : n < laneLength => U32(n) = n
  BY Lane DEF U32
<1>. HIDE DEF s
<1>5. CASE pass = 0
  <2>1. currentIndex >= 2
    BY <1>1, <1>2, <1>3, <1>5, Lane DEF AboutToFill, Initialized
  <2>2. referenceArea = s + index - 1 /\ referenceArea >= 1
    <3>1. s + index - 1 \in Nat /\ s + index - 1 < laneLength /\ s + index - 1 >= 1
      BY <2>1, <1>1, <1>2, <1>3, Lane
    <3>2. referenceArea = U32(s + index - 1)
      BY <1>5 DEF referenceArea, s
    <3>. QED  BY <3>1, <3>2, <1>4
  <2>. QED  BY <2>1, <2>2, <1>1, <1>2, <1>3, <1>5, Lane DEF referenceAreaSize, s
<1>6. CASE pass # 0
  <2>1. referenceArea = laneLength - segmentLength + index - 1 /\ referenceArea >= 1
    BY <1>1, <1>4, <1>6, Lane DEF referenceArea
  <2>. QED  BY <2>1, <1>1, <1>3, <1>6, Lane DEF referenceAreaSize, s
<1>. QED  BY <1>5, <1>6

LEMMA RelativePosition ==
    ASSUME TypeOK, AboutToFill, NEW J1 \in 0 .. W - 1
    PROVE  relativePosition(J1) \in 0 .. referenceAreaSize - 1
<1>1. (J1 * J1) \div W \in 0 .. W - 1
  BY Square
<1>2. (referenceAreaSize * ((J1 * J1) \div W)) \div W \in 0 .. referenceAreaSize - 1
  BY <1>1, Scaled, Area
<1>. QED  BY <1>2, Area DEF relativePosition

(* What indexAlpha may answer. *)
Allowed(r) ==
    /\ r \in Nat /\ r < laneLength /\ r # currentIndex
    /\ currentIndex = 0 => r # laneLength - 1
    /\ currentIndex # 0 => r # currentIndex - 1
    /\ pass = 0 => r < currentIndex
    /\ pass # 0 => r < currentIndex \/ r >= slice * segmentLength + segmentLength

LEMMA Reference ==
    ASSUME TypeOK, AboutToFill, NEW J1 \in 0 .. W - 1
    PROVE  Allowed(indexAlpha(J1))
<1>. DEFINE r == indexAlpha(J1)
            rel == relativePosition(J1)
            s == slice * segmentLength
<1>1. rel \in Nat /\ rel <= referenceAreaSize - 1
  BY RelativePosition, Area
<1>2. index \in Nat /\ index < segmentLength /\ pass \in Nat
  BY DEF TypeOK, AboutToFill
<1>3. s \in Nat /\ s + segmentLength <= laneLength
      /\ (slice + 1) * segmentLength = s + segmentLength
  BY Segment
<1>0. r = (startPosition + rel) % laneLength
  BY DEF indexAlpha
<1>. HIDE DEF r, rel, s
<1>4. CASE startPosition = 0
  <2>1. r = rel
    <3>1. rel < laneLength /\ startPosition + rel = rel
      BY <1>1, <1>4, Area, Lane
    <3>2. rel % laneLength = rel
      BY <3>1, <1>1, Lane
    <3>. QED  BY <1>0, <3>1, <3>2
  <2>2. pass = 0 \/ slice = 3
    BY <1>3, <1>4, Segment, Lane DEF startPosition, U32, SyncPoints, TypeOK, s
  <2>3. rel <= currentIndex - 2
    <3>1. CASE pass = 0
      BY <3>1, <1>1, Area
    <3>2. CASE pass # 0 /\ slice = 3
      <4>1. s + segmentLength = laneLength
        BY <3>2, Segment DEF s
      <4>. QED  BY <3>2, <4>1, <1>1, <1>2, <1>3, Area, Lane DEF s
    <3>. QED  BY <2>2, <3>1, <3>2
  <2>4. rel < currentIndex - 1 /\ currentIndex \in Nat /\ currentIndex < laneLength
    BY <2>3, <1>1, Area
  <2>. QED  BY <2>1, <2>4, <1>1, Lane DEF Allowed, r
<1>5. CASE startPosition # 0
  <2>1. pass # 0 /\ slice < 3
    BY <1>5 DEF startPosition, SyncPoints, TypeOK
  <2>2. startPosition = s + segmentLength
    BY <2>1, <1>3, Lane DEF startPosition, U32, SyncPoints, s
  <2>3. s + 2 * segmentLength <= laneLength
    BY <2>1, Segment DEF s
  <2>4. referenceAreaSize = laneLength - segmentLength + index - 1
        /\ currentIndex = s + index
    BY <2>1, Area DEF s
  <2>. DEFINE n == s + segmentLength + rel
  <2>5. n \in Nat /\ n <= laneLength + currentIndex - 2 /\ n < 2 * laneLength
    BY <2>3, <2>4, <1>1, <1>2, <1>3, Lane, Area
  <2>6. r = IF n < laneLength THEN n ELSE n - laneLength
    <3>1. r = n % laneLength
      BY <2>2, <1>0
    <3>2. laneLength > 0 /\ laneLength \in Nat
      BY Lane
    <3>. HIDE DEF n
    <3>. QED  BY <3>1, <3>2, <2>5, ModOnce
  <2>7. r \in Nat /\ r < laneLength /\ (r < currentIndex - 1 \/ r >= s + segmentLength)
    BY <2>5, <2>6, <1>1, <1>3, Lane, Area
  <2>8. currentIndex = 0 => r # laneLength - 1
    BY <2>5, <2>6, <1>1, <1>3, Lane, Area
  <2>9. currentIndex < s + segmentLength /\ currentIndex \in Nat
    BY <2>4, <1>2, <1>3, Lane
  <2>. QED  BY <2>1, <2>7, <2>8, <2>9, <1>3, Lane DEF Allowed, r, s
<1>. QED  BY <1>4, <1>5

LEMMA TypeReferenceAllowed == TypeOK => ReferenceAllowed
<1>. SUFFICES ASSUME TypeOK, AboutToFill, NEW J1 \in 0 .. W - 1
              PROVE  LET r == indexAlpha(J1) IN
                     /\ r < laneLength /\ lane * laneLength + r # prevOffset
                     /\ pass = 0 => r < currentIndex
                     /\ pass # 0 => r < currentIndex \/ r >= (slice + 1) * segmentLength
  BY DEF ReferenceAllowed
<1>1. lane \in Nat /\ lane * laneLength \in Nat
  BY Lane DEF TypeOK
<1>. QED  BY <1>1, Reference, Area, Segment, Lane DEF prevOffset, currOffset, Allowed

(* The two ends of the window: what the largest value and zero are mapped to. *)

LEMMA QuotientUnique ==
    ASSUME NEW d \in Nat, NEW q \in Nat, NEW r \in Nat, r < d
    PROVE  (q * d + r) \div d = q
<1>. DEFINE n == q * d + r
            p == n \div d
<1>1. q * d \in Nat /\ n \in Nat /\ d > 0
  OBVIOUS
<1>2. p \in Nat /\ n % d \in 0 .. d - 1 /\ n = d * p + (n % d)
  <2>. HIDE DEF n
  <2>. QED  BY <1>1, Quotients
<1>3. d * p = p * d /\ p * d \in Nat
  BY <1>2
<1>4. n < p * d + d /\ p * d <= n
  BY <1>1, <1>2, <1>3
<1>. HIDE DEF p
<1>5. ~(p < q)
  <2>1. SUFFICES ASSUME p + 1 <= q PROVE FALSE
    BY <1>2
  <2>2. (p + 1) * d <= q * d /\ (p + 1) * d = p * d + d
    BY <2>1, <1>2, Times
  <2>. QED  BY <2>2, <1>1, <1>3, <1>4
<1>6. ~(q < p)
  <2>1. SUFFICES ASSUME q + 1 <= p PROVE FALSE
    BY <1>2
  <2>2. (q + 1) * d <= p * d /\ (q + 1) * d = q * d + d
    BY <2>1, <1>2, Times
  <2>. QED  BY <2>2, <1>1, <1>3, <1>4
<1>7. p = q
  BY <1>2, <1>5, <1>6
<1>. QED  BY <1>7 DEF p

LEMMA LargestValue ==
    ASSUME NEW s \in Nat, s > 0, 2 * s <= W
    PROVE  (s * (((W - 1) * (W - 1)) \div W)) \div W = s - 1
<1>0. W \in Nat /\ W >= 2
  BY SizesAssumption
<1>1. ((W - 1) * (W - 1)) \div W = W - 2
  <2>1. (W - 1) * (W - 1) = (W - 2) * W + 1
    BY <1>0
  <2>2. W - 2 \in Nat /\ 1 < W
    <3>1. W # 2
      BY SizesAssumption, Lane
    <3>. QED  BY <1>0, <3>1
  <2>. QED  BY <1>0, <2>1, <2>2, QuotientUnique
<1>2. s * (W - 2) = (s - 1) * W + (W - 2 * s)
  BY <1>0
<1>3. W - 2 * s \in Nat /\ W - 2 * s < W /\ s - 1 \in Nat
  BY <1>0
<1>4. ((s - 1) * W + (W - 2 * s)) \div W = s - 1
  BY <1>0, <1>3, QuotientUnique
<1>. QED  BY <1>1, <1>2, <1>4

LEMMA TypeWindowReached == TypeOK => WindowReached
<1>. SUFFICES ASSUME TypeOK, AboutToFill, 2 * laneLength < W
              PROVE  indexAlpha(0) = newest /\ indexAlpha(W - 1) = oldest
  BY DEF WindowReached
<1>. DEFINE size == referenceAreaSize
            s == slice * segmentLength
<1>1. size \in Nat /\ size >= 1 /\ 2 * size <= W
  BY Area, Lane
<1>2. relativePosition(W - 1) = 0
  BY <1>1, LargestValue DEF relativePosition
<1>3. relativePosition(0) = size - 1
  <2>1. (0 * 0) \div W = 0
    BY Lane
  <2>2. size * 0 = 0
    BY <1>1
  <2>. QED  BY <1>1, <2>1, <2>2, Lane DEF relativePosition
<1>4. /\ index \in Nat /\ index < segmentLength /\ pass \in Nat
      /\ s \in Nat /\ s + segmentLength <= laneLength
      /\ (slice + 1) * segmentLength = s + segmentLength
      /\ slice < 3 => s + 2 * segmentLength <= laneLength
      /\ slice = 3 => s + segmentLength = laneLength
      /\ slice \in 0 .. 3
  BY Segment DEF TypeOK, AboutToFill, SyncPoints
<1>5. /\ currentIndex = s + index
      /\ pass = 0 => currentIndex >= 2 /\ size = currentIndex - 1
      /\ pass # 0 => size = laneLength - segmentLength + index - 1
      /\ currentIndex < laneLength
  BY Area
<1>6. startPosition = oldest
  BY <1>4, Lane DEF startPosition, oldest, U32, SyncPoints
<1>7. oldest \in Nat /\ oldest < laneLength
  BY <1>4, Lane DEF oldest, SyncPoints
<1>8. indexAlpha(W - 1) = oldest
  BY <1>2, <1>6, <1>7, Lane DEF indexAlpha
<1>9. indexAlpha(0) = newest
  <2>. DEFINE n == oldest + (size - 1)
  <2>1. n = IF pass = 0 \/ slice = 3 THEN currentIndex - 2 ELSE laneLength + currentIndex - 2
    BY <1>1, <1>4, <1>5, Lane DEF oldest, SyncPoints
  <2>2. n \in Nat /\ n < 2 * laneLength
    BY <2>1, <1>1, <1>4, <1>5, <1>7, Lane
  <2>3. slice = 3 => currentIndex >= 2
    BY <1>4, <1>5, Lane
  <2>4. indexAlpha(0) = n % laneLength
    BY <1>3, <1>6 DEF indexAlpha
  <2>. HIDE DEF n
  <2>5. n % laneLength = IF n < laneLength THEN n ELSE n - laneLength
    BY <2>2, Lane, ModOnce
  <2>. QED  BY <2>1, <2>2, <2>3, <2>4, <2>5, <1>4, <1>5, Lane DEF newest
<1>. QED  BY <1>8, <1>9

-----------------------------------------------------------------------------
(* Blocks are the offsets of the lanes, each once. *)

LEMMA BlockInRange ==
    ASSUME NEW l \in Lanes, NEW o \in Offsets
    PROVE  Block(l, o) \in Blocks
<1>1. l \in Nat /\ l + 1 <= lanes /\ o \in Nat /\ o < laneLength /\ lanes \in Nat
  BY Lane DEF Lanes, Offsets
<1>2. l * laneLength \in Nat /\ (l + 1) * laneLength = l * laneLength + laneLength
      /\ (l + 1) * laneLength <= lanes * laneLength /\ lanes * laneLength \in Nat
  BY <1>1, Lane, Times
<1>. QED  BY <1>1, <1>2, Lane DEF Block, Blocks

LEMMA BlockUnique ==
    ASSUME NEW l \in Lanes, NEW o \in Offsets, NEW k \in Lanes, NEW n \in Offsets,
           Block(l, o) = Block(k, n)
    PROVE  l = k /\ o = n
<1>1. /\ l \in Nat /\ o \in Nat /\ o < laneLength
      /\ k \in Nat /\ n \in Nat /\ n < laneLength
      /\ l * laneLength \in Nat /\ k * laneLength \in Nat
  BY Lane, Times DEF Lanes, Offsets
<1>2. ASSUME NEW a \in Nat, NEW b \in Nat, a < b
      PROVE  a * laneLength + laneLength <= b * laneLength
  <2>1. a + 1 \in Nat /\ a + 1 <= b
    BY <1>2
  <2>. QED  BY <2>1, Lane, Times
<1>3. ~(l < k)
  BY <1>1, <1>2, Lane DEF Block
<1>4. ~(k < l)
  BY <1>1, <1>2, Lane DEF Block
<1>. QED  BY <1>1, <1>3, <1>4 DEF Block

LEMMA EveryBlock ==
    ASSUME NEW b \in Blocks
    PROVE  \E l \in Lanes, o \in Offsets : b = Block(l, o)
<1>1. b \in Nat /\ b < lanes * laneLength /\ lanes * laneLength \in Nat
  BY Lane DEF Blocks
<1>. DEFINE l == b \div laneLength
            o == b % laneLength
<1>2. l \in Nat /\ o \in Offsets /\ b = laneLength * l + o
  BY <1>1, Lane, Quotients DEF Offsets
<1>3. laneLength * l = l * laneLength /\ l * laneLength \in Nat /\ o \in Nat
  BY <1>2, Lane DEF Offsets
<1>4. l < lanes
  <2>1. SUFFICES ASSUME lanes <= l PROVE FALSE
    BY <1>2, Lane
  <2>2. lanes * laneLength <= l * laneLength
    BY <2>1, <1>2, Lane, Times
  <2>. QED  BY <2>2, <1>1, <1>2, <1>3
<1>5. l \in Lanes /\ b = Block(l, o)
  BY <1>2, <1>3, <1>4, Lane DEF Lanes, Block
<1>. QED  BY <1>2, <1>5

-----------------------------------------------------------------------------
LEMMA InitInvariant == Init => IInv
<1>. SUFFICES ASSUME Init PROVE IInv
  OBVIOUS
<1>1. passes - 1 \in Nat /\ lanes - 1 \in Nat /\ passes \in Nat /\ segmentLength \in Nat
  BY SizesAssumption
<1>2. TypeOK
  BY <1>1 DEF Init, TypeOK, SyncPoints
<1>. QED  BY <1>2 DEF Init, IInv, Counts

LEMMA InitializeInvariant == IInv /\ InitializeMemory => IInv'
<1>. SUFFICES ASSUME IInv, InitializeMemory PROVE IInv'
  OBVIOUS
<1>. DEFINE First(b) == \E l \in 0 .. lanes - 1 : b \in {l * laneLength, l * laneLength + 1}
<1>1. /\ pass = 0 /\ slice = 0 /\ lane = 0 /\ index = 0
      /\ memory' = [b \in Blocks |-> IF First(b) THEN 1 ELSE memory[b]]
      /\ \A b \in Blocks : memory[b] = 0
      /\ pc' = "fill" /\ UNCHANGED <<pass, slice, lane, index>>
  BY DEF InitializeMemory, IInv, Counts
<1>2. TypeOK'
  <2>1. 1 \in 0 .. passes /\ 0 \in 0 .. passes
    BY SizesAssumption
  <2>2. memory' \in [Blocks -> 0 .. passes]
    BY <1>1, <2>1
  <2>. QED  BY <1>1, <2>2 DEF IInv, TypeOK
<1>3. ASSUME NEW l \in Lanes, NEW o \in Offsets
      PROVE  memory'[Block(l, o)] = Expected(l, o)'
  <2>1. Block(l, o) \in Blocks
    BY BlockInRange
  <2>2. First(Block(l, o)) <=> o < 2
    <3>1. 0 \in Offsets /\ 1 \in Offsets /\ o \in Nat
      BY Lane DEF Offsets
    <3>2. \A k \in Lanes : Block(k, 0) = k * laneLength /\ Block(k, 1) = k * laneLength + 1
      BY Lane DEF Block, Lanes
    <3>3. First(Block(l, o)) <=> \E k \in Lanes : Block(l, o) = Block(k, 0) \/ Block(l, o) = Block(k, 1)
      BY <3>2 DEF Lanes
    <3>4. \A k \in Lanes : (Block(l, o) = Block(k, 0) => o = 0) /\ (Block(l, o) = Block(k, 1) => o = 1)
      BY <3>1, BlockUnique
    <3>5. First(Block(l, o)) => o = 0 \/ o = 1
      BY <3>3, <3>4
    <3>6. o = 0 \/ o = 1 => First(Block(l, o))
      BY <3>3
    <3>. QED  BY <3>1, <3>5, <3>6
  <2>3. memory'[Block(l, o)] = IF o < 2 THEN 1 ELSE 0
    BY <1>1, <2>1, <2>2
  <2>4. ~Passed(l, o)'
    BY <1>1, Lane DEF Passed, Offsets, Lanes
  <2>. QED  BY <1>1, <2>3, <2>4 DEF Expected
<1>. QED  BY <1>1, <1>2, <1>3 DEF IInv, Counts

(* Where the loops are, in numbers. *)
LEMMA Here ==
    ASSUME TypeOK, AboutToFill
    PROVE  /\ lane \in Lanes /\ currentIndex \in Offsets
           /\ currOffset = Block(lane, currentIndex)
           /\ prevOffset = Block(lane, IF currentIndex = 0 THEN laneLength - 1
                                       ELSE currentIndex - 1)
           /\ \A J1 \in 0 .. W - 1 :
                 indexAlpha(J1) \in Offsets /\ refOffset(J1) = Block(lane, indexAlpha(J1))
<1>1. lane \in Lanes /\ lane * laneLength \in Nat
  BY Lane DEF TypeOK, Lanes
<1>2. currentIndex \in Offsets
  BY Area, Lane DEF Offsets
<1>3. \A J1 \in 0 .. W - 1 : indexAlpha(J1) \in Offsets
  BY Reference, Lane DEF Allowed, Offsets
<1>. QED  BY <1>1, <1>2, <1>3, Area, Lane
     DEF currOffset, prevOffset, refOffset, Block

LEMMA FillInvariant == IInv /\ FillBlock => IInv'
<1>. SUFFICES ASSUME IInv, FillBlock PROVE IInv'
  OBVIOUS
<1>. DEFINE cur == currentIndex
            p == IF cur = 0 THEN laneLength - 1 ELSE cur - 1
<1>1. PICK J1 \in 0 .. W - 1 :
          memory' = [memory EXCEPT ![currOffset] =
                        Compressed(prevOffset, refOffset(J1), currOffset)]
  BY DEF FillBlock, FillBlockFrom
<1>. DEFINE r == indexAlpha(J1)
<1>2. TypeOK /\ AboutToFill /\ pc = "fill" /\ pc' = "fill" /\ index' = index + 1
      /\ UNCHANGED <<pass, slice, lane>>
  BY DEF FillBlock, FillBlockFrom, IInv, AboutToFill
<1>3. /\ cur \in Offsets /\ p \in Offsets /\ r \in Offsets /\ lane \in Lanes
      /\ currOffset = Block(lane, cur) /\ prevOffset = Block(lane, p)
      /\ refOffset(J1) = Block(lane, r) /\ Allowed(r)
      /\ cur = slice * segmentLength + index /\ slice * segmentLength \in Nat
      /\ index \in Nat /\ index < segmentLength /\ pass \in Nat
  <2>1. p \in Offsets
    BY <1>2, Area, Lane DEF Offsets
  <2>. QED  BY <1>2, <2>1, Here, Reference, Area, Segment DEF TypeOK, AboutToFill
<1>. HIDE DEF cur, p, r
<1>4. \A l \in Lanes, o \in Offsets : memory[Block(l, o)] = Expected(l, o)
  BY <1>2 DEF IInv, Counts
<1>5. r # p /\ cur \in Nat /\ p \in Nat /\ r \in Nat
  BY <1>3, Lane DEF Allowed, cur, p, Offsets
<1>6. Expected(lane, r) >= 1 /\ Expected(lane, p) >= 1
  <2>1. CASE pass # 0
    BY <2>1, <1>3 DEF Expected
  <2>2. CASE pass = 0
    <3>1. r < cur /\ p < cur
      BY <2>2, <1>2, <1>3, <1>5, Area, Lane DEF Allowed, cur, p
    <3>2. Passed(lane, r) /\ Passed(lane, p)
      BY <3>1, <1>3, <1>5, Lane DEF Passed
    <3>. QED  BY <3>2, <2>2 DEF Expected
  <2>. QED  BY <2>1, <2>2
<1>7. Mixing(prevOffset, refOffset(J1)) = 1
  <2>1. Block(lane, p) # Block(lane, r)
    BY <1>3, <1>5, BlockUnique
  <2>2. memory[Block(lane, p)] > 0 /\ memory[Block(lane, r)] > 0
    <3>1. memory[Block(lane, p)] >= 1 /\ memory[Block(lane, r)] >= 1
      BY <1>3, <1>4, <1>6
    <3>2. memory[Block(lane, p)] \in Nat /\ memory[Block(lane, r)] \in Nat
      BY <1>2, <1>3, BlockInRange, SizesAssumption DEF TypeOK
    <3>. QED  BY <3>1, <3>2
  <2>. QED  BY <2>1, <2>2, <1>3 DEF Mixing
<1>8. Compressed(prevOffset, refOffset(J1), currOffset) = pass + 1
  <2>1. ~Passed(lane, cur) /\ (pass = 0 => cur >= 2)
    <3>1. pass = 0 => cur >= 2
      BY <1>2, Area DEF cur
    <3>2. lane \in Nat
      BY <1>2, Lane DEF TypeOK
    <3>3. ~Passed(lane, cur)
      BY <3>2, <1>3, <1>5, Lane DEF Passed
    <3>. QED  BY <3>1, <3>3
  <2>2. memory[currOffset] = pass
    BY <2>1, <1>3, <1>4, <1>5 DEF Expected
  <2>. QED  BY <2>2, <1>3, <1>7 DEF Compressed
<1>9. TypeOK'
  <2>1. pass + 1 \in 0 .. passes
    BY <1>2, SizesAssumption DEF TypeOK
  <2>2. memory' \in [Blocks -> 0 .. passes]
    BY <1>1, <1>2, <1>8, <2>1 DEF TypeOK
  <2>3. index' \in 0 .. segmentLength
    BY <1>2, <1>3, Lane
  <2>. QED  BY <1>2, <2>2, <2>3 DEF TypeOK
<1>10. ASSUME NEW l \in Lanes, NEW o \in Offsets
       PROVE  memory'[Block(l, o)] = Expected(l, o)'
  <2>0. l \in Nat /\ o \in Nat /\ lane \in Nat /\ Block(l, o) \in Blocks
    BY <1>3, Lane, BlockInRange DEF Lanes, Offsets
  <2>1. CASE l = lane /\ o = cur
    <3>1. memory'[Block(l, o)] = pass + 1
      BY <2>0, <2>1, <1>1, <1>2, <1>3, <1>8 DEF TypeOK
    <3>2. Passed(l, o)'
      BY <2>1, <1>2, <1>3, Lane DEF Passed
    <3>. QED  BY <3>1, <3>2, <1>2 DEF Expected
  <2>2. CASE ~(l = lane /\ o = cur)
    <3>1. Block(l, o) # currOffset
      BY <2>2, <1>3, BlockUnique
    <3>2. memory'[Block(l, o)] = memory[Block(l, o)]
      BY <2>0, <3>1, <1>1, <1>2 DEF TypeOK
    <3>3. Passed(l, o)' <=> Passed(l, o)
      BY <2>0, <2>2, <1>2, <1>3, <1>5, Lane DEF Passed
    <3>. QED  BY <3>2, <3>3, <1>2, <1>4 DEF Expected
  <2>. QED  BY <2>1, <2>2
<1>. QED  BY <1>2, <1>9, <1>10 DEF IInv, Counts

LEMMA SkipInvariant == IInv /\ Skip => IInv'
<1>. SUFFICES ASSUME IInv, Skip PROVE IInv'
  OBVIOUS
<1>1. /\ pc = "fill" /\ index < segmentLength /\ pass = 0 /\ slice = 0
      /\ slice * segmentLength + index < 2 /\ index' = index + 1
      /\ UNCHANGED <<pc, pass, slice, lane, memory>>
  BY DEF Skip, Initialized, currentIndex
<1>2. TypeOK'
  BY <1>1, Lane DEF IInv, TypeOK
<1>3. ASSUME NEW l \in Lanes, NEW o \in Offsets
      PROVE  Expected(l, o)' = Expected(l, o)
  <2>1. o \in Nat /\ index \in Nat /\ slice * segmentLength = 0
    BY <1>1, Lane DEF IInv, TypeOK, Offsets
  <2>2. (Passed(l, o)' \/ o < 2) <=> (Passed(l, o) \/ o < 2)
    BY <1>1, <2>1, Lane DEF Passed
  <2>. QED  BY <1>1, <2>2 DEF Expected
<1>. QED  BY <1>1, <1>2, <1>3 DEF IInv, Counts

LEMMA LoopsInvariant == IInv /\ (NextLane \/ NextSlice \/ NextPass \/ Filled) => IInv'
<1>. SUFFICES ASSUME IInv, NextLane \/ NextSlice \/ NextPass \/ Filled PROVE IInv'
  OBVIOUS
<1>. DEFINE s == slice * segmentLength
<1>1. /\ pc = "fill" /\ index = segmentLength /\ UNCHANGED memory
      /\ s \in Nat /\ s + segmentLength <= laneLength
      /\ (slice + 1) * segmentLength = s + segmentLength
      /\ (slice = 3 <=> s + segmentLength = laneLength)
      /\ lane \in Nat /\ lane < lanes /\ pass \in Nat /\ slice \in Nat
  BY Segment, Lane DEF NextLane, NextSlice, NextPass, Filled, AtSegmentEnd, IInv, TypeOK, SyncPoints
<1>2. \A l \in Lanes, o \in Offsets : memory[Block(l, o)] = Expected(l, o)
  BY <1>1 DEF IInv, Counts
<1>. HIDE DEF s
<1>3. \A l \in Lanes, o \in Offsets : l \in Nat /\ o \in Nat /\ o < laneLength /\ l < lanes
  BY Lane DEF Lanes, Offsets
<1>4. CASE NextLane
  <2>1. lane' = lane + 1 /\ lane + 1 < lanes /\ index' = 0 /\ UNCHANGED <<pc, pass, slice, memory>>
    BY <1>4 DEF NextLane
  <2>2. TypeOK'
    BY <2>1, <1>1, Lane DEF IInv, TypeOK
  <2>3. ASSUME NEW l \in Lanes, NEW o \in Offsets PROVE Passed(l, o)' <=> Passed(l, o)
    BY <2>1, <1>1, <1>3, Lane DEF Passed, s
  <2>. QED  BY <2>1, <2>2, <2>3, <1>1, <1>2 DEF IInv, Counts, Expected
<1>5. CASE NextSlice
  <2>1. /\ lane + 1 = lanes /\ slice' = slice + 1 /\ slice + 1 < 4
        /\ lane' = 0 /\ index' = 0 /\ UNCHANGED <<pc, pass, memory>>
    BY <1>5 DEF NextSlice, SyncPoints
  <2>2. TypeOK'
    BY <2>1, <1>1, Lane DEF IInv, TypeOK, SyncPoints
  <2>3. slice' * segmentLength = s + segmentLength
    BY <2>1, <1>1
  <2>4. ASSUME NEW l \in Lanes, NEW o \in Offsets PROVE Passed(l, o)' <=> Passed(l, o)
    <3>1. Passed(l, o) <=> o < s + segmentLength
      BY <2>1, <1>1, <1>3, Lane DEF Passed, s
    <3>2. Passed(l, o)' <=> o < s + segmentLength
      BY <2>1, <2>3, <1>1, <1>3, Lane DEF Passed
    <3>. QED  BY <3>1, <3>2
  <2>. QED  BY <2>1, <2>2, <2>4, <1>1, <1>2 DEF IInv, Counts, Expected
<1>6. ASSUME NextPass \/ Filled, NEW l \in Lanes, NEW o \in Offsets
      PROVE  Expected(l, o) = pass + 1
  <2>1. lane + 1 = lanes /\ slice = 3
    BY <1>6, <1>1 DEF NextPass, Filled, SyncPoints
  <2>2. s + segmentLength = laneLength
    BY <2>1, <1>1
  <2>3. Passed(l, o)
    BY <2>1, <2>2, <1>1, <1>3, Lane DEF Passed, s
  <2>. QED  BY <2>3 DEF Expected
<1>7. CASE NextPass
  <2>1. /\ pass' = pass + 1 /\ pass + 1 < passes /\ slice' = 0 /\ lane' = 0 /\ index' = 0
        /\ UNCHANGED <<pc, memory>>
    BY <1>7 DEF NextPass
  <2>2. TypeOK'
    BY <2>1, <1>1, Lane, SizesAssumption DEF IInv, TypeOK, SyncPoints
  <2>3. ASSUME NEW l \in Lanes, NEW o \in Offsets PROVE Expected(l, o)' = pass + 1
    <3>1. slice' * segmentLength = 0
      BY <2>1, Lane
    <3>2. ~Passed(l, o)'
      BY <2>1, <3>1, <1>3, Lane DEF Passed
    <3>. QED  BY <2>1, <3>2, <1>1 DEF Expected
  <2>. QED  BY <2>1, <2>2, <2>3, <1>1, <1>2, <1>6, <1>7 DEF IInv, Counts
<1>8. CASE Filled
  <2>1. pc' = "done" /\ pass + 1 = passes /\ UNCHANGED <<pass, slice, lane, index, memory>>
    BY <1>8 DEF Filled
  <2>2. TypeOK'
    BY <2>1 DEF IInv, TypeOK
  <2>3. ASSUME NEW b \in Blocks PROVE memory'[b] = passes
    <3>1. PICK l \in Lanes, o \in Offsets : b = Block(l, o)
      BY EveryBlock
    <3>. QED  BY <3>1, <2>1, <1>2, <1>6, <1>8
  <2>. QED  BY <2>1, <2>2, <2>3 DEF IInv, Counts
<1>. QED  BY <1>4, <1>5, <1>7, <1>8

LEMMA NextInvariant == IInv /\ [Next]_vars => IInv'
<1>1. IInv /\ UNCHANGED vars => IInv'
  BY DEF IInv, TypeOK, Counts, Expected, Passed, vars
<1>. QED  BY <1>1, InitializeInvariant, SkipInvariant, FillInvariant, LoopsInvariant DEF Next

THEOREM Invariant == Spec => []IInv
<1>. QED  BY InitInvariant, NextInvariant, PTL DEF Spec

(* For every size of memory, number of lanes and content of a block, the   *)
(* reference indexAlpha selects is one Argon2d allows (indexing.go:45-101). *)
THEOREM References == Spec => []ReferenceAllowed
<1>1. IInv => ReferenceAllowed
  BY TypeReferenceAllowed DEF IInv
<1>. QED  BY <1>1, Invariant, PTL

(* When fillMemory returns, every block of the cache holds the mixing of   *)
(* every pass (core.go:25-88).                                             *)
THEOREM Complete == Spec => []CacheComplete
<1>1. IInv => CacheComplete
  BY DEF IInv, Counts, CacheComplete
<1>. QED  BY <1>1, Invariant, PTL

(* The loops stay in their bounds, and no block gets more passes than      *)
(* there are (core.go:25-88).                                              *)
THEOREM TypeCorrect == Spec => []TypeOK
<1>1. IInv => TypeOK
  BY DEF IInv
<1>. QED  BY <1>1, Invariant, PTL

(* Where two lanes' worth of blocks fit into W, the window of references is *)
(* reached from end to end (indexing.go:76-82).                             *)
THEOREM Window == Spec => []WindowReached
<1>1. IInv => WindowReached
  BY TypeWindowReached DEF IInv
<1>. QED  BY <1>1, Invariant, PTL

LEMMA ArgonStep == [ArgonNext]_argonVars => [Next]_vars
<1>1. ArgonInitialize => Next
  BY DEF ArgonInitialize, Next
<1>2. ArgonFillBlock => Next
  BY DEF ArgonFillBlock, FillBlock, Next
<1>3. ArgonLoops => Next
  BY DEF ArgonLoops, Next
<1>4. FinalizeHash => UNCHANGED vars
  BY DEF FinalizeHash
<1>5. UNCHANGED argonVars => UNCHANGED vars
  BY DEF argonVars
<1>. QED  BY <1>1, <1>2, <1>3, <1>4, <1>5 DEF ArgonNext

(* Argon2d and Argon2dCache fill the memory as Argon2Fill does, whatever    *)
(* the wiring of a block and the length of a tag: all that is proved of     *)
(* Argon2Fill is true of them (argon2d.go:199-262).                          *)
THEOREM Implements == ArgonSpec => Spec
<1>1. ArgonInit => Init
  BY DEF ArgonInit
<1>. QED  BY <1>1, ArgonStep, PTL DEF ArgonSpec, Spec

-----------------------------------------------------------------------------
(* The wiring of a block. *)

(* Every output of the mixing function depends on every input. *)
LEMMA MixesAll ==
    ASSUME NEW a \in BOOLEAN, NEW b \in BOOLEAN, NEW c \in BOOLEAN, NEW d \in BOOLEAN
    PROVE  \A j \in 1 .. 4 : g(a, b, c, d)[j] <=> a \/ b \/ c \/ d
BY DEF g

(* The word of the k-th column of a step in row i. *)
At(i, k, shift) == 4 * i + ((k + i * shift) % 4)

LEMMA InStep ==
    ASSUME NEW v, NEW shift \in {0, 1}, NEW x
    PROVE  x \in columnStep(v, shift) <=>
               \E k \in 0 .. 3 : /\ \E i \in 0 .. 3 : x = At(i, k, shift)
                                 /\ \E i \in 0 .. 3 : At(i, k, shift) \in v
<1>. DEFINE at(i, k) == At(i, k, shift)
            in(i, k) == at(i, k) \in v
            mixed(k) == g(in(0, k), in(1, k), in(2, k), in(3, k))
<1>1. columnStep(v, shift) =
          UNION {{at(i, k) : i \in {j \in 0 .. 3 : mixed(k)[j + 1]}} : k \in 0 .. 3}
  BY DEF columnStep, At
<1>2. ASSUME NEW k \in 0 .. 3, NEW j \in 0 .. 3
      PROVE  mixed(k)[j + 1] <=> \E i \in 0 .. 3 : in(i, k)
  <2>1. /\ in(0, k) \in BOOLEAN /\ in(1, k) \in BOOLEAN
        /\ in(2, k) \in BOOLEAN /\ in(3, k) \in BOOLEAN /\ j + 1 \in 1 .. 4
    OBVIOUS
  <2>2. mixed(k)[j + 1] <=> in(0, k) \/ in(1, k) \/ in(2, k) \/ in(3, k)
    BY <2>1, MixesAll
  <2>. QED  BY <2>2
<1>. HIDE DEF mixed
<1>3. x \in columnStep(v, shift) <=>
          \E k \in 0 .. 3 : \E i \in 0 .. 3 : x = at(i, k) /\ mixed(k)[i + 1]
  BY <1>1
<1>. QED  BY <1>2, <1>3

(* From one word, gRound reaches all sixteen. *)
LEMMA RoundFull ==
    ASSUME NEW v, NEW y \in v, y \in 0 .. 15
    PROVE  gRound(v) = 0 .. 15
<1>. DEFINE u == columnStep(v, 0)
            c == y % 4
<1>1. c \in 0 .. 3 /\ y \div 4 \in 0 .. 3 /\ y = 4 * (y \div 4) + c
  OBVIOUS
<1>2. \A i \in 0 .. 3, k \in 0 .. 3 : At(i, k, 0) = 4 * i + k
  BY DEF At
<1>3. \A i \in 0 .. 3 : 4 * i + c \in u
  <2>1. At(y \div 4, c, 0) = y
    BY <1>1, <1>2
  <2>. QED  BY <1>1, <1>2, <2>1, InStep
<1>. HIDE DEF u
<1>4. \A k \in 0 .. 3 : \E i \in 0 .. 3 : At(i, k, 1) \in u
  <2>. SUFFICES ASSUME NEW k \in 0 .. 3 PROVE \E i \in 0 .. 3 : At(i, k, 1) \in u
    OBVIOUS
  <2>. DEFINE i == (c + 4 - k) % 4
  <2>1. i \in 0 .. 3 /\ (k + i * 1) % 4 = c
    BY <1>1
  <2>. HIDE DEF i
  <2>2. At(i, k, 1) = 4 * i + c
    BY <2>1 DEF At
  <2>. QED  BY <1>3, <2>1, <2>2
<1>5. \A x : x \in columnStep(u, 1) <=> x \in 0 .. 15
  <2>. SUFFICES ASSUME NEW x PROVE x \in columnStep(u, 1) <=> x \in 0 .. 15
    OBVIOUS
  <2>1. x \in columnStep(u, 1) <=> \E k \in 0 .. 3 : \E i \in 0 .. 3 : x = At(i, k, 1)
    BY <1>4, InStep
  <2>2. ASSUME NEW k \in 0 .. 3, NEW i \in 0 .. 3 PROVE At(i, k, 1) \in 0 .. 15
    BY DEF At
  <2>3. ASSUME x \in 0 .. 15 PROVE \E k \in 0 .. 3 : \E i \in 0 .. 3 : x = At(i, k, 1)
    <3>. DEFINE i == x \div 4
                k == ((x % 4) + 4 - i) % 4
    <3>1. i \in 0 .. 3 /\ x % 4 \in 0 .. 3 /\ x = 4 * i + (x % 4)
      BY <2>3
    <3>2. k \in 0 .. 3 /\ (k + i * 1) % 4 = x % 4
      BY <3>1
    <3>3. x = At(i, k, 1)
      BY <3>1, <3>2 DEF At
    <3>. QED  BY <3>1, <3>2, <3>3
  <2>. QED  BY <2>1, <2>2, <2>3
<1>. QED  BY <1>5 DEF gRound, u

LEMMA RoundWithin == ASSUME NEW v PROVE gRound(v) \subseteq 0 .. 15
<1>1. \A k \in 0 .. 3, i \in 0 .. 3 : At(i, k, 1) \in 0 .. 15
  BY DEF At
<1>. QED  BY <1>1, InStep DEF gRound

LEMMA WordsOf ==
    /\ \A i \in 0 .. 7, k \in 0 .. 15 : columnWord[i][k] = 16 * i + k
    /\ \A i \in 0 .. 7, k \in 0 .. 15 : rowWord[i][k] = 2 * i + 16 * (k \div 2) + (k % 2)
BY DEF columnWord, rowWord

(* A round that is given a word of a group reaches the whole group, and    *)
(* only words of groups.                                                   *)
LEMMA InRounds ==
    ASSUME NEW block, NEW word
    PROVE  /\ \A i \in 0 .. 7, j \in 0 .. 15 :
                  word[i][j] \in block =>
                      \A k \in 0 .. 15 : word[i][k] \in rounds(block, word)
           /\ \A x \in rounds(block, word) :
                  \E i \in 0 .. 7, k \in 0 .. 15 : x = word[i][k]
<1>. DEFINE seen(i) == {j \in 0 .. 15 : word[i][j] \in block}
<1>1. rounds(block, word) = UNION {{word[i][k] : k \in gRound(seen(i))} : i \in 0 .. 7}
  BY DEF rounds
<1>2. ASSUME NEW i \in 0 .. 7, NEW j \in 0 .. 15, word[i][j] \in block
      PROVE  \A k \in 0 .. 15 : word[i][k] \in rounds(block, word)
  <2>1. j \in seen(i)
    BY <1>2
  <2>. HIDE DEF seen
  <2>2. gRound(seen(i)) = 0 .. 15
    BY <2>1, RoundFull
  <2>. QED  BY <1>1, <2>2
<1>3. ASSUME NEW x \in rounds(block, word)
      PROVE  \E i \in 0 .. 7, k \in 0 .. 15 : x = word[i][k]
  <2>. HIDE DEF seen
  <2>1. PICK i \in 0 .. 7 : \E k \in gRound(seen(i)) : x = word[i][k]
    BY <1>1
  <2>2. gRound(seen(i)) \subseteq 0 .. 15
    BY RoundWithin
  <2>. QED  BY <2>1, <2>2
<1>. QED  BY <1>2, <1>3

LEMMA RowsWithin ==
    ASSUME NEW block
    PROVE  rounds(block, rowWord) \subseteq WordIndices
<1>. SUFFICES ASSUME NEW y \in rounds(block, rowWord) PROVE y \in WordIndices
  OBVIOUS
<1>1. PICK i \in 0 .. 7, k \in 0 .. 15 : y = rowWord[i][k]
  BY InRounds
<1>2. k \div 2 \in 0 .. 7 /\ k % 2 \in 0 .. 1
  OBVIOUS
<1>3. y = 2 * i + 16 * (k \div 2) + (k % 2)
  BY <1>1, WordsOf
<1>. QED  BY <1>2, <1>3 DEF WordIndices, QWordsInBlock

(* The groups of columns cross those of rows, so that both rounds together *)
(* reach every word from any.                                              *)
LEMMA PermutationFull ==
    ASSUME NEW block, NEW x \in block, x \in WordIndices
    PROVE  applyBlake2bRound(block) = WordIndices
<1>. DEFINE B == rounds(block, columnWord)
            a == x \div 16
<1>1. a \in 0 .. 7 /\ x % 16 \in 0 .. 15 /\ x = 16 * a + (x % 16)
  BY DEF WordIndices, QWordsInBlock
<1>2. columnWord[a][x % 16] \in block
  BY <1>1, WordsOf
<1>3. \A k \in 0 .. 15 : 16 * a + k \in B
  BY <1>1, <1>2, InRounds, WordsOf
<1>. HIDE DEF a, B
<1>4. ASSUME NEW i \in 0 .. 7 PROVE \A k \in 0 .. 15 : rowWord[i][k] \in rounds(B, rowWord)
  <2>. DEFINE j == 2 * a
  <2>1. j \in 0 .. 15 /\ j \div 2 = a /\ j % 2 = 0 /\ 2 * i \in 0 .. 15
    BY <1>1
  <2>2. rowWord[i][j] = 16 * a + 2 * i
    BY <1>1, <2>1, WordsOf
  <2>3. rowWord[i][j] \in B
    BY <1>3, <2>1, <2>2
  <2>. HIDE DEF j
  <2>. QED  BY <2>1, <2>3, InRounds
<1>5. ASSUME NEW y \in WordIndices PROVE y \in rounds(B, rowWord)
  <2>. DEFINE r == y % 16
              i == r \div 2
              k == 2 * (y \div 16) + (r % 2)
  <2>1. y \in 0 .. 127
    BY DEF WordIndices, QWordsInBlock
  <2>2. r \in 0 .. 15 /\ y \div 16 \in 0 .. 7 /\ y = 16 * (y \div 16) + r
    BY <2>1
  <2>3. i \in 0 .. 7 /\ r % 2 \in 0 .. 1 /\ r = 2 * i + (r % 2)
    BY <2>2
  <2>4. k \in 0 .. 15 /\ k \div 2 = y \div 16 /\ k % 2 = r % 2
    BY <2>2, <2>3
  <2>5. rowWord[i][k] = y
    BY <2>2, <2>3, <2>4, WordsOf
  <2>. QED  BY <1>4, <2>3, <2>4, <2>5
<1>6. ASSUME NEW y \in rounds(B, rowWord) PROVE y \in WordIndices
  BY RowsWithin
<1>7. rounds(B, rowWord) = WordIndices
  BY <1>5, <1>6
<1>. QED  BY <1>7 DEF applyBlake2bRound, B

LEMMA FillFull ==
    ASSUME NEW prev, NEW ref, NEW next, NEW withXOR \in BOOLEAN,
           prev \subseteq WordIndices, ref \subseteq WordIndices, next \subseteq WordIndices
    PROVE  /\ fillBlock(prev, ref, next, withXOR) \subseteq WordIndices
           /\ prev \cup ref # {} => fillBlock(prev, ref, next, withXOR) = WordIndices
<1>. DEFINE Q == XOR(ref, prev)
            P == applyBlake2bRound(Q)
<1>1. P \subseteq WordIndices
  BY RowsWithin DEF applyBlake2bRound
<1>2. Q \subseteq WordIndices /\ (prev \cup ref # {} => \E x \in Q : x \in WordIndices)
  BY DEF XOR
<1>3. prev \cup ref # {} => P = WordIndices
  <2>. HIDE DEF Q
  <2>. QED  BY <1>2, PermutationFull
<1>4. fillBlock(prev, ref, next, withXOR) = IF withXOR THEN (P \cup Q) \cup next ELSE P \cup Q
  BY DEF fillBlock, XOR
<1>. HIDE DEF P, Q
<1>. QED  BY <1>1, <1>2, <1>3, <1>4

-----------------------------------------------------------------------------
(* Blake2bLong.  How many hashes give 32 bytes, and what is made when m    *)
(* bytes are left.                                                         *)

Halves(m) == IF m <= 64 THEN 0 ELSE (m + 31) \div 32 - 2
Left(m) == IF m = 0 THEN << >> ELSE Specified(m)

LEMMA SpecifiedAs ==
    ASSUME NEW m \in Nat, m > 0
    PROVE  /\ Halves(m) \in Nat /\ m - 32 * Halves(m) \in 1 .. 64
           /\ Specified(m) = [k \in 1 .. Halves(m) + 1 |->
                                 IF k <= Halves(m) THEN Piece(64, 32)
                                 ELSE Piece(m - 32 * Halves(m), m - 32 * Halves(m))]
           /\ m > 64 => m - 32 \in Nat /\ m - 32 > 0 /\ Halves(m) = Halves(m - 32) + 1
<1>1. CASE m <= 64
  <2>1. Halves(m) = 0
    BY <1>1 DEF Halves
  <2>2. Specified(m) = <<Piece(m, m)>>
    BY <1>1 DEF Specified
  <2>3. <<Piece(m, m)>> = [k \in 1 .. 1 |-> Piece(m, m)]
    OBVIOUS
  <2>. QED  BY <1>1, <2>1, <2>2, <2>3
<1>2. CASE m > 64
  <2>1. Halves(m) = (m + 31) \div 32 - 2 /\ Halves(m) \in Nat
        /\ m - 32 * Halves(m) \in 1 .. 64
    BY <1>2 DEF Halves
  <2>2. Specified(m) = [k \in 1 .. Halves(m) + 1 |->
                           IF k <= Halves(m) THEN Piece(64, 32)
                           ELSE Piece(m - 32 * Halves(m), m - 32 * Halves(m))]
    BY <1>2, <2>1 DEF Specified
  <2>3. Halves(m) = Halves(m - 32) + 1
    BY <1>2 DEF Halves
  <2>. QED  BY <1>2, <2>1, <2>2, <2>3
<1>. QED  BY <1>1, <1>2

LEMMA Cons ==
    ASSUME NEW p, NEW S, NEW n \in Nat, NEW s \in [1 .. n -> S]
    PROVE  <<p>> \o s = [k \in 1 .. n + 1 |-> IF k = 1 THEN p ELSE s[k - 1]]
<1>1. s \in Seq(S) /\ Len(s) = n
  OBVIOUS
<1>. QED  BY <1>1

(* One hash, then those of what it leaves. *)
LEMMA OneMore ==
    ASSUME NEW m \in Nat, m > 0
    PROVE  LET piece == outSize(m)
           IN  /\ piece.used \in 1 .. m
               /\ Left(m) = <<piece>> \o Left(m - piece.used)
<1>. DEFINE piece == outSize(m)
<1>1. CASE m <= 64
  <2>1. piece = Piece(m, m) /\ piece.used = m
    BY <1>1 DEF outSize, Piece
  <2>2. Left(m) = <<Piece(m, m)>> /\ Left(m - m) = << >>
    BY <1>1 DEF Left, Specified
  <2>3. <<Piece(m, m)>> \o << >> = <<Piece(m, m)>>
    OBVIOUS
  <2>. QED  BY <2>1, <2>2, <2>3
<1>2. CASE m > 64
  <2>. DEFINE n == m - 32
              h == Halves(n)
              last == Piece(n - 32 * h, n - 32 * h)
              s == [k \in 1 .. h + 1 |-> IF k <= h THEN Piece(64, 32) ELSE last]
  <2>1. piece = Piece(64, 32) /\ piece.used = 32
    BY <1>2 DEF outSize, Piece
  <2>2. n \in Nat /\ n > 0 /\ h \in Nat /\ Halves(m) = h + 1
    BY <1>2, SpecifiedAs
  <2>3. Left(n) = s
    <3>. HIDE DEF n
    <3>1. Left(n) = Specified(n)
      BY <2>2 DEF Left
    <3>2. Specified(n) = s
      BY <2>2, SpecifiedAs, Zenon
    <3>. QED  BY <3>1, <3>2
  <2>4. Left(m) = [k \in 1 .. (h + 1) + 1 |-> IF k <= h + 1 THEN Piece(64, 32) ELSE last]
    <3>1. Left(m) = Specified(m)
      BY <1>2 DEF Left
    <3>2. m - 32 * (h + 1) = n - 32 * h
      BY <2>2
    <3>. QED  BY <3>1, <3>2, <2>2, SpecifiedAs
  <2>. HIDE DEF n, h, last
  <2>5. <<Piece(64, 32)>> \o s =
            [k \in 1 .. (h + 1) + 1 |-> IF k = 1 THEN Piece(64, 32) ELSE s[k - 1]]
    <3>1. s \in [1 .. h + 1 -> {Piece(64, 32), last}] /\ h + 1 \in Nat
      BY <2>2
    <3>. HIDE DEF s
    <3>. QED  BY <3>1, Cons
  <2>6. \A k \in 1 .. (h + 1) + 1 :
            (IF k = 1 THEN Piece(64, 32) ELSE s[k - 1]) =
            (IF k <= h + 1 THEN Piece(64, 32) ELSE last)
    BY <2>2
  <2>7. <<Piece(64, 32)>> \o s = Left(m)
    <3>. HIDE DEF s
    <3>1. <<Piece(64, 32)>> \o s =
              [k \in 1 .. (h + 1) + 1 |-> IF k <= h + 1 THEN Piece(64, 32) ELSE last]
      BY <2>5, <2>6, Zenon
    <3>. QED  BY <2>4, <3>1
  <2>8. m - piece.used = n
    BY <2>1 DEF n
  <2>. HIDE DEF s, piece
  <2>9. piece.used \in 1 .. m
    BY <1>2, <2>1
  <2>. QED  BY <2>1, <2>3, <2>7, <2>8, <2>9 DEF piece
<1>. QED  BY <1>1, <1>2

(* The loop makes, after any number of bytes, what the RFC says is left.   *)
LEMMA HashesFrom ==
    ASSUME NEW n \in Nat
    PROVE  \A copied \in 0 .. n : hashesFrom(n)[copied] = Left(n - copied)
<1>. DEFINE rest == hashesFrom(n)
            s == [copied \in 0 .. n |-> Left(n - copied)]
<1>1. \A copied \in 0 .. n :
          Left(n - copied) =
              IF copied = n THEN << >>
              ELSE <<outSize(n - copied)>> \o s[copied + outSize(n - copied).used]
  <2>. SUFFICES ASSUME NEW copied \in 0 .. n
                PROVE  Left(n - copied) =
                           IF copied = n THEN << >>
                           ELSE <<outSize(n - copied)>> \o s[copied + outSize(n - copied).used]
    OBVIOUS
  <2>1. CASE copied = n
    <3>1. n - copied = 0
      BY <2>1
    <3>. QED  BY <2>1, <3>1 DEF Left
  <2>2. CASE copied # n
    <3>. DEFINE m == n - copied
                used == outSize(m).used
    <3>1. m \in Nat /\ m > 0
      BY <2>2
    <3>. HIDE DEF m
    <3>2. used \in 1 .. m /\ Left(m) = <<outSize(m)>> \o Left(m - used)
      BY <3>1, OneMore
    <3>3. copied + used \in 0 .. n /\ n - (copied + used) = m - used
      <4>. HIDE DEF used
      <4>. QED  BY <3>1, <3>2 DEF m
    <3>4. s[copied + used] = Left(m - used)
      BY <3>3
    <3>. QED  BY <2>2, <3>2, <3>4 DEF m
  <2>. QED  BY <2>1, <2>2
<1>2. s = [copied \in 0 .. n |->
              IF copied = n THEN << >>
              ELSE LET piece == outSize(n - copied)
                   IN  <<piece>> \o s[copied + piece.used]]
  BY <1>1, Zenon
<1>. HIDE DEF s
<1>3. rest = [copied \in 0 .. n |->
                 IF copied = n THEN << >>
                 ELSE LET piece == outSize(n - copied)
                      IN  <<piece>> \o rest[copied + piece.used]]
  BY <1>2, Zenon DEF hashesFrom
<1>. HIDE DEF rest
<1>4. \A copied \in 0 .. n :
          rest[copied] = IF copied = n THEN << >>
                         ELSE <<outSize(n - copied)>> \o rest[copied + outSize(n - copied).used]
  BY <1>3, Zenon
<1>. DEFINE Wrong == {m \in 0 .. n : rest[n - m] # Left(m)}
<1>5. Wrong = {}
  <2>. SUFFICES ASSUME Wrong # {} PROVE FALSE
    OBVIOUS
  <2>1. PICK m \in Wrong : \A k \in Wrong : m <= k
    <3>1. Wrong \subseteq Nat
      OBVIOUS
    <3>. HIDE DEF Wrong
    <3>. QED  BY <3>1, Least
  <2>2. m \in 0 .. n /\ n - m \in 0 .. n /\ n - (n - m) = m
    BY <2>1
  <2>3. CASE m = 0
    <3>1. n - m = n /\ n \in 0 .. n
      BY <2>3
    <3>2. rest[n] = << >>
      BY <1>4, <3>1, Zenon
    <3>. QED  BY <2>1, <2>3, <3>1, <3>2 DEF Left
  <2>4. CASE m # 0
    <3>. DEFINE used == outSize(m).used
    <3>0. m \in Nat /\ m > 0 /\ n - m # n
      BY <2>2, <2>4
    <3>1. used \in 1 .. m /\ Left(m) = <<outSize(m)>> \o Left(m - used)
      BY <3>0, OneMore
    <3>2. rest[n - m] = <<outSize(m)>> \o rest[(n - m) + used]
      BY <1>4, <2>2, <3>0, Zenon
    <3>. HIDE DEF used
    <3>3. (n - m) + used = n - (m - used) /\ m - used \in 0 .. n /\ m - used < m
      BY <2>2, <3>1
    <3>4. rest[n - (m - used)] = Left(m - used)
      BY <2>1, <3>3
    <3>. QED  BY <2>1, <3>1, <3>2, <3>3, <3>4
  <2>. QED  BY <2>3, <2>4
<1>6. ASSUME NEW copied \in 0 .. n PROVE rest[copied] = Left(n - copied)
  <2>1. n - copied \in 0 .. n /\ n - (n - copied) = copied
    OBVIOUS
  <2>2. n - copied \notin Wrong
    BY <1>5
  <2>. QED  BY <2>1, <2>2
<1>. QED  BY <1>6 DEF rest

LEMMA Blake2bLongSpecified ==
    ASSUME NEW n \in Nat, n > 0
    PROVE  Blake2bLong(n) = Specified(n)
<1>1. CASE n <= 64
  BY <1>1 DEF Blake2bLong, Specified
<1>2. CASE n > 64
  <2>1. hashesFrom(n)[32] = Left(n - 32)
    BY <1>2, HashesFrom
  <2>2. outSize(n) = Piece(64, 32) /\ outSize(n).used = 32
    BY <1>2 DEF outSize, Piece
  <2>3. Left(n) = <<Piece(64, 32)>> \o Left(n - 32)
    BY <2>2, OneMore
  <2>4. Left(n) = Specified(n)
    BY DEF Left
  <2>. QED  BY <1>2, <2>1, <2>3, <2>4 DEF Blake2bLong
<1>. QED  BY <1>1, <1>2

-----------------------------------------------------------------------------
(* How the watched word spreads.  A block of the first lane has all its    *)
(* words depend on it once a pass has mixed into it: one of the first two  *)
(* blocks after the second pass over it, any other after the first.        *)

FirstLane == 0 .. laneLength - 1
MixedInto(b) == memory[b] >= IF b \in FirstBlocks THEN 2 ELSE 1

Spread ==
    /\ watched \in FirstBlocks \X WordIndices
    /\ words \in [Blocks -> SUBSET WordIndices]
    /\ pc # "init" => watched[2] \in words[watched[1]]
    /\ \A b \in FirstLane : MixedInto(b) => words[b] = WordIndices

Tagged ==
    /\ tagLength \in Nat
    /\ tagLength > 0 => tag = [final |-> WordIndices, pieces |-> Specified(tagLength)]

SpreadInv == IInv /\ Spread

LEMMA InFirstLane ==
    /\ 0 \in Lanes /\ FirstLane = Offsets /\ \A o \in Offsets : Block(0, o) = o
    /\ FirstLane \subseteq Blocks /\ {0, 1} \subseteq FirstLane /\ FirstLane \subseteq Nat
<1>1. 0 \in Lanes /\ FirstLane = Offsets /\ \A o \in Offsets : Block(0, o) = o
  BY Lane DEF Lanes, FirstLane, Offsets, Block
<1>2. \A o \in Offsets : o \in Blocks
  BY <1>1, BlockInRange
<1>. QED  BY <1>1, <1>2, Lane DEF FirstLane

LEMMA InitSpread == ArgonInit => Spread
<1>. SUFFICES ASSUME ArgonInit PROVE Spread
  OBVIOUS
<1>1. watched \in FirstBlocks \X WordIndices /\ words \in [Blocks -> SUBSET WordIndices]
  BY WatchedAssumption DEF ArgonInit
<1>2. \A b \in FirstLane : memory[b] = 0 /\ pc = "init"
  BY InFirstLane DEF ArgonInit, Init
<1>3. pc = "init"
  BY DEF ArgonInit, Init
<1>4. \A b \in FirstLane : ~MixedInto(b)
  BY <1>2 DEF MixedInto
<1>. QED  BY <1>1, <1>3, <1>4 DEF Spread

LEMMA InitializeSpread == SpreadInv /\ ArgonInitialize => Spread'
<1>. SUFFICES ASSUME SpreadInv, ArgonInitialize PROVE Spread'
  OBVIOUS
<1>1. IInv'
  BY InitializeInvariant DEF ArgonInitialize, SpreadInv
<1>2. /\ pc' = "fill" /\ pass' = 0 /\ slice' = 0 /\ lane' = 0 /\ index' = 0
  BY DEF ArgonInitialize, InitializeMemory, SpreadInv, IInv, Counts
<1>3. \A b \in FirstLane : ~MixedInto(b)'
  <2>. SUFFICES ASSUME NEW b \in FirstLane PROVE ~MixedInto(b)'
    OBVIOUS
  <2>1. memory'[Block(0, b)] = Expected(0, b)' /\ Block(0, b) = b /\ b \in Nat
    BY <1>1, <1>2, InFirstLane DEF IInv, Counts
  <2>2. ~Passed(0, b)'
    BY <1>2, <2>1, Lane DEF Passed
  <2>3. memory'[b] = IF b < 2 THEN 1 ELSE 0
    BY <1>2, <2>1, <2>2 DEF Expected
  <2>. QED  BY <2>1, <2>3 DEF MixedInto, FirstBlocks
<1>5. words' = [b \in Blocks |-> IF b = watched[1] THEN {watched[2]} ELSE words[b]]
  BY DEF ArgonInitialize
<1>6. watched' = watched /\ watched[1] \in Blocks /\ watched[2] \in WordIndices
      /\ watched \in FirstBlocks \X WordIndices
  BY InFirstLane DEF ArgonInitialize, SpreadInv, Spread, FirstBlocks
<1>7. words' \in [Blocks -> SUBSET WordIndices]
  BY <1>5, <1>6 DEF SpreadInv, Spread
<1>8. watched'[2] \in words'[watched'[1]]
  BY <1>5, <1>6
<1>. QED  BY <1>3, <1>6, <1>7, <1>8 DEF Spread

(* One of the two blocks that are mixed depends on the watched word. *)
LEMMA MixedDepends ==
    ASSUME SpreadInv, AboutToFill, lane = 0, NEW r, Allowed(r)
    PROVE  words[prevOffset] \cup words[r] # {}
<1>. DEFINE cur == currentIndex
            p == IF cur = 0 THEN laneLength - 1 ELSE cur - 1
<1>1. /\ TypeOK /\ cur \in Nat /\ cur < laneLength /\ cur = slice * segmentLength + index
      /\ slice * segmentLength \in Nat /\ index \in Nat /\ index < segmentLength
      /\ pass \in Nat /\ (pass = 0 => cur >= 2)
  <2>1. TypeOK
    BY DEF SpreadInv, IInv
  <2>. QED  BY <2>1, Area, Segment DEF TypeOK, AboutToFill
<1>2. p \in FirstLane /\ p \in Nat /\ prevOffset = p
  <2>1. p \in Offsets
    BY <1>1, Lane DEF Offsets
  <2>. QED  BY <1>1, <2>1, Here, InFirstLane
<1>3. cur # 0 => Passed(0, p)
  BY <1>1, Lane DEF Passed
<1>4. memory[p] = Expected(0, p)
  BY <1>2, InFirstLane DEF SpreadInv, IInv, Counts, AboutToFill
<1>5. CASE ~(pass = 0 /\ cur = 2)
  <2>1. MixedInto(p)
    <3>1. CASE cur = 0
      <4>1. p >= 2 /\ pass >= 1
        BY <1>1, <3>1, Lane
      <4>2. memory[p] >= pass
        BY <1>1, <1>4 DEF Expected
      <4>3. memory[p] \in Int
        BY <1>1, <1>4 DEF Expected
      <4>. HIDE DEF p, cur
      <4>. QED  BY <1>1, <1>2, <4>1, <4>2, <4>3 DEF MixedInto, FirstBlocks
    <3>2. CASE cur # 0
      <4>1. memory[p] = pass + 1
        BY <1>3, <1>4, <3>2 DEF Expected
      <4>2. pass = 0 => p >= 2
        BY <1>1, <1>5
      <4>. HIDE DEF p, cur
      <4>. QED  BY <1>1, <1>2, <4>1, <4>2 DEF MixedInto, FirstBlocks
    <3>. QED  BY <3>1, <3>2
  <2>2. words[p] = WordIndices
    BY <1>2, <2>1 DEF SpreadInv, Spread
  <2>3. 0 \in WordIndices
    BY DEF WordIndices, QWordsInBlock
  <2>. QED  BY <1>2, <2>2, <2>3
<1>6. CASE pass = 0 /\ cur = 2
  <2>1. p = 1 /\ r = 0
    BY <1>1, <1>6 DEF Allowed
  <2>2. watched[1] \in {0, 1} /\ watched[2] \in words[watched[1]]
    BY DEF SpreadInv, Spread, FirstBlocks, AboutToFill
  <2>. QED  BY <1>2, <2>1, <2>2
<1>. QED  BY <1>5, <1>6

LEMMA FillSpread == SpreadInv /\ ArgonFillBlock => Spread'
<1>. SUFFICES ASSUME SpreadInv, ArgonFillBlock PROVE Spread'
  OBVIOUS
<1>1. PICK J1 \in 0 .. W - 1 :
          /\ FillBlockFrom(refOffset(J1))
          /\ words' = [words EXCEPT ![currOffset] =
                          fillBlock(words[prevOffset], words[refOffset(J1)], words[currOffset], pass # 0)]
  BY DEF ArgonFillBlock
<1>. DEFINE curr == currOffset
            ref == refOffset(J1)
            new == fillBlock(words[prevOffset], words[ref], words[curr], pass # 0)
<1>2. TypeOK /\ AboutToFill /\ pc' = pc /\ pc = "fill" /\ watched' = watched
  BY <1>1 DEF ArgonFillBlock, FillBlockFrom, SpreadInv, IInv, AboutToFill
<1>3. curr \in Blocks /\ ref \in Blocks /\ prevOffset \in Blocks
  <2>. DEFINE p == IF currentIndex = 0 THEN laneLength - 1 ELSE currentIndex - 1
  <2>1. p \in Offsets
    BY <1>2, Area, Lane DEF Offsets
  <2>2. /\ lane \in Lanes /\ currentIndex \in Offsets /\ indexAlpha(J1) \in Offsets
        /\ curr = Block(lane, currentIndex) /\ prevOffset = Block(lane, p)
        /\ ref = Block(lane, indexAlpha(J1))
    BY <1>2, Here
  <2>. HIDE DEF p, curr, ref
  <2>. QED  BY <2>1, <2>2, BlockInRange
<1>4. /\ memory' = [memory EXCEPT ![curr] = Compressed(prevOffset, ref, curr)]
      /\ words' = [words EXCEPT ![curr] = new]
  BY <1>1 DEF FillBlockFrom
<1>5. /\ words[prevOffset] \subseteq WordIndices /\ words[ref] \subseteq WordIndices
      /\ words[curr] \subseteq WordIndices
  BY <1>3 DEF SpreadInv, Spread
<1>6. new \subseteq WordIndices /\ (words[prevOffset] \cup words[ref] # {} => new = WordIndices)
  BY <1>5, FillFull
<1>7. curr \in FirstLane => new = WordIndices
  <2>. SUFFICES ASSUME curr \in FirstLane PROVE words[prevOffset] \cup words[ref] # {}
    BY <1>6
  <2>1. lane = 0
    <3>1. /\ lane \in Lanes /\ currentIndex \in Offsets /\ curr = Block(lane, currentIndex)
          /\ curr \in Offsets /\ 0 \in Lanes /\ curr = Block(0, curr)
      BY <1>2, Here, InFirstLane
    <3>. HIDE DEF curr
    <3>. QED  BY <3>1, BlockUnique
  <2>2. ref = indexAlpha(J1) /\ Allowed(indexAlpha(J1))
    BY <1>2, <2>1, Here, InFirstLane, Reference
  <2>. QED  BY <1>2, <2>1, <2>2, MixedDepends
<1>. HIDE DEF new, curr, ref
<1>8. /\ words \in [Blocks -> SUBSET WordIndices] /\ memory \in [Blocks -> 0 .. passes]
      /\ \A b \in FirstLane : MixedInto(b) => words[b] = WordIndices
      /\ watched \in FirstBlocks \X WordIndices /\ watched[2] \in words[watched[1]]
  BY <1>2 DEF SpreadInv, Spread, TypeOK
<1>9. words' \in [Blocks -> SUBSET WordIndices]
  BY <1>4, <1>6, <1>8
<1>10. ASSUME NEW b \in FirstLane, MixedInto(b)' PROVE words'[b] = WordIndices
  <2>1. b \in Blocks
    BY InFirstLane
  <2>2. CASE b = curr
    BY <1>3, <1>4, <1>7, <1>8, <2>2
  <2>3. CASE b # curr
    <3>1. memory'[b] = memory[b] /\ words'[b] = words[b]
      BY <1>4, <1>8, <2>1, <2>3
    <3>. QED  BY <1>8, <1>10, <3>1 DEF MixedInto
  <2>. QED  BY <2>2, <2>3
<1>11. watched[2] \in words'[watched[1]]
  <2>1. watched[1] \in FirstLane /\ watched[1] \in Blocks /\ watched[2] \in WordIndices
    BY <1>8, InFirstLane DEF FirstBlocks
  <2>2. CASE watched[1] = curr
    BY <1>3, <1>4, <1>7, <1>8, <2>1, <2>2
  <2>3. CASE watched[1] # curr
    BY <1>4, <1>8, <2>1, <2>3
  <2>. QED  BY <2>2, <2>3
<1>. QED  BY <1>2, <1>8, <1>9, <1>10, <1>11 DEF Spread

LEMMA NextSpread == SpreadInv /\ [ArgonNext]_argonVars => SpreadInv'
<1>. SUFFICES ASSUME SpreadInv, [ArgonNext]_argonVars PROVE SpreadInv'
  OBVIOUS
<1>1. [Next]_vars
  BY ArgonStep
<1>2. IInv'
  BY <1>1, NextInvariant DEF SpreadInv
<1>3. ASSUME UNCHANGED <<memory, words, watched>>, pc' # "init" => pc # "init" PROVE Spread'
  BY <1>3 DEF SpreadInv, Spread, MixedInto
<1>4. CASE ArgonLoops
  <2>1. UNCHANGED <<memory, words, watched>> /\ pc # "init"
    BY <1>4 DEF ArgonLoops, Skip, NextLane, NextSlice, NextPass, Filled, AtSegmentEnd
  <2>. QED  BY <1>2, <1>3, <2>1 DEF SpreadInv
<1>5. CASE FinalizeHash
  BY <1>2, <1>3, <1>5 DEF FinalizeHash, SpreadInv, vars
<1>6. CASE UNCHANGED argonVars
  BY <1>2, <1>3, <1>6 DEF argonVars, SpreadInv, vars
<1>. QED  BY <1>2, <1>4, <1>5, <1>6, InitializeSpread, FillSpread DEF ArgonNext, SpreadInv

LEMMA SpreadAlways == ArgonSpec => []SpreadInv
<1>1. ArgonInit => SpreadInv
  BY InitSpread, InitInvariant DEF SpreadInv, ArgonInit
<1>. QED  BY <1>1, NextSpread, PTL DEF ArgonSpec

LEMMA SpreadDiffused == ASSUME passes > 1 PROVE SpreadInv => Diffused
<1>. SUFFICES ASSUME SpreadInv, pc = "done", NEW b \in FirstLane PROVE words[b] = WordIndices
  BY DEF Diffused, FirstLane
<1>1. memory[b] = passes
  BY InFirstLane DEF SpreadInv, IInv, Counts
<1>2. MixedInto(b)
  BY <1>1, SizesAssumption DEF MixedInto
<1>. QED  BY <1>2 DEF SpreadInv, Spread

(* Of two passes or more, whatever their number, that of the blocks and    *)
(* what the blocks begin with: every word of every block of the lane       *)
(* depends on every word of its first blocks (compression.go:25-112).      *)
THEOREM AllDiffused == ASSUME passes > 1 PROVE ArgonSpec => []Diffused
<1>1. SpreadInv => Diffused
  BY SpreadDiffused
<1>. QED  BY <1>1, SpreadAlways, PTL

(* And a tag of any length is made of all of them, as the RFC says         *)
(* (argon2d.go:155-176, blake2b_long.go:37-104).                           *)
THEOREM TagRight == ASSUME passes > 1 PROVE ArgonSpec => []TagAsSpecified
<1>1. ArgonInit => Tagged
  BY DEF ArgonInit, Tagged
<1>2. SpreadInv /\ Tagged /\ [ArgonNext]_argonVars => Tagged'
  <2>. SUFFICES ASSUME SpreadInv, Tagged, [ArgonNext]_argonVars PROVE Tagged'
    OBVIOUS
  <2>1. CASE FinalizeHash
    <3>1. tagLength' \in Nat /\ tagLength' > 0
      BY <2>1, WatchedAssumption DEF FinalizeHash
    <3>2. Blake2bLong(tagLength') = Specified(tagLength')
      BY <3>1, Blake2bLongSpecified
    <3>3. UNION {words[b] : b \in FirstLane} = WordIndices
      <4>1. \A b \in FirstLane : words[b] = WordIndices
        BY <2>1, SpreadDiffused DEF Diffused, FinalizeHash, FirstLane
      <4>. QED  BY <4>1, InFirstLane
    <3>4. tag' = [final |-> WordIndices, pieces |-> Specified(tagLength')]
      BY <2>1, <3>2, <3>3 DEF FinalizeHash, FirstLane
    <3>. QED  BY <3>1, <3>4 DEF Tagged
  <2>2. CASE ~FinalizeHash
    <3>1. UNCHANGED <<tagLength, tag>>
      BY <2>2 DEF ArgonNext, ArgonInitialize, ArgonFillBlock, ArgonLoops, argonVars
    <3>. QED  BY <3>1 DEF Tagged
  <2>. QED  BY <2>1, <2>2
<1>3. Tagged => TagAsSpecified
  BY DEF Tagged, TagAsSpecified
<1>. QED  BY <1>1, <1>2, <1>3, SpreadAlways, PTL DEF ArgonSpec
=============================================================================
