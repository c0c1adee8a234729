------------------------- MODULE InstructionsProofs -------------------------
(***************************************************************************)
(* The properties of Instructions for words of any width, any number of    *)
(* registers, any sizes of the levels of the scratchpad and any program.   *)
(***************************************************************************)
EXTENDS Instructions, WordArithmeticProofs

-----------------------------------------------------------------------------
(* Decoding. *)

LEMMA Table ==
    /\ DOMAIN Frequencies = 1 .. 29 /\ Len(Frequencies) = 29
    /\ \A k \in 1 .. 29 : Frequencies[k][2] \in Nat /\ Frequencies[k][1] # "NOP"
    /\ \A k, m \in 1 .. 29 : Frequencies[k][1] = Frequencies[m][1] => k = m
BY DEF Frequencies

LEMMA Numbers ==
    /\ Frequencies[1][2] = 16  /\ Frequencies[2][2] = 7   /\ Frequencies[3][2] = 16
    /\ Frequencies[4][2] = 7   /\ Frequencies[5][2] = 16  /\ Frequencies[6][2] = 4
    /\ Frequencies[7][2] = 4   /\ Frequencies[8][2] = 4   /\ Frequencies[9][2] = 4
    /\ Frequencies[10][2] = 4  /\ Frequencies[11][2] = 8  /\ Frequencies[12][2] = 2
    /\ Frequencies[13][2] = 15 /\ Frequencies[14][2] = 5  /\ Frequencies[15][2] = 8
    /\ Frequencies[16][2] = 2  /\ Frequencies[17][2] = 4  /\ Frequencies[18][2] = 4
    /\ Frequencies[19][2] = 16 /\ Frequencies[20][2] = 5  /\ Frequencies[21][2] = 16
    /\ Frequencies[22][2] = 5  /\ Frequencies[23][2] = 6  /\ Frequencies[24][2] = 32
    /\ Frequencies[25][2] = 4  /\ Frequencies[26][2] = 6  /\ Frequencies[27][2] = 25
    /\ Frequencies[28][2] = 1
BY DEF Frequencies

(* Both sums are what their definitions say they are. *)
LEMMA Sums ==
    /\ FrequencySum[0] = 0
    /\ \A k \in 1 .. 29 : FrequencySum[k] = FrequencySum[k - 1] + Frequencies[k][2]
<1>. DEFINE F == [k \in 1 .. 29 |-> [x \in Nat |-> x + Frequencies[k][2]]]
            f == FrequencySum
<1>1. F \in [1 .. 29 -> [Nat -> Nat]]
  BY Table
<1>. HIDE DEF F
<1>2. PICK h \in [0 .. 29 -> Nat] : Recursive(h, 29, 0, F)
  BY <1>1, Recursion
<1>3. \A k \in 0 .. 29 : (IF k = 0 THEN 0 ELSE F[k][h[k - 1]]) =
                         (IF k = 0 THEN 0 ELSE h[k - 1] + Frequencies[k][2])
  <2>1. ASSUME NEW k \in 1 .. 29 PROVE F[k][h[k - 1]] = h[k - 1] + Frequencies[k][2]
    <3>1. h[k - 1] \in Nat
      BY <1>2
    <3>. QED  BY <3>1 DEF F
  <2>. QED  BY <2>1
<1>4. h = [k \in 0 .. Len(Frequencies) |-> IF k = 0 THEN 0 ELSE h[k - 1] + Frequencies[k][2]]
  <2>1. Len(Frequencies) = 29
    BY Table
  <2>2. h = [k \in 0 .. 29 |-> IF k = 0 THEN 0 ELSE F[k][h[k - 1]]]
    BY <1>2 DEF Recursive
  <2>3. h = [k \in 0 .. 29 |-> IF k = 0 THEN 0 ELSE h[k - 1] + Frequencies[k][2]]
    BY <1>3, <2>2, Zenon
  <2>. QED  BY <2>1, <2>3, Zenon
<1>5. f = [k \in 0 .. Len(Frequencies) |-> IF k = 0 THEN 0 ELSE f[k - 1] + Frequencies[k][2]]
  BY <1>4, Zenon DEF FrequencySum
<1>. HIDE DEF f
<1>6. \A k \in 0 .. 29 : f[k] = IF k = 0 THEN 0 ELSE f[k - 1] + Frequencies[k][2]
  <2>1. Len(Frequencies) = 29
    BY Table
  <2>. QED  BY <1>5, <2>1, Zenon
<1>. QED  BY <1>6 DEF f

LEMMA WrappedSums ==
    /\ cumulative[0] = 0
    /\ \A k \in 1 .. 29 : cumulative[k] = (cumulative[k - 1] + Frequencies[k][2]) % 256
<1>. DEFINE F == [k \in 1 .. 29 |-> [x \in Nat |-> (x + Frequencies[k][2]) % 256]]
            f == cumulative
<1>1. F \in [1 .. 29 -> [Nat -> Nat]]
  BY Table
<1>. HIDE DEF F
<1>2. PICK h \in [0 .. 29 -> Nat] : Recursive(h, 29, 0, F)
  BY <1>1, Recursion
<1>3. \A k \in 0 .. 29 : (IF k = 0 THEN 0 ELSE F[k][h[k - 1]]) =
                         (IF k = 0 THEN 0 ELSE (h[k - 1] + Frequencies[k][2]) % 256)
  <2>1. ASSUME NEW k \in 1 .. 29 PROVE F[k][h[k - 1]] = (h[k - 1] + Frequencies[k][2]) % 256
    <3>1. h[k - 1] \in Nat
      BY <1>2
    <3>. QED  BY <3>1 DEF F
  <2>. QED  BY <2>1
<1>4. h = [k \in 0 .. Len(Frequencies) |->
              IF k = 0 THEN 0 ELSE (h[k - 1] + Frequencies[k][2]) % 256]
  <2>1. Len(Frequencies) = 29
    BY Table
  <2>2. h = [k \in 0 .. 29 |-> IF k = 0 THEN 0 ELSE F[k][h[k - 1]]]
    BY <1>2 DEF Recursive
  <2>3. h = [k \in 0 .. 29 |->
                IF k = 0 THEN 0 ELSE (h[k - 1] + Frequencies[k][2]) % 256]
    BY <1>3, <2>2, Zenon
  <2>. QED  BY <2>1, <2>3, Zenon
<1>5. f = [k \in 0 .. Len(Frequencies) |->
              IF k = 0 THEN 0 ELSE (f[k - 1] + Frequencies[k][2]) % 256]
  BY <1>4, Zenon DEF cumulative
<1>. HIDE DEF f
<1>6. \A k \in 0 .. 29 : f[k] = IF k = 0 THEN 0 ELSE (f[k - 1] + Frequencies[k][2]) % 256
  <2>1. Len(Frequencies) = 29
    BY Table
  <2>. QED  BY <1>5, <2>1, Zenon
<1>. QED  BY <1>6 DEF f

(* Up to the 28th type no sum is beyond a uint8. *)
LEMMA SumsInByte ==
    /\ FrequencySum[28] = 246
    /\ \A k \in 1 .. 28 : FrequencySum[k] \in Nat /\ FrequencySum[k - 1] <= FrequencySum[k]
    /\ \A k \in 0 .. 28 : FrequencySum[k] \in 0 .. 246 /\ cumulative[k] = FrequencySum[k]
<1>. DEFINE S == FrequencySum
<1>1. /\ S[0] = 0 /\ S[1] = S[0] + 16 /\ S[2] = S[1] + 7 /\ S[3] = S[2] + 16
      /\ S[4] = S[3] + 7 /\ S[5] = S[4] + 16 /\ S[6] = S[5] + 4 /\ S[7] = S[6] + 4
      /\ S[8] = S[7] + 4 /\ S[9] = S[8] + 4 /\ S[10] = S[9] + 4 /\ S[11] = S[10] + 8
      /\ S[12] = S[11] + 2 /\ S[13] = S[12] + 15 /\ S[14] = S[13] + 5
  BY Sums, Numbers
<1>2. /\ S[15] = S[14] + 8 /\ S[16] = S[15] + 2 /\ S[17] = S[16] + 4
      /\ S[18] = S[17] + 4 /\ S[19] = S[18] + 16 /\ S[20] = S[19] + 5 /\ S[21] = S[20] + 16
      /\ S[22] = S[21] + 5 /\ S[23] = S[22] + 6 /\ S[24] = S[23] + 32 /\ S[25] = S[24] + 4
      /\ S[26] = S[25] + 6 /\ S[27] = S[26] + 25 /\ S[28] = S[27] + 1
  BY Sums, Numbers
<1>3. S[28] = 246
  BY <1>1, <1>2
<1>4. \A k \in 1 .. 28 : S[k] \in 0 .. 246 /\ S[k - 1] \in 0 .. 246 /\ S[k - 1] <= S[k]
  BY <1>1, <1>2
<1>. HIDE DEF S
<1>. DEFINE T == {k \in Nat : cumulative[k] = S[k]}
<1>5. 0 \in T
  BY <1>1, WrappedSums
<1>6. ASSUME NEW k \in 1 .. 28, k - 1 \in T PROVE k \in T
  <2>1. S[k] = S[k - 1] + Frequencies[k][2]
    BY Sums DEF S
  <2>2. cumulative[k] = (S[k - 1] + Frequencies[k][2]) % 256
    BY <1>6, WrappedSums
  <2>3. S[k] \in 0 .. 246 /\ S[k] % 256 = S[k]
    <3>1. \A x \in 0 .. 246 : x % 256 = x
      OBVIOUS
    <3>. QED  BY <1>4, <3>1, Zenon
  <2>4. cumulative[k] = S[k] % 256
    BY <2>1, <2>2, Zenon
  <2>. QED  BY <2>3, <2>4
<1>7. \A k \in 0 .. 28 : k \in T
  <2>. DEFINE N == 28
  <2>. HIDE DEF T
  <2>1. N \in Nat /\ \A n \in 1 .. N : n - 1 \in T => n \in T
    BY <1>6
  <2>. HIDE DEF N
  <2>2. \A n \in 0 .. N : n \in T
    BY <1>5, <2>1, Induction
  <2>. QED  BY <2>2, Zenon DEF N
<1>8. \A k \in 0 .. 28 : S[k] \in 0 .. 246
  BY <1>1, <1>4
<1>9. \A k \in 0 .. 28 : cumulative[k] = S[k]
  BY <1>7
<1>10. \A k \in 1 .. 28 : S[k] \in Nat /\ S[k - 1] <= S[k]
  <2>1. \A x \in 0 .. 246 : x \in Nat
    OBVIOUS
  <2>. QED  BY <1>4, <2>1, Zenon
<1>. QED  BY <1>3, <1>8, <1>9, <1>10, Zenon DEF S

LEMMA SumsType == \A k \in 0 .. 28 : FrequencySum[k] \in Int
<1>1. \A x \in 0 .. 246 : x \in Int
  OBVIOUS
<1>. QED  BY <1>1, SumsInByte, Zenon

LEMMA Monotone ==
    ASSUME NEW j \in 0 .. 28, NEW k \in 0 .. 28, j <= k
    PROVE  FrequencySum[j] <= FrequencySum[k]
<1>. DEFINE T == {n \in Nat : j + n <= 28 => FrequencySum[j] <= FrequencySum[j + n]}
<1>1. 0 \in T
  BY SumsInByte
<1>2. ASSUME NEW n \in 1 .. k - j, n - 1 \in T PROVE n \in T
  <2>1. j + n \in 1 .. 28 /\ j + (n - 1) = (j + n) - 1
    OBVIOUS
  <2>2. FrequencySum[(j + n) - 1] <= FrequencySum[j + n]
    BY <2>1, SumsInByte
  <2>3. FrequencySum[j] <= FrequencySum[(j + n) - 1]
    BY <1>2, <2>1
  <2>4. /\ FrequencySum[j] \in Int /\ FrequencySum[j + n] \in Int
        /\ FrequencySum[(j + n) - 1] \in Int
    <3>1. j + n \in 0 .. 28 /\ (j + n) - 1 \in 0 .. 28
      BY <2>1
    <3>. QED  BY <3>1, SumsType, Zenon
  <2>5. FrequencySum[j] <= FrequencySum[j + n]
    BY <2>2, <2>3, <2>4
  <2>. QED  BY <2>5
<1>3. k - j \in T
  <2>. HIDE DEF T
  <2>1. \A n \in 0 .. k - j : n \in T
    BY <1>1, <1>2, Induction
  <2>. QED  BY <2>1
<1>. QED  BY <1>3

(* The first type whose bound is above an opcode is the one in whose range *)
(* the opcode lies.                                                        *)
LEMMA FirstAbove ==
    ASSUME NEW opcode \in 0 .. 255, NEW k \in 1 .. 28
    PROVE  typeOf[opcode] = Frequencies[k][1] <=> opcode \in Reserved[k]
<1>. DEFINE below == {n \in DOMAIN Frequencies : opcode < cumulative[n]}
<1>1. typeOf[opcode] = IF below = {} THEN "NOP" ELSE Frequencies[Min(below)][1]
  BY DEF typeOf, getInstructionType
<1>2. Reserved[k] = FrequencySum[k - 1] .. FrequencySum[k] - 1
  BY Table DEF Reserved
<1>3. below \subseteq 1 .. 29
  BY Table
<1>4. below # {} => Min(below) \in below /\ \A n \in below : Min(below) <= n
  <2>. SUFFICES ASSUME below # {} PROVE Min(below) \in below /\ \A n \in below : Min(below) <= n
    OBVIOUS
  <2>. HIDE DEF below
  <2>1. \E n \in below : \A m \in below : n <= m
    <3>1. below \subseteq Nat
      BY <1>3
    <3>. QED  BY <3>1, Least
  <2>. QED  BY <2>1 DEF Min
<1>5. \A n \in 1 .. 28 : n \in below <=> opcode < FrequencySum[n]
  <2>1. \A n \in 1 .. 28 : n \in DOMAIN Frequencies
    BY Table
  <2>2. \A n \in 1 .. 28 : cumulative[n] = FrequencySum[n]
    BY SumsInByte
  <2>. QED  BY <2>1, <2>2, Zenon
<1>. HIDE DEF below
<1>6. ASSUME opcode \in Reserved[k] PROVE typeOf[opcode] = Frequencies[k][1]
  <2>1. FrequencySum[k - 1] <= opcode /\ opcode < FrequencySum[k]
    <3>1. FrequencySum[k - 1] \in Int /\ FrequencySum[k] \in Int
      <4>1. k - 1 \in 0 .. 28 /\ k \in 0 .. 28
        OBVIOUS
      <4>. QED  BY <4>1, SumsType, Zenon
    <3>. QED  BY <1>2, <1>6, <3>1
  <2>2. k \in below
    BY <1>5, <2>1
  <2>3. ASSUME NEW n \in below PROVE n >= k
    <3>1. ASSUME n < k PROVE FALSE
      <4>1. n \in 1 .. 28 /\ n <= k - 1 /\ k - 1 \in 0 .. 28 /\ n \in 0 .. 28
        BY <1>3, <3>1
      <4>2. FrequencySum[n] <= FrequencySum[k - 1]
        BY <4>1, Monotone
      <4>3. opcode < FrequencySum[n]
        BY <1>5, <4>1
      <4>4. FrequencySum[n] \in Int /\ FrequencySum[k - 1] \in Int
        BY <4>1, SumsInByte
      <4>. QED  BY <2>1, <4>2, <4>3, <4>4
    <3>. QED  BY <3>1, <1>3
  <2>4. Min(below) = k
    <3>1. Min(below) \in below /\ Min(below) <= k
      BY <1>4, <2>2
    <3>2. Min(below) \in Nat /\ Min(below) >= k
      <4>1. \A n \in below : n \in Nat
        BY <1>3
      <4>. QED  BY <2>3, <3>1, <4>1, Zenon
    <3>. QED  BY <3>1, <3>2
  <2>. QED  BY <1>1, <2>2, <2>4
<1>7. ASSUME typeOf[opcode] = Frequencies[k][1] PROVE opcode \in Reserved[k]
  <2>1. below # {} /\ Min(below) \in 1 .. 29 /\ Frequencies[Min(below)][1] = Frequencies[k][1]
    <3>1. Frequencies[k][1] # "NOP"
      BY Table
    <3>2. below # {} /\ Frequencies[Min(below)][1] = Frequencies[k][1]
      BY <1>1, <1>7, <3>1, Zenon
    <3>. QED  BY <1>3, <1>4, <3>2
  <2>2. Min(below) = k
    BY <2>1, Table
  <2>3. k \in below /\ (k > 1 => k - 1 \notin below)
    BY <1>3, <1>4, <2>1, <2>2
  <2>4. opcode < FrequencySum[k] /\ (k > 1 => FrequencySum[k - 1] <= opcode)
    BY <1>5, <2>3, SumsInByte
  <2>5. FrequencySum[k - 1] <= opcode
    <3>1. CASE k = 1
      BY <3>1, Sums
    <3>2. CASE k > 1
      BY <3>2, <2>4
    <3>. QED  BY <3>1, <3>2
  <2>6. FrequencySum[k - 1] \in Int /\ FrequencySum[k] \in Int
    <3>1. k - 1 \in 0 .. 28 /\ k \in 0 .. 28
      OBVIOUS
    <3>. QED  BY <3>1, SumsType, Zenon
  <2>. QED  BY <1>2, <2>4, <2>5, <2>6
<1>. QED  BY <1>6, <1>7

-----------------------------------------------------------------------------
(* Addresses. *)

LEMMA LevelSize ==
    ASSUME NEW mod \in 0 .. 255
    PROVE  /\ levelSize(mod) \in Nat /\ levelSize(mod) % wordBytes = 0
           /\ levelSize(mod) >= wordBytes /\ levelSize(mod) <= scratchpadL3Size
BY SizesAssumption, ScratchpadAssumption DEF levelSize

(* A masked address is that of a word below the size. *)
LEMMA Masked ==
    ASSUME NEW x \in Nat, NEW size \in Nat, size >= wordBytes, size % wordBytes = 0
    PROVE  /\ masks(x, size) \in Nat /\ masks(x, size) + wordBytes <= size
           /\ masks(x, size) % wordBytes = 0
<1>. DEFINE w == wordBytes
            r == x % size
            k == r \div w
<1>1. w \in Nat /\ w > 0
  BY ScratchpadAssumption
<1>2. r \in 0 .. size - 1
  BY <1>1
<1>. HIDE DEF r
<1>3. k \in Nat /\ r % w \in 0 .. w - 1 /\ r = w * k + (r % w)
  BY <1>1, <1>2, Quotients
<1>4. PICK q \in Nat : size = w * q
  BY <1>1, Divides
<1>. HIDE DEF k, w
<1>5. w * k \in Nat /\ (w * k) % w = 0
  BY <1>1, <1>3, Multiple
<1>6. r - (r % w) = w * k
  BY <1>2, <1>3, <1>5
<1>7. w * k + w <= size
  <2>1. k < q
    <3>1. ASSUME k >= q PROVE FALSE
      <4>1. w * (k - q) \in Nat /\ w * k = w * q + w * (k - q)
        BY <1>1, <1>3, <3>1
      <4>. QED  BY <1>2, <1>3, <1>4, <1>5, <4>1
    <3>. QED  BY <1>3, <3>1
  <2>2. w * (q - (k + 1)) \in Nat /\ w * q = w * k + w + w * (q - (k + 1))
    BY <1>1, <1>3, <2>1
  <2>. QED  BY <1>1, <1>4, <1>5, <2>2
<1>8. masks(x, size) = w * k
  BY <1>6 DEF masks, r, w
<1>. QED  BY <1>5, <1>7, <1>8 DEF w

(* Such an address is the one that is read or written. *)
LEMMA AccessedAsIs ==
    ASSUME NEW a \in Nat, a % wordBytes = 0, a + wordBytes <= scratchpadL3Size
    PROVE  a \in Addresses /\ accessed(a) = a
<1>1. wordBytes \in Nat /\ wordBytes > 0 /\ scratchpadL3Size \in Nat
  BY ScratchpadAssumption
<1>2. a \in 0 .. scratchpadL3Size - 1
  BY <1>1
<1>3. a % scratchpadL3Size = a
  BY <1>1, <1>2
<1>. QED  BY <1>1, <1>2, <1>3 DEF Addresses, accessed

LEMMA Address ==
    ASSUME TypeOK
    PROVE  AccessInLevel
<1>. DEFINE x == (reg[instr.src] + instr.imm) % Modulus
            size == levelSize(instr.mod)
            addr == masks(x, size)
<1>1. x \in Nat
  <2>1. reg[instr.src] \in Words /\ instr.imm \in Words
    BY DEF TypeOK
  <2>2. reg[instr.src] + instr.imm \in Int
    BY <2>1, ModulusType DEF Words
  <2>. QED  BY <2>2, ModulusType
<1>2. /\ size \in Nat /\ size % wordBytes = 0 /\ size >= wordBytes
      /\ size <= scratchpadL3Size
  <2>1. instr.mod \in 0 .. 255
    BY DEF TypeOK
  <2>. QED  BY <2>1, LevelSize
<1>. HIDE DEF x, size
<1>3. addr \in Nat /\ addr + wordBytes <= size /\ addr % wordBytes = 0
  BY <1>1, <1>2, Masked
<1>. HIDE DEF addr
<1>4. addr + wordBytes <= scratchpadL3Size
  BY <1>2, <1>3, ScratchpadAssumption
<1>5. addr \in Addresses /\ accessed(addr) = addr
  BY <1>3, <1>4, AccessedAsIs
<1>. QED  BY <1>3, <1>5 DEF AccessInLevel, getMemoryAddress, addr, x, size

-----------------------------------------------------------------------------
(* Arithmetic. *)

LEMMA Remainder == \A n \in Int : n % Modulus \in Words
BY ModulusType DEF Words

(* Whatever an instruction computes is a word. *)
LEMMA DestinationType ==
    ASSUME TypeOK, NEW kind, NEW a \in Words, NEW b \in Words
    PROVE  destination(kind, a, b) \in Words
<1>. DEFINE m == instr.mod % 4
            imm == instr.imm
<1>1. a \in Nat /\ b \in Nat /\ imm \in Nat /\ Modulus \in Nat /\ Modulus > 0
  BY ModulusType DEF Words, TypeOK
<1>2. 2^m \in Nat
  <2>1. m \in 0 .. 3
    BY DEF TypeOK
  <2>. QED  BY <2>1, Powers, WordAssumption
<1>. HIDE DEF m, imm
<1>3. (a + b * 2^m) % Modulus \in Words /\ (a + imm) % Modulus \in Words
  <2>1. b * 2^m \in Int
    BY <1>1, <1>2
  <2>. QED  BY <1>1, <2>1, Remainder
<1>4. /\ (a + b) % Modulus \in Words /\ (a - b) % Modulus \in Words
      /\ (a * b) % Modulus \in Words /\ (-a) % Modulus \in Words
  <2>1. a * b \in Int
    BY <1>1
  <2>. QED  BY <1>1, <2>1, Remainder
<1>5. imm # 0 => (a * reciprocalApprox(imm)) % Modulus \in Words
  <2>. SUFFICES ASSUME imm # 0 PROVE (a * reciprocalApprox(imm)) % Modulus \in Words
    OBVIOUS
  <2>1. reciprocalApprox(imm) \in Int
    <3>1. imm > 0 /\ Modulus - 1 \in Int
      BY <1>1
    <3>. QED  BY <1>1, <3>1, Quotients DEF reciprocalApprox
  <2>2. a * reciprocalApprox(imm) \in Int
    BY <1>1, <2>1
  <2>. QED  BY <2>2, Remainder
<1>6. high(a, b) \in Words
  BY HighType
<1>7. signedHigh(a, b) \in Words
  <2>1. SignedValue(int128mul(a, b)) \in Int
    <3>1. high(a, b) \in Int
      BY <1>1, <1>6 DEF Words
    <3>2. int128mul(a, b) \in Words
      BY <1>1, <3>1, Remainder DEF int128mul
    <3>. QED  BY <3>2, SignOf
  <2>2. SignedValue(int128mul(a, b)) \div Modulus \in Int
    BY <1>1, <2>1, Quotients
  <2>. QED  BY <2>2, Remainder DEF signedHigh
<1>8. xor[a][b] \in Words
  BY XorType
<1>9. RotateLeft(a, -(b % wordBits)) \in Words /\ RotateLeft(a, b % wordBits) \in Words
  <2>1. b % wordBits \in Int /\ -(b % wordBits) \in Int
    BY <1>1, WordAssumption
  <2>. QED  BY <2>1, RotateType
<1>. QED
  BY <1>3, <1>4, <1>5, <1>6, <1>7, <1>8, <1>9 DEF destination, m, imm

LEMMA SumLossless ==
    ASSUME NEW a \in Words, NEW c \in Words, NEW z \in Int,
           (a + z) % Modulus = (c + z) % Modulus
    PROVE  a = c
<1>. DEFINE M == Modulus
            r == (a + z) % M
            p == (a + z) \div M
            q == (c + z) \div M
<1>1. M \in Nat /\ M > 0 /\ a \in 0 .. M - 1 /\ c \in 0 .. M - 1
  BY ModulusType DEF Words
<1>. HIDE DEF M
<1>2. p \in Int /\ r \in 0 .. M - 1 /\ a + z = M * p + r
  BY <1>1, Quotients
<1>3. q \in Int /\ c + z = M * q + r
  <2>1. (c + z) % M = r
    BY DEF M
  <2>2. c + z \in Int
    BY <1>1
  <2>. HIDE DEF r
  <2>3. q \in Int /\ c + z = M * q + ((c + z) % M)
    BY <1>1, <2>2, Quotients
  <2>. QED  BY <2>1, <2>3
<1>. HIDE DEF r, p, q
<1>4. M * q + a = M * p + c
  <2>. DEFINE x == M * p
              y == M * q
  <2>1. x \in Int /\ y \in Int
    BY <1>1, <1>2, <1>3
  <2>2. a + z = x + r /\ c + z = y + r
    BY <1>2, <1>3
  <2>. HIDE DEF x, y
  <2>3. y + a = x + c
    BY <1>1, <1>2, <2>1, <2>2
  <2>. QED  BY <2>3 DEF x, y
<1>5. p \in Int /\ q \in Int
  BY <1>2, <1>3
<1>6. q = p /\ a = c
  BY <1>1, <1>4, <1>5, SameQuotient
<1>. QED  BY <1>6

LEMMA NegationLossless ==
    ASSUME NEW a \in Words, NEW c \in Words, (-a) % Modulus = (-c) % Modulus
    PROVE  a = c
<1>. DEFINE M == Modulus
            r == (-a) % M
            p == (-a) \div M
            q == (-c) \div M
<1>1. M \in Nat /\ M > 0 /\ a \in 0 .. M - 1 /\ c \in 0 .. M - 1
  BY ModulusType DEF Words
<1>. HIDE DEF M
<1>2. p \in Int /\ r \in 0 .. M - 1 /\ -a = M * p + r
  BY <1>1, Quotients
<1>3. q \in Int /\ -c = M * q + r
  <2>1. (-c) % M = r
    BY DEF M
  <2>2. -c \in Int
    BY <1>1
  <2>. HIDE DEF r
  <2>3. q \in Int /\ -c = M * q + ((-c) % M)
    BY <1>1, <2>2, Quotients
  <2>. QED  BY <2>1, <2>3
<1>. HIDE DEF r, p, q
<1>4. M * p + a = M * q + c
  <2>. DEFINE x == M * p
              y == M * q
  <2>1. x \in Int /\ y \in Int
    BY <1>1, <1>2, <1>3
  <2>2. -a = x + r /\ -c = y + r
    BY <1>2, <1>3
  <2>. HIDE DEF x, y
  <2>3. x + a = y + c
    BY <1>1, <1>2, <2>1, <2>2
  <2>. QED  BY <2>3 DEF x, y
<1>. QED  BY <1>1, <1>2, <1>3, <1>4, SameQuotient

(* Whatever word is in the destination, the result gives it back. *)
LEMMA DestinationLossless ==
    ASSUME TypeOK, NEW kind \in Lossless, NEW a \in Words, NEW c \in Words, NEW b \in Words,
           destination(kind, a, b) = destination(kind, c, b)
    PROVE  a = c
<1>. DEFINE m == instr.mod % 4
<1>1. b \in Int /\ a \in Int /\ c \in Int
  BY ModulusType DEF Words
<1>2. CASE kind = "IADD_RS"
  <2>1. 2^m \in Nat
    <3>1. m \in 0 .. 3
      BY DEF TypeOK
    <3>. QED  BY <3>1, Powers, WordAssumption
  <2>. DEFINE z == b * 2^m
  <2>2. z \in Int
    BY <1>1, <2>1
  <2>3. (a + z) % Modulus = (c + z) % Modulus
    BY <1>2 DEF destination
  <2>. HIDE DEF z
  <2>. QED  BY <2>2, <2>3, SumLossless
<1>3. CASE kind = "IADD_M"
  <2>1. (a + b) % Modulus = (c + b) % Modulus
    BY <1>3 DEF destination
  <2>. QED  BY <1>1, <2>1, SumLossless
<1>4. CASE kind \in {"ISUB_R", "ISUB_M"}
  <2>1. (a - b) % Modulus = (c - b) % Modulus
    BY <1>4 DEF destination
  <2>2. a + (-b) = a - b /\ c + (-b) = c - b /\ -b \in Int
    BY <1>1
  <2>3. (a + (-b)) % Modulus = (c + (-b)) % Modulus
    BY <2>1, <2>2
  <2>. QED  BY <2>2, <2>3, SumLossless
<1>5. CASE kind = "INEG_R"
  <2>1. (-a) % Modulus = (-c) % Modulus
    BY <1>5 DEF destination
  <2>. QED  BY <2>1, NegationLossless
<1>6. CASE kind \in {"IXOR_R", "IXOR_M"}
  <2>1. xor[a][b] = xor[c][b]
    BY <1>6 DEF destination
  <2>. QED  BY <2>1, XorLossless
<1>7. CASE kind = "IROR_R"
  <2>1. RotateLeft(a, -(b % wordBits)) = RotateLeft(c, -(b % wordBits))
    BY <1>7 DEF destination
  <2>2. -(b % wordBits) \in Int
    BY <1>1, WordAssumption
  <2>. QED  BY <2>1, <2>2, RotateLossless
<1>8. CASE kind = "IROL_R"
  <2>1. RotateLeft(a, b % wordBits) = RotateLeft(c, b % wordBits)
    BY <1>8 DEF destination
  <2>2. b % wordBits \in Int
    BY <1>1, WordAssumption
  <2>. QED  BY <2>1, <2>2, RotateLossless
<1>. QED  BY <1>2, <1>3, <1>4, <1>5, <1>6, <1>7, <1>8 DEF Lossless

-----------------------------------------------------------------------------
(* The inductive invariant: an instruction is executed before the program  *)
(* ends.                                                                   *)

TypeInv == TypeOK /\ (stage = "execute" => i < programLength)

LEMMA InitTypeInv == Init => TypeInv
<1>. SUFFICES ASSUME Init PROVE TypeInv
  OBVIOUS
<1>1. 0 \in Registers /\ 0 \in Words /\ i \in 0 .. programLength
  BY SizesAssumption, ModulusType DEF Init, Registers, Words
<1>. QED  BY <1>1 DEF Init, TypeInv, TypeOK, Instruction

LEMMA NextTypeInv == TypeInv /\ [Next]_vars => TypeInv'
<1>. SUFFICES ASSUME TypeInv, [Next]_vars PROVE TypeInv'
  OBVIOUS
<1>. USE DEF TypeInv
<1>1. CASE Fetch
  <2>1. PICK opcode \in Opcodes, dst \in RegisterBytes, src \in RegisterBytes,
             mod \in Mods, imm \in Immediates :
                 instr' = decodeInstruction(opcode, dst, src, mod, imm)
    BY <1>1 DEF Fetch
  <2>2. dst % numRegisters \in Registers /\ src % numRegisters \in Registers
    BY SizesAssumption DEF RegisterBytes, Registers
  <2>3. opcode \in 0 .. 255 /\ mod \in 0 .. 255 /\ imm \in Words
    BY FieldsAssumption DEF Words, Modulus
  <2>4. instr' \in [opcode : 0 .. 255, dst : Registers, src : Registers,
                    mod : 0 .. 255, imm : Words]
    BY <2>1, <2>2, <2>3 DEF decodeInstruction, Instruction
  <2>. QED  BY <1>1, <2>4 DEF Fetch, TypeOK
<1>2. ASSUME Executing PROVE i' \in 0 .. programLength /\ stage' = "fetch" /\ instr' = instr
  BY <1>2, SizesAssumption DEF Executing, TypeOK
<1>3. CASE ExecuteRead
  <2>. DEFINE kind == typeOf[instr.opcode]
  <2>1. PICK word \in readMemory(getMemoryAddress) :
            reg' = [reg EXCEPT ![instr.dst] = destination(kind, @, word)]
    BY <1>3 DEF ExecuteRead
  <2>2. readMemory(getMemoryAddress) \subseteq Words
    <3>1. accessed(getMemoryAddress) \in Addresses
      BY Address DEF AccessInLevel
    <3>2. mem[accessed(getMemoryAddress)] \in Words \cup {filled}
      BY <3>1 DEF TypeOK
    <3>. QED  BY <3>2 DEF readMemory
  <2>3. destination(kind, reg[instr.dst], word) \in Words
    <3>1. word \in Words /\ reg[instr.dst] \in Words
      BY <2>1, <2>2 DEF TypeOK
    <3>. QED  BY <3>1, DestinationType
  <2>4. reg' \in [Registers -> Words]
    BY <2>1, <2>3 DEF TypeOK
  <2>. QED  BY <1>2, <1>3, <2>4 DEF ExecuteRead, TypeOK
<1>4. CASE ExecuteSwap
  <2>1. reg' \in [Registers -> Words]
    BY <1>4 DEF ExecuteSwap, TypeOK
  <2>. QED  BY <1>2, <1>4, <2>1 DEF ExecuteSwap, TypeOK
<1>5. CASE ExecuteRegister
  <2>. DEFINE kind == typeOf[instr.opcode]
  <2>1. reg[instr.src] \in Words /\ reg[instr.dst] \in Words
    BY DEF TypeOK
  <2>2. destination(kind, reg[instr.dst], reg[instr.src]) \in Words
    BY <2>1, DestinationType
  <2>3. reg' \in [Registers -> Words]
    BY <1>5, <2>2 DEF ExecuteRegister, TypeOK
  <2>4. mem' \in [Addresses -> Words \cup {filled}]
    BY <1>5, <2>1 DEF ExecuteRegister, TypeOK
  <2>. QED  BY <1>2, <1>5, <2>3, <2>4 DEF ExecuteRegister, TypeOK
<1>6. CASE UNCHANGED vars
  BY <1>6 DEF vars, TypeOK
<1>. QED  BY <1>1, <1>3, <1>4, <1>5, <1>6 DEF Next

LEMMA Typed == Spec => []TypeInv
BY InitTypeInv, NextTypeInv, PTL DEF Spec

-----------------------------------------------------------------------------
(* Fields, registers and the scratchpad keep to their ranges, whatever a   *)
(* program of getInstruction's bytes computes.                             *)
THEOREM TypeCorrect == Spec => []TypeOK
<1>1. TypeInv => TypeOK
  BY DEF TypeInv
<1>. QED  BY <1>1, Typed, PTL

(* Every type but the last is decoded from exactly the opcodes that its    *)
(* frequency reserves (getInstructionType).                                *)
THEOREM Decoded == Spec => []DecodedByFrequency
<1>1. TypeInv => DecodedByFrequency
  <2>. SUFFICES ASSUME TypeInv, NEW k \in 1 .. Len(Frequencies) - 1
                PROVE  typeOf[instr.opcode] = Frequencies[k][1] <=> instr.opcode \in Reserved[k]
    BY DEF DecodedByFrequency
  <2>1. k \in 1 .. 28
    BY Table
  <2>2. instr.opcode \in 0 .. 255
    BY DEF TypeInv, TypeOK
  <2>. QED  BY <2>1, <2>2, FirstAbove
<1>. QED  BY <1>1, Typed, PTL

(* The address of a load or store (getMemoryAddress) is a word of the      *)
(* level its mod selects, and readMemory and writeMemory do not move it.   *)
THEOREM InLevel == Spec => []AccessInLevel
<1>1. TypeInv => AccessInLevel
  BY Address DEF TypeInv
<1>. QED  BY <1>1, Typed, PTL

(* The instructions that add, subtract, negate, rotate or combine by       *)
(* exclusive or (executeInstructionFull) lose nothing of the destination.  *)
THEOREM Kept == Spec => []DestinationKept
<1>1. TypeInv => DestinationKept
  <2>. DEFINE kind == typeOf[instr.opcode]
  <2>. SUFFICES ASSUME TypeInv, kind \in Lossless, NEW a \in Words, a # reg[instr.dst]
                PROVE  destination(kind, a, reg[instr.src]) #
                           destination(kind, reg[instr.dst], reg[instr.src])
    BY DEF DestinationKept
  <2>1. TypeOK /\ reg[instr.src] \in Words /\ reg[instr.dst] \in Words
    BY DEF TypeInv, TypeOK
  <2>. HIDE DEF kind
  <2>. QED  BY <2>1, DestinationLossless
<1>. QED  BY <1>1, Typed, PTL
=============================================================================
