---- MODULE VirtioEchoProofs ----
(***************************************************************************)
(* Proofs about the packet loops over the virtqueues, for every size of    *)
(* the rings, of the pools and of the ring indices.                        *)
(***************************************************************************)
EXTENDS VirtioEcho, FiniteSetTheorems, TLAPS

----
\* Arithmetic of ring indices.  A slot is the entry an index k beyond the index
\* "from" names, in a ring of n entries.
At(from, k, n) == ((from + k) % IdxWrap) % n

\* The powers of two that a ring index and a ring can have.
Power(k, w) ==
  /\ w \in {1, 2, 4, 8, 16, 32, 64, 128, 256, 512, 1024,
            2048, 4096, 8192, 16384, 32768, 65536}
  /\ k > 0 => w > 1
  /\ k < 16 => w < 65536

\* They are these.
LEMMA Powers == ASSUME NEW k \in 0 .. 16, NEW w, w = 2 ^ k PROVE Power(k, w)
<1>0. CASE k = 0
  <2>1. 2 ^ 0 = 1
    OBVIOUS
  <2>2. w = 2 ^ 0
    BY <1>0
  <2> QED
    BY <1>0, <2>1, <2>2 DEF Power
<1>1. CASE k = 1
  <2>1. 2 ^ 1 = 2
    OBVIOUS
  <2>2. w = 2 ^ 1
    BY <1>1
  <2> QED
    BY <1>1, <2>1, <2>2 DEF Power
<1>2. CASE k = 2
  <2>1. 2 ^ 2 = 4
    OBVIOUS
  <2>2. w = 2 ^ 2
    BY <1>2
  <2> QED
    BY <1>2, <2>1, <2>2 DEF Power
<1>3. CASE k = 3
  <2>1. 2 ^ 3 = 8
    OBVIOUS
  <2>2. w = 2 ^ 3
    BY <1>3
  <2> QED
    BY <1>3, <2>1, <2>2 DEF Power
<1>4. CASE k = 4
  <2>1. 2 ^ 4 = 16
    OBVIOUS
  <2>2. w = 2 ^ 4
    BY <1>4
  <2> QED
    BY <1>4, <2>1, <2>2 DEF Power
<1>5. CASE k = 5
  <2>1. 2 ^ 5 = 32
    OBVIOUS
  <2>2. w = 2 ^ 5
    BY <1>5
  <2> QED
    BY <1>5, <2>1, <2>2 DEF Power
<1>6. CASE k = 6
  <2>1. 2 ^ 6 = 64
    OBVIOUS
  <2>2. w = 2 ^ 6
    BY <1>6
  <2> QED
    BY <1>6, <2>1, <2>2 DEF Power
<1>7. CASE k = 7
  <2>1. 2 ^ 7 = 128
    OBVIOUS
  <2>2. w = 2 ^ 7
    BY <1>7
  <2> QED
    BY <1>7, <2>1, <2>2 DEF Power
<1>8. CASE k = 8
  <2>1. 2 ^ 8 = 256
    OBVIOUS
  <2>2. w = 2 ^ 8
    BY <1>8
  <2> QED
    BY <1>8, <2>1, <2>2 DEF Power
<1>9. CASE k = 9
  <2>1. 2 ^ 9 = 512
    OBVIOUS
  <2>2. w = 2 ^ 9
    BY <1>9
  <2> QED
    BY <1>9, <2>1, <2>2 DEF Power
<1>10. CASE k = 10
  <2>1. 2 ^ 10 = 1024
    OBVIOUS
  <2>2. w = 2 ^ 10
    BY <1>10
  <2> QED
    BY <1>10, <2>1, <2>2 DEF Power
<1>11. CASE k = 11
  <2>1. 2 ^ 11 = 2048
    OBVIOUS
  <2>2. w = 2 ^ 11
    BY <1>11
  <2> QED
    BY <1>11, <2>1, <2>2 DEF Power
<1>12. CASE k = 12
  <2>1. 2 ^ 12 = 4096
    OBVIOUS
  <2>2. w = 2 ^ 12
    BY <1>12
  <2> QED
    BY <1>12, <2>1, <2>2 DEF Power
<1>13. CASE k = 13
  <2>1. 2 ^ 13 = 8192
    OBVIOUS
  <2>2. w = 2 ^ 13
    BY <1>13
  <2> QED
    BY <1>13, <2>1, <2>2 DEF Power
<1>14. CASE k = 14
  <2>1. 2 ^ 14 = 16384
    OBVIOUS
  <2>2. w = 2 ^ 14
    BY <1>14
  <2> QED
    BY <1>14, <2>1, <2>2 DEF Power
<1>15. CASE k = 15
  <2>1. 2 ^ 15 = 32768
    OBVIOUS
  <2>2. w = 2 ^ 15
    BY <1>15
  <2> QED
    BY <1>15, <2>1, <2>2 DEF Power
<1>16. CASE k = 16
  <2>1. 2 ^ 16 = 65536
    OBVIOUS
  <2>2. w = 2 ^ 16
    BY <1>16
  <2> QED
    BY <1>16, <2>1, <2>2 DEF Power
<1> QED
  BY <1>0, <1>1, <1>2, <1>3, <1>4, <1>5, <1>6, <1>7, <1>8, <1>9, <1>10, <1>11, <1>12, <1>13, <1>14, <1>15, <1>16

\* The indices wrap at a positive number, which every ring divides.
LEMMA WrapFacts ==
  /\ IdxWrap \in Nat \ {0} /\ DeviceSize < IdxWrap /\ DeviceSize \in Nat \ {0}
  /\ \A n \in 1 .. DeviceSize : ChosenSize(n) => \E m \in Nat \ {0} : IdxWrap = n * m
<1>1. /\ IdxWrap \in {2, 4, 8, 16, 32, 64, 128, 256, 512, 1024,
                   2048, 4096, 8192, 16384, 32768, 65536}
      /\ DeviceSize < IdxWrap /\ DeviceSize \in Nat \ {0}
  <2>1. PICK k \in 1 .. 16 : IdxWrap = 2 ^ k
    BY WrapAssumption
  <2>2. PICK w : w = 2 ^ k
    OBVIOUS
  <2>3. w \in {2, 4, 8, 16, 32, 64, 128, 256, 512, 1024,
               2048, 4096, 8192, 16384, 32768, 65536}
    <3>1. k \in 0 .. 16 /\ k > 0
      OBVIOUS
    <3>2. Power(k, w)
      BY <2>2, <3>1, Powers, Zenon
    <3> QED
      BY <3>1, <3>2 DEF Power
  <2> QED
    BY <2>1, <2>2, <2>3, WrapAssumption, SizeAssumption
<1>2. ASSUME NEW n \in 1 .. DeviceSize, ChosenSize(n)
      PROVE  \E m \in Nat \ {0} : IdxWrap = n * m
  <2>1. n \in {1, 2, 4, 8, 16, 32, 64, 128, 256, 512, 1024,
            2048, 4096, 8192, 16384, 32768}
    <3>1. PICK k \in 0 .. 15 : n = 2 ^ k
      BY <1>2 DEF ChosenSize
    <3>2. k \in 0 .. 16 /\ k < 16
      OBVIOUS
    <3>3. Power(k, n)
      BY <3>1, <3>2, Powers, Zenon
    <3> QED
      BY <3>2, <3>3 DEF Power
  <2>2. n < IdxWrap
    BY <1>1
  <2>3. PICK m \in Nat : m = IdxWrap \div n
    BY <1>1, <1>2
  <2>4. CASE n = 1
    <3>1. IdxWrap = 1 * (IdxWrap \div 1) /\ IdxWrap \div 1 > 0
      BY <1>1, <2>2, <2>4
    <3> QED
      BY <2>3, <2>4, <3>1
  <2>5. CASE n = 2
    <3>1. IdxWrap = 2 * (IdxWrap \div 2) /\ IdxWrap \div 2 > 0
      BY <1>1, <2>2, <2>5
    <3> QED
      BY <2>3, <2>5, <3>1
  <2>6. CASE n = 4
    <3>1. IdxWrap = 4 * (IdxWrap \div 4) /\ IdxWrap \div 4 > 0
      BY <1>1, <2>2, <2>6
    <3> QED
      BY <2>3, <2>6, <3>1
  <2>7. CASE n = 8
    <3>1. IdxWrap = 8 * (IdxWrap \div 8) /\ IdxWrap \div 8 > 0
      BY <1>1, <2>2, <2>7
    <3> QED
      BY <2>3, <2>7, <3>1
  <2>8. CASE n = 16
    <3>1. IdxWrap = 16 * (IdxWrap \div 16) /\ IdxWrap \div 16 > 0
      BY <1>1, <2>2, <2>8
    <3> QED
      BY <2>3, <2>8, <3>1
  <2>9. CASE n = 32
    <3>1. IdxWrap = 32 * (IdxWrap \div 32) /\ IdxWrap \div 32 > 0
      BY <1>1, <2>2, <2>9
    <3> QED
      BY <2>3, <2>9, <3>1
  <2>10. CASE n = 64
    <3>1. IdxWrap = 64 * (IdxWrap \div 64) /\ IdxWrap \div 64 > 0
      BY <1>1, <2>2, <2>10
    <3> QED
      BY <2>3, <2>10, <3>1
  <2>11. CASE n = 128
    <3>1. IdxWrap = 128 * (IdxWrap \div 128) /\ IdxWrap \div 128 > 0
      BY <1>1, <2>2, <2>11
    <3> QED
      BY <2>3, <2>11, <3>1
  <2>12. CASE n = 256
    <3>1. IdxWrap = 256 * (IdxWrap \div 256) /\ IdxWrap \div 256 > 0
      BY <1>1, <2>2, <2>12
    <3> QED
      BY <2>3, <2>12, <3>1
  <2>13. CASE n = 512
    <3>1. IdxWrap = 512 * (IdxWrap \div 512) /\ IdxWrap \div 512 > 0
      BY <1>1, <2>2, <2>13
    <3> QED
      BY <2>3, <2>13, <3>1
  <2>14. CASE n = 1024
    <3>1. IdxWrap = 1024 * (IdxWrap \div 1024) /\ IdxWrap \div 1024 > 0
      BY <1>1, <2>2, <2>14
    <3> QED
      BY <2>3, <2>14, <3>1
  <2>15. CASE n = 2048
    <3>1. IdxWrap = 2048 * (IdxWrap \div 2048) /\ IdxWrap \div 2048 > 0
      BY <1>1, <2>2, <2>15
    <3> QED
      BY <2>3, <2>15, <3>1
  <2>16. CASE n = 4096
    <3>1. IdxWrap = 4096 * (IdxWrap \div 4096) /\ IdxWrap \div 4096 > 0
      BY <1>1, <2>2, <2>16
    <3> QED
      BY <2>3, <2>16, <3>1
  <2>17. CASE n = 8192
    <3>1. IdxWrap = 8192 * (IdxWrap \div 8192) /\ IdxWrap \div 8192 > 0
      BY <1>1, <2>2, <2>17
    <3> QED
      BY <2>3, <2>17, <3>1
  <2>18. CASE n = 16384
    <3>1. IdxWrap = 16384 * (IdxWrap \div 16384) /\ IdxWrap \div 16384 > 0
      BY <1>1, <2>2, <2>18
    <3> QED
      BY <2>3, <2>18, <3>1
  <2>19. CASE n = 32768
    <3>1. IdxWrap = 32768 * (IdxWrap \div 32768) /\ IdxWrap \div 32768 > 0
      BY <1>1, <2>2, <2>19
    <3> QED
      BY <2>3, <2>19, <3>1
  <2> QED
    BY <2>1, <2>4, <2>5, <2>6, <2>7, <2>8, <2>9, <2>10, <2>11, <2>12, <2>13, <2>14, <2>15, <2>16, <2>17, <2>18, <2>19
<1>3. IdxWrap \in Nat \ {0}
  BY <1>1
<1> QED
  BY <1>1, <1>2, <1>3

\* The remainder of a number below twice the divisor, above its negative.
LEMMA NearRemainder ==
  ASSUME NEW p \in Nat \ {0}, NEW a \in Int, -p <= a, a < 2 * p
  PROVE  a % p = IF a < 0 THEN a + p ELSE IF a < p THEN a ELSE a - p
<1>1. a % p \in 0 .. p - 1
  OBVIOUS
<1>2. a = p * (a \div p) + (a % p)
  OBVIOUS
<1>3. PICK q \in Int : q = a \div p
  OBVIOUS
<1>4. q \in -1 .. 1
  <2>1. CASE q >= 2
    <3>1. p * q >= p * 2
      BY <2>1
    <3> QED
      BY <1>1, <1>2, <1>3, <3>1
  <2>2. CASE q <= -2
    <3>1. p * q <= p * (-2)
      BY <2>2
    <3> QED
      BY <1>1, <1>2, <1>3, <3>1
  <2> QED
    BY <2>1, <2>2
<1>5. CASE q = -1
  BY <1>1, <1>2, <1>3, <1>5
<1>6. CASE q = 0
  BY <1>1, <1>2, <1>3, <1>6
<1>7. CASE q = 1
  BY <1>1, <1>2, <1>3, <1>7
<1> QED
  BY <1>4, <1>5, <1>6, <1>7

\* How far an index is behind another.
LEMMA DeltaFacts ==
  ASSUME NEW a \in Idx, NEW b \in Idx
  PROVE  /\ Delta(a, b) = IF a <= b THEN b - a ELSE b - a + IdxWrap
         /\ Delta(a, b) \in 0 .. IdxWrap - 1
         /\ (a + Delta(a, b)) % IdxWrap = b
         /\ Delta(a, b) = 0 <=> a = b
<1>0. IdxWrap \in Nat \ {0} /\ a \in 0 .. IdxWrap - 1 /\ b \in 0 .. IdxWrap - 1
  BY WrapFacts DEF Idx
<1>1. Delta(a, b) = IF a <= b THEN b - a ELSE b - a + IdxWrap
  <2>1. b - a \in Int /\ -IdxWrap <= b - a /\ b - a < 2 * IdxWrap /\ b - a < IdxWrap
    BY <1>0
  <2>2. (b - a) % IdxWrap = IF b - a < 0 THEN (b - a) + IdxWrap
                            ELSE IF b - a < IdxWrap THEN b - a ELSE (b - a) - IdxWrap
    BY <1>0, <2>1, NearRemainder
  <2> QED
    BY <1>0, <2>1, <2>2 DEF Delta
<1>2. Delta(a, b) \in 0 .. IdxWrap - 1 /\ (Delta(a, b) = 0 <=> a = b)
  BY <1>0, <1>1
<1>3. (a + Delta(a, b)) % IdxWrap = b
  <2>1. PICK c \in Int : c = a + Delta(a, b)
    BY <1>0, <1>2
  <2>2. c = IF a <= b THEN b ELSE b + IdxWrap
    BY <1>0, <1>1, <2>1
  <2>3. -IdxWrap <= c /\ c < 2 * IdxWrap
    BY <1>0, <2>2
  <2>4. c % IdxWrap = IF c < 0 THEN c + IdxWrap ELSE IF c < IdxWrap THEN c ELSE c - IdxWrap
    BY <1>0, <2>3, NearRemainder
  <2>5. c % IdxWrap = b
    BY <1>0, <2>2, <2>4
  <2> QED
    BY <2>1, <2>5
<1> QED
  BY <1>1, <1>2, <1>3

\* An index some way on.
LEMMA Onward ==
  ASSUME NEW a \in Idx, NEW m \in 0 .. IdxWrap
  PROVE  /\ (a + m) % IdxWrap = IF a + m < IdxWrap THEN a + m ELSE a + m - IdxWrap
         /\ (a + m) % IdxWrap \in Idx
<1>0. IdxWrap \in Nat \ {0} /\ a \in 0 .. IdxWrap - 1
  BY WrapFacts DEF Idx
<1>1. PICK c \in Int : c = a + m
  BY <1>0
<1>2. -IdxWrap <= c /\ c < 2 * IdxWrap /\ c >= 0
  BY <1>0, <1>1
<1>3. c % IdxWrap = IF c < 0 THEN c + IdxWrap ELSE IF c < IdxWrap THEN c ELSE c - IdxWrap
  BY <1>0, <1>2, NearRemainder
<1>4. c % IdxWrap = IF c < IdxWrap THEN c ELSE c - IdxWrap
  BY <1>2, <1>3
<1>5. c % IdxWrap \in 0 .. IdxWrap - 1
  BY <1>0, <1>1, <1>4
<1>6. c % IdxWrap \in Idx
  BY <1>5 DEF Idx
<1>7. (a + m) % IdxWrap = c % IdxWrap
  BY <1>1
<1> QED
  BY <1>0, <1>1, <1>4, <1>6, <1>7

\* The window from an index to another, once its first m entries are gone.
LEMMA Advanced ==
  ASSUME NEW a \in Idx, NEW b \in Idx, NEW m \in 0 .. Delta(a, b), NEW n
  PROVE  /\ (a + m) % IdxWrap \in Idx
         /\ Delta((a + m) % IdxWrap, b) = Delta(a, b) - m
         /\ \A k \in 0 .. Delta(a, b) - m : At((a + m) % IdxWrap, k, n) = At(a, m + k, n)
<1>0. IdxWrap \in Nat \ {0} /\ a \in 0 .. IdxWrap - 1 /\ b \in 0 .. IdxWrap - 1
  BY WrapFacts DEF Idx
<1>1. /\ Delta(a, b) \in 0 .. IdxWrap - 1
      /\ Delta(a, b) = IF a <= b THEN b - a ELSE b - a + IdxWrap
  BY DeltaFacts
<1>2. m \in 0 .. IdxWrap /\ m <= Delta(a, b)
  BY <1>0, <1>1
<1>3. PICK c \in Idx : c = (a + m) % IdxWrap
  BY <1>2, Onward
<1>4. c = IF a + m < IdxWrap THEN a + m ELSE a + m - IdxWrap
  BY <1>2, <1>3, Onward
<1>5. Delta(c, b) = IF c <= b THEN b - c ELSE b - c + IdxWrap
  BY DeltaFacts
<1>6. Delta(c, b) = Delta(a, b) - m
  BY <1>0, <1>1, <1>2, <1>4, <1>5
<1>7. ASSUME NEW k \in 0 .. Delta(a, b) - m PROVE At(c, k, n) = At(a, m + k, n)
  <2>1. k \in 0 .. IdxWrap /\ m + k \in 0 .. IdxWrap /\ c \in 0 .. IdxWrap - 1
    BY <1>0, <1>1, <1>2, <1>3 DEF Idx
  <2>2. (c + k) % IdxWrap = IF c + k < IdxWrap THEN c + k ELSE c + k - IdxWrap
    BY <2>1, Onward
  <2>3. PICK j \in 0 .. IdxWrap : j = m + k
    BY <2>1
  <2>4. (a + j) % IdxWrap = IF a + j < IdxWrap THEN a + j ELSE a + j - IdxWrap
    BY Onward
  <2>5. (c + k) % IdxWrap = (a + j) % IdxWrap
    BY <1>0, <1>1, <1>4, <2>1, <2>2, <2>3, <2>4
  <2> QED
    BY <2>3, <2>5 DEF At
<1> QED
  BY <1>3, <1>6, <1>7

\* The window with one entry more.
LEMMA Extended ==
  ASSUME NEW a \in Idx, NEW b \in Idx, Delta(a, b) < IdxWrap - 1
  PROVE  Succ(b) \in Idx /\ Delta(a, Succ(b)) = Delta(a, b) + 1
<1>0. IdxWrap \in Nat \ {0} /\ a \in 0 .. IdxWrap - 1 /\ b \in 0 .. IdxWrap - 1 /\ 1 \in 0 .. IdxWrap
  BY WrapFacts DEF Idx
<1>1. /\ Delta(a, b) \in 0 .. IdxWrap - 1
      /\ Delta(a, b) = IF a <= b THEN b - a ELSE b - a + IdxWrap
  BY DeltaFacts
<1>2. PICK c \in Idx : c = Succ(b) /\ c = IF b + 1 < IdxWrap THEN b + 1 ELSE b + 1 - IdxWrap
  BY <1>0, Onward DEF Succ
<1>3. Delta(a, c) = IF a <= c THEN c - a ELSE c - a + IdxWrap
  BY DeltaFacts
<1>4. Delta(a, c) = Delta(a, b) + 1
  BY <1>0, <1>1, <1>2, <1>3
<1> QED
  BY <1>2, <1>4

\* In a ring of n entries, a window of at most n has each in an entry of its own.
LEMMA Apart ==
  ASSUME NEW n \in 1 .. DeviceSize, ChosenSize(n), NEW a \in Idx,
         NEW j \in 0 .. n - 1, NEW k \in 0 .. n - 1
  PROVE  /\ At(a, j, n) \in 0 .. n - 1
         /\ At(a, j, n) = At(a, k, n) => j = k
<1>0. IdxWrap \in Nat \ {0} /\ a \in 0 .. IdxWrap - 1 /\ DeviceSize < IdxWrap /\ DeviceSize \in Nat
  BY WrapFacts DEF Idx
<1>1. PICK m \in Nat \ {0} : IdxWrap = n * m
  BY WrapFacts
<1>n. n \in Nat \ {0} /\ n < IdxWrap
  BY <1>0
<1>2. ASSUME NEW i1 \in 0 .. n - 1
      PROVE  \E q \in Int : a + i1 = n * q + At(a, i1, n) /\ At(a, i1, n) \in 0 .. n - 1
  <2>1. i1 \in 0 .. IdxWrap
    BY <1>0, <1>n
  <2>2. PICK c \in Idx : c = (a + i1) % IdxWrap
                         /\ c = IF a + i1 < IdxWrap THEN a + i1 ELSE a + i1 - IdxWrap
    BY <2>1, Onward
  <2>3. c \in Nat
    BY <1>0, <2>2 DEF Idx
  <2>4. PICK q \in Int : q = c \div n
    BY <1>n, <2>3
  <2>5. c = n * q + (c % n) /\ c % n \in 0 .. n - 1
    BY <1>n, <2>3, <2>4
  <2>6. At(a, i1, n) = c % n
    BY <2>2 DEF At
  <2>7. CASE a + i1 < IdxWrap
    BY <2>2, <2>5, <2>6, <2>7
  <2>8. CASE ~(a + i1 < IdxWrap)
    <3>1. a + i1 = c + IdxWrap
      BY <1>0, <2>2, <2>8
    <3>2. n * (q + m) = n * q + n * m /\ q + m \in Int
      BY <1>n
    <3>3. a + i1 = n * (q + m) + (c % n)
      BY <1>0, <1>1, <1>n, <2>5, <3>1, <3>2
    <3> QED
      BY <2>5, <2>6, <3>2, <3>3
  <2> QED
    BY <2>7, <2>8
<1>3. PICK q \in Int : a + j = n * q + At(a, j, n) /\ At(a, j, n) \in 0 .. n - 1
  BY <1>2
<1>4. PICK r \in Int : a + k = n * r + At(a, k, n) /\ At(a, k, n) \in 0 .. n - 1
  BY <1>2
<1>5. ASSUME At(a, j, n) = At(a, k, n) PROVE j = k
  <2>1. PICK t \in 0 .. n - 1 : t = At(a, j, n)
    BY <1>3
  <2>2. n * q \in Int /\ n * r \in Int /\ n * (q - r) = n * q - n * r
    BY <1>n
  <2>3. j - k = n * (q - r)
    BY <1>0, <1>3, <1>4, <1>5, <2>1, <2>2
  <2>4. CASE q - r >= 1
    <3>1. n * (q - r) >= n
      BY <1>n, <2>4
    <3> QED
      BY <2>3, <3>1
  <2>5. CASE q - r <= -1
    <3>1. n * (q - r) <= -n
      BY <1>n, <2>5
    <3> QED
      BY <2>3, <3>1
  <2>6. CASE q = r
    <3>1. n * (q - r) = 0
      BY <1>n, <2>6
    <3> QED
      BY <2>3, <3>1
  <2> QED
    BY <2>4, <2>5, <2>6
<1> QED
  BY <1>3, <1>5

----
\* The control command.  What the device has not answered has the initial ack
\* byte, and "ok" is written only with the effect; nothing is observed before
\* "ok" has been read.
Unconfirmed == {"ctrl_wait", "ctrl_ack", "failed"}
CommandInv ==
  /\ ctl \in [ack : {AckInitial, "ok", "err"}, stage : {"published", "answered", "returned"},
              applied : BOOLEAN, matched : Nat]
  /\ ctl.stage = "published" => ctl.ack = AckInitial
  /\ ctl.ack = "ok" => ctl.applied
  /\ sample \in Observers /\ pc \notin Unconfirmed => ctl.ack = "ok"

\* Every step keeps this.
LEMMA NextCommandInv == ASSUME CommandInv, [Next]_vars PROVE CommandInv'
<1>0. /\ ctl \in [ack : {AckInitial, "ok", "err"}, stage : {"published", "answered", "returned"},
                  applied : BOOLEAN, matched : Nat]
      /\ ctl.stage = "published" => ctl.ack = AckInitial
      /\ ctl.ack = "ok" => ctl.applied
      /\ sample \in Observers /\ pc \notin Unconfirmed => ctl.ack = "ok"
  BY DEF CommandInv
<1>1. CASE AnswerCommand
  <2>1. PICK a \in {"ok", "err"} :
          ctl' = [ctl EXCEPT !.ack = a, !.stage = "answered", !.applied = (a = "ok")]
    BY <1>1 DEF AnswerCommand
  <2>2. ctl.stage = "published" /\ sample' = sample /\ pc' = pc
    BY <1>1 DEF AnswerCommand, sizes, driver
  <2>3. /\ ctl' \in [ack : {AckInitial, "ok", "err"}, stage : {"published", "answered", "returned"},
                     applied : BOOLEAN, matched : Nat]
        /\ ctl'.stage = "answered" /\ ctl'.ack = a /\ (ctl'.applied <=> a = "ok")
    BY <1>0, <2>1
  <2>4. AckInitial \notin {"ok", "err"}
    BY DEF AckInitial
  <2> QED
    BY <1>0, <2>2, <2>3, <2>4 DEF CommandInv
<1>2. CASE ReturnCommand
  <2>1. ctl' = [ctl EXCEPT !.stage = "returned"] /\ sample' = sample /\ pc' = pc
    BY <1>2 DEF ReturnCommand, sizes, driver
  <2>2. /\ ctl' \in [ack : {AckInitial, "ok", "err"}, stage : {"published", "answered", "returned"},
                     applied : BOOLEAN, matched : Nat]
        /\ ctl'.stage = "returned" /\ ctl'.ack = ctl.ack /\ ctl'.applied = ctl.applied
    BY <1>0, <2>1
  <2> QED
    BY <1>0, <2>1, <2>2 DEF CommandInv
<1>3. CASE CountPacket
  <2>1. /\ ctl' = [ctl EXCEPT !.matched = @ + 1] /\ sample' = sample
        /\ pc = "rx_entry" /\ pc' = "recycle"
    BY <1>3 DEF CountPacket, sizes, Matches
  <2>2. /\ ctl' \in [ack : {AckInitial, "ok", "err"}, stage : {"published", "answered", "returned"},
                     applied : BOOLEAN, matched : Nat]
        /\ ctl'.stage = ctl.stage /\ ctl'.ack = ctl.ack /\ ctl'.applied = ctl.applied
    BY <1>0, <2>1
  <2> QED
    BY <1>0, <2>1, <2>2 DEF CommandInv, Unconfirmed
<1>4. CASE ReadAck
  <2>1. /\ UNCHANGED <<ctl, sample>>
        /\ sample \in Observers /\ pc' \notin Unconfirmed => ctl.ack = "ok"
    BY <1>4 DEF ReadAck, rings, fixed, Observers, Unconfirmed
  <2> QED
    BY <1>0, <2>1 DEF CommandInv
<1>5. ASSUME UNCHANGED <<ctl, sample>>, pc \in Unconfirmed => pc' \in Unconfirmed
      PROVE  CommandInv'
  BY <1>0, <1>5 DEF CommandInv
<1>6. CASE \/ WaitForAck \/ LoopTop \/ ReadRxIdx \/ SkipOutsideId \/ SkipPacket
           \/ EchoPacket \/ EchoOrWait \/ AwaitTxSlot \/ KickTx \/ Recycle \/ KickRx \/ EndRx
           \/ Poll \/ PollTimeout \/ TxDrain \/ TxPoll \/ TxPollTimeout
  <2>1. UNCHANGED <<ctl, sample>> /\ (pc = "ctrl_wait" => pc' = "ctrl_ack")
        /\ pc \notin {"ctrl_ack", "failed"}
    BY <1>6 DEF WaitForAck, LoopTop, ReadRxIdx, SkipOutsideId, SkipPacket,
           EchoPacket, EchoOrWait, AwaitTxSlot, KickTx, Recycle, KickRx, EndRx,
           Poll, PollTimeout, TxDrain, TxPoll, TxPollTimeout, rings, fixed, Matches
  <2> QED
    BY <1>5, <2>1 DEF Unconfirmed
<1>7. CASE \/ DeadlinePasses \/ \E q \in Queues : Fetch(q) \/ Sleep(q) \/ DeliverMsi(q)
           \/ \E d \in Pool("rx") : Receive(d)
           \/ \E d \in Pool("tx") : Transmit(d)
           \/ UNCHANGED vars
  <2>1. UNCHANGED <<ctl, sample, pc>>
    BY <1>7 DEF DeadlinePasses, Fetch, Sleep, DeliverMsi, Receive, Transmit, vars, rings, fixed, driver
  <2> QED
    BY <1>5, <2>1
<1> QED
  BY <1>1, <1>2, <1>3, <1>4, <1>6, <1>7 DEF Next, DriverStep

\* 28 to 30 observe only under a command that has been executed: an ack byte that
\* is read after the deadline is never taken for consent.
THEOREM AckAlwaysBelieved == Spec => []AckBelieved
<1>1. Init => CommandInv
  <2> SUFFICES ASSUME Init PROVE CommandInv
    OBVIOUS
  <2>1. /\ ctl = [ack |-> AckInitial, stage |-> "published", applied |-> FALSE, matched |-> 0]
        /\ sample \in Observers => pc = "ctrl_wait"
    BY DEF Init, PublishedCommand, ControlSamples
  <2>2. AckInitial # "ok"
    BY DEF AckInitial
  <2> QED
    BY <2>1, <2>2 DEF CommandInv, Unconfirmed
<1>2. CommandInv => AckBelieved
  BY DEF CommandInv, AckBelieved, Unconfirmed
<1> QED
  BY <1>1, <1>2, NextCommandInv, PTL DEF Spec

----
\* Notifications.  The invariant is NoMissedNotify itself, once the indices are
\* known to be per queue.
NotifyInv ==
  /\ fetched \in [Queues -> Idx] /\ availIdx \in [Queues -> Idx] /\ kicked \in [Queues -> BOOLEAN]
  /\ NoMissedNotify

\* Publishing an entry changes the index of one queue.
LEMMA Published ==
  ASSUME availIdx \in [Queues -> Idx], NEW q \in Queues, NEW d, MakeAvailable(q, d)
  PROVE  availIdx' \in [Queues -> Idx] /\ \A r \in Queues \ {q} : availIdx'[r] = availIdx[r]
<1>1. Succ(availIdx[q]) \in Idx
  <2>1. 1 \in 0 .. IdxWrap
    BY WrapFacts
  <2> QED
    BY <2>1, Onward DEF Succ
<1> QED
  BY <1>1 DEF MakeAvailable

\* Every step keeps it.
LEMMA NextNotifyInv == ASSUME NotifyInv, [Next]_vars PROVE NotifyInv'
<1>0. /\ fetched \in [Queues -> Idx] /\ availIdx \in [Queues -> Idx] /\ kicked \in [Queues -> BOOLEAN]
      /\ fetched["rx"] # availIdx["rx"] => kicked["rx"] \/ pc \in {"kick_rx", "kick_drop"}
      /\ fetched["tx"] # availIdx["tx"] => kicked["tx"] \/ pc = "kick_tx"
  BY DEF NotifyInv, NoMissedNotify
<1>q. "rx" \in Queues /\ "tx" \in Queues /\ \A q \in Queues : q = "rx" \/ q = "tx"
  BY DEF Queues
<1>1. ASSUME UNCHANGED <<fetched, availIdx, kicked>>,
             pc \in {"kick_rx", "kick_drop", "kick_tx"} => pc' = pc
      PROVE  NotifyInv'
  BY <1>0, <1>1 DEF NotifyInv, NoMissedNotify
<1>2. CASE \/ WaitForAck \/ ReadAck \/ LoopTop \/ ReadRxIdx \/ SkipOutsideId \/ SkipPacket
           \/ CountPacket \/ EndRx \/ Poll \/ PollTimeout \/ TxDrain \/ TxPoll \/ TxPollTimeout
  <2>1. UNCHANGED <<fetched, availIdx, kicked>> /\ pc \notin {"kick_rx", "kick_drop", "kick_tx"}
    BY <1>2 DEF WaitForAck, ReadAck, LoopTop, ReadRxIdx, SkipOutsideId, SkipPacket, CountPacket, EndRx,
           Poll, PollTimeout, TxDrain, TxPoll, TxPollTimeout, rings, device, Matches
  <2> QED
    BY <1>1, <2>1
<1>3. CASE EchoPacket \/ EchoOrWait \/ AwaitTxSlot
  <2>1. UNCHANGED <<fetched, kicked>> /\ pc \in {"rx_entry", "tx_wait"}
    BY <1>3 DEF EchoPacket, EchoOrWait, AwaitTxSlot, device, Matches
  <2>2. CASE \E s, busy : AnswerIn(s, busy)
    <3>1. PICK s, busy : AnswerIn(s, busy)
      BY <2>2
    <3>2. MakeAvailable("tx", s) /\ pc' = "kick_tx"
      BY <3>1 DEF AnswerIn
    <3>3. availIdx' \in [Queues -> Idx] /\ availIdx'["rx"] = availIdx["rx"]
      BY <1>0, <1>q, <3>2, Published
    <3> QED
      BY <1>0, <2>1, <3>2, <3>3 DEF NotifyInv, NoMissedNotify
  <2>3. CASE availIdx' = availIdx
    BY <1>1, <2>1, <2>3
  <2> QED
    BY <1>3, <2>2, <2>3 DEF EchoPacket, EchoOrWait, AwaitTxSlot, AnswerOr
<1>4. CASE Recycle
  <2>1. /\ UNCHANGED <<fetched, kicked>> /\ pc \in {"recycle", "drop"}
        /\ MakeAvailable("rx", rxid) /\ pc' \in {"kick_rx", "kick_drop"}
    BY <1>4 DEF Recycle, device
  <2>2. availIdx' \in [Queues -> Idx] /\ availIdx'["tx"] = availIdx["tx"]
    BY <1>0, <1>q, <2>1, Published
  <2> QED
    BY <1>0, <2>1, <2>2 DEF NotifyInv, NoMissedNotify
<1>5. CASE KickTx
  <2>1. /\ kicked' = [kicked EXCEPT !["tx"] = TRUE] /\ UNCHANGED <<fetched, availIdx>>
        /\ pc = "kick_tx" /\ pc' = "recycle"
    BY <1>5 DEF KickTx, rings
  <2>2. kicked' \in [Queues -> BOOLEAN] /\ kicked'["tx"] = TRUE /\ kicked'["rx"] = kicked["rx"]
    BY <1>0, <1>q, <2>1
  <2> QED
    BY <1>0, <2>1, <2>2 DEF NotifyInv, NoMissedNotify
<1>6. CASE KickRx
  <2>1. /\ kicked' = [kicked EXCEPT !["rx"] = TRUE] /\ UNCHANGED <<fetched, availIdx>>
        /\ pc \in {"kick_rx", "kick_drop"}
    BY <1>6 DEF KickRx, rings
  <2>2. kicked' \in [Queues -> BOOLEAN] /\ kicked'["rx"] = TRUE /\ kicked'["tx"] = kicked["tx"]
    BY <1>0, <1>q, <2>1
  <2> QED
    BY <1>0, <2>1, <2>2 DEF NotifyInv, NoMissedNotify
<1>7. ASSUME NEW q \in Queues, Fetch(q) PROVE NotifyInv'
  <2>1. /\ kicked[q] /\ UNCHANGED <<kicked, availIdx, pc>>
        /\ fetched' = [fetched EXCEPT ![q] = Succ(@)]
    BY <1>7 DEF Fetch, rings, driver
  <2>2. Succ(fetched[q]) \in Idx
    <3>1. 1 \in 0 .. IdxWrap
      BY WrapFacts
    <3> QED
      BY <1>0, <3>1, Onward DEF Succ
  <2>3. fetched' \in [Queues -> Idx] /\ \A r \in Queues \ {q} : fetched'[r] = fetched[r]
    BY <1>0, <2>1, <2>2
  <2> QED
    BY <1>0, <1>q, <2>1, <2>3 DEF NotifyInv, NoMissedNotify
<1>8. ASSUME NEW q \in Queues, Sleep(q) PROVE NotifyInv'
  <2>1. /\ fetched[q] = availIdx[q] /\ UNCHANGED <<fetched, availIdx, pc>>
        /\ kicked' = [kicked EXCEPT ![q] = FALSE]
    BY <1>8 DEF Sleep, rings, driver
  <2>2. kicked' \in [Queues -> BOOLEAN] /\ \A r \in Queues \ {q} : kicked'[r] = kicked[r]
    BY <1>0, <2>1
  <2> QED
    BY <1>0, <1>q, <2>1, <2>2 DEF NotifyInv, NoMissedNotify
<1>9. CASE \/ DeadlinePasses \/ AnswerCommand \/ ReturnCommand \/ \E q \in Queues : DeliverMsi(q)
           \/ \E d \in Pool("rx") : Receive(d)
           \/ \E d \in Pool("tx") : Transmit(d)
           \/ UNCHANGED vars
  <2>1. UNCHANGED <<fetched, availIdx, kicked, pc>>
    BY <1>9 DEF DeadlinePasses, AnswerCommand, ReturnCommand, DeliverMsi, Receive, Transmit, vars, rings,
           device, driver
  <2> QED
    BY <1>1, <2>1
<1> QED
  BY <1>2, <1>3, <1>4, <1>5, <1>6, <1>7, <1>8, <1>9 DEF Next, DriverStep

\* No lost notification: a device that sleeps has nothing to fetch, but for an
\* entry whose notify the driver is about to write.
THEOREM NotifyAlwaysWritten == Spec => []NoMissedNotify
<1>1. Init => NotifyInv
  <2> SUFFICES ASSUME Init PROVE NotifyInv
    OBVIOUS
  <2>1. IdxWrap \in Nat \ {0} /\ RxBuffers \in Nat
    BY WrapFacts, PoolAssumption
  <2>2. RxBuffers % IdxWrap \in Idx /\ 0 \in Idx
    BY <2>1 DEF Idx
  <2>3. /\ availIdx = [q \in Queues |-> IF q = "rx" THEN RxBuffers % IdxWrap ELSE 0]
        /\ fetched = [q \in Queues |-> 0] /\ kicked = [q \in Queues |-> q = "rx"]
    BY DEF Init
  <2> QED
    BY <2>2, <2>3 DEF NotifyInv, NoMissedNotify, Queues
<1>2. NotifyInv => NoMissedNotify
  BY DEF NotifyInv
<1> QED
  BY <1>1, <1>2, NextNotifyInv, PTL DEF Spec

----
\* Interrupts (26).  What the driver has not looked at since it last drained the
\* eventfds is announced by one of them or by an interrupt on its way: at the head
\* of the loop nothing is claimed, after the TX index has been read the TX queue
\* is, and after the RX index has been read the RX queue too.
Announced == \E q \in Queues : evt[q] \/ msi[q]
Body == {"rx_entry", "tx_wait", "kick_tx", "recycle", "drop", "kick_rx", "kick_drop"}
IrqInv ==
  /\ evt \in [Queues -> BOOLEAN] /\ msi \in [Queues -> BOOLEAN]
  /\ last \in [Queues -> Idx] /\ usedIdx \in [Queues -> Idx]
  /\ pc \in {"poll", "tx_poll"} => ByInterrupt
  /\ ByInterrupt =>
       /\ pc \in Body \cup {"rx_idx", "poll", "tx_poll"} /\ AnyTxUsed => Announced
       /\ pc \in Body /\ cur # usedIdx["rx"] => Announced
       /\ pc = "poll" /\ last["rx"] # usedIdx["rx"] => Announced

\* Every step keeps this.
LEMMA NextIrqInv == ASSUME IrqInv, [Next]_vars, cur \in Idx PROVE IrqInv'
<1>0. /\ evt \in [Queues -> BOOLEAN] /\ msi \in [Queues -> BOOLEAN]
      /\ last \in [Queues -> Idx] /\ usedIdx \in [Queues -> Idx]
      /\ pc \in {"poll", "tx_poll"} => ByInterrupt
  BY DEF IrqInv
<1>1. ASSUME ByInterrupt
      PROVE  /\ pc \in Body \cup {"rx_idx", "poll", "tx_poll"} /\ last["tx"] # usedIdx["tx"] => Announced
             /\ pc \in Body /\ cur # usedIdx["rx"] => Announced
             /\ pc = "poll" /\ last["rx"] # usedIdx["rx"] => Announced
  BY <1>1 DEF IrqInv, AnyTxUsed
<1>q. "rx" \in Queues /\ "tx" \in Queues /\ \A q \in Queues : q = "rx" \/ q = "tx"
  BY DEF Queues
\* A step that leaves the interrupts alone.
<1>2. ASSUME UNCHANGED <<sample, evt, msi, usedIdx>>, last' \in [Queues -> Idx],
             pc' \in {"poll", "tx_poll"} => ByInterrupt,
             ByInterrupt /\ pc' \in Body \cup {"rx_idx", "poll", "tx_poll"} /\ last'["tx"] # usedIdx["tx"]
               => Announced,
             ByInterrupt /\ pc' \in Body /\ cur' # usedIdx["rx"] => Announced,
             ByInterrupt /\ pc' = "poll" /\ last'["rx"] # usedIdx["rx"] => Announced
      PROVE  IrqInv'
  <2>1. (ByInterrupt' <=> ByInterrupt) /\ (Announced' <=> Announced)
    BY <1>2 DEF ByInterrupt, Announced
  <2> QED
    BY <1>0, <1>2, <2>1 DEF IrqInv, AnyTxUsed
<1>3. CASE WaitForAck \/ ReadAck \/ PollTimeout \/ TxPollTimeout
  <2>1. /\ UNCHANGED <<sample, evt, msi, usedIdx, last>>
        /\ pc' \in {"ctrl_ack", "done", "top", "failed", "tx_drain"}
    BY <1>3 DEF WaitForAck, ReadAck, PollTimeout, TxPollTimeout, rings, fixed, device
  <2>2. pc' \notin Body \cup {"rx_idx", "poll", "tx_poll"}
    BY <2>1 DEF Body
  <2> QED
    BY <1>0, <1>2, <2>1, <2>2
<1>4. CASE LoopTop
  <2>1. UNCHANGED <<sample, evt, msi, usedIdx>>
    BY <1>4 DEF LoopTop, rings, fixed, device
  <2>2. \/ pc' \in {"done", "tx_drain"} /\ last' = last
        \/ pc' = "rx_idx" /\ last' = [last EXCEPT !["tx"] = usedIdx["tx"]]
    BY <1>4 DEF LoopTop, AfterLoop
  <2>3. last' \in [Queues -> Idx] /\ (pc' = "rx_idx" => last'["tx"] = usedIdx["tx"])
    BY <1>0, <1>q, <2>2
  <2>4. pc' \notin Body \cup {"poll", "tx_poll"}
    BY <2>2 DEF Body
  <2>5. pc' \in Body \cup {"rx_idx", "poll", "tx_poll"} => pc' = "rx_idx"
    BY <2>4
  <2> QED
    BY <1>2, <2>1, <2>3, <2>4, <2>5
<1>5. CASE ReadRxIdx
  <2>1. /\ UNCHANGED <<sample, evt, msi, usedIdx, last>> /\ pc = "rx_idx" /\ pc' = "rx_entry"
        /\ cur' = usedIdx["rx"]
    BY <1>5 DEF ReadRxIdx, rings, fixed, device
  <2> QED
    BY <1>0, <1>1, <1>2, <2>1
<1>6. CASE SkipOutsideId \/ SkipPacket \/ CountPacket \/ EchoOrWait \/ KickTx \/ Recycle
  <2>1. UNCHANGED <<sample, evt, msi, usedIdx, last, cur>>
    BY <1>6 DEF SkipOutsideId, SkipPacket, CountPacket, EchoOrWait, KickTx, Recycle, rings, fixed, device, sizes
  <2>2. pc \in Body /\ pc' \in Body /\ pc' # "poll"
    BY <1>6 DEF SkipOutsideId, SkipPacket, CountPacket, EchoOrWait, KickTx, Recycle, Matches, Body, AnswerOr,
                AnswerIn
  <2>3. pc' \notin {"poll", "tx_poll"}
    BY <2>2 DEF Body
  <2> QED
    BY <1>0, <1>1, <1>2, <2>1, <2>2, <2>3
<1>7. CASE EchoPacket \/ AwaitTxSlot
  <2>1. UNCHANGED <<sample, evt, msi, usedIdx, cur>>
    BY <1>7 DEF EchoPacket, AwaitTxSlot, fixed, device
  <2>2. pc \in Body /\ pc' \in Body
    BY <1>7 DEF EchoPacket, AwaitTxSlot, Matches, Body, AnswerOr, AnswerIn
  <2>3. last' = last \/ last' = [last EXCEPT !["tx"] = usedIdx["tx"]]
    BY <1>7 DEF EchoPacket, AwaitTxSlot, ConsumeTx
  <2>4. last' \in [Queues -> Idx] /\ (last'["tx"] = last["tx"] \/ last'["tx"] = usedIdx["tx"])
    BY <1>0, <1>q, <2>3
  <2>5. pc' \notin {"poll", "tx_poll"}
    BY <2>2 DEF Body
  <2> QED
    BY <1>1, <1>2, <2>1, <2>2, <2>4, <2>5
<1>8. CASE KickRx
  <2>1. UNCHANGED <<sample, evt, msi, usedIdx>> /\ pc \in Body
    BY <1>8 DEF KickRx, rings, fixed, Body
  <2>2. \/ pc' \in {"done", "tx_drain"} /\ last' = [last EXCEPT !["rx"] = cur]
        \/ pc' = "rx_entry" /\ UNCHANGED <<last, cur>>
    BY <1>8 DEF KickRx, AfterLoop
  <2>3. CASE pc' \in {"done", "tx_drain"} /\ last' = [last EXCEPT !["rx"] = cur]
    <3>1. last' \in [Queues -> Idx]
      BY <1>0, <1>q, <2>3
    <3>2. pc' \notin Body \cup {"rx_idx", "poll", "tx_poll"}
      BY <2>3 DEF Body
    <3> QED
      BY <1>2, <2>1, <3>1, <3>2
  <2>4. CASE pc' = "rx_entry" /\ UNCHANGED <<last, cur>>
    BY <1>0, <1>1, <1>2, <2>1, <2>4
  <2> QED
    BY <2>2, <2>3, <2>4
<1>9. CASE EndRx
  <2>1. /\ UNCHANGED <<sample, evt, msi, usedIdx>> /\ pc = "rx_entry"
        /\ last' = [last EXCEPT !["rx"] = cur]
        /\ pc' = "top" \/ (pc' = "poll" /\ ByInterrupt)
    BY <1>9 DEF EndRx, rings, fixed, device, NextTurn
  <2>2. last' \in [Queues -> Idx] /\ last'["tx"] = last["tx"] /\ last'["rx"] = cur
    BY <1>0, <1>q, <2>1
  <2>3. pc \in Body /\ pc' \notin Body
    BY <2>1 DEF Body
  <2> QED
    BY <1>1, <1>2, <2>1, <2>2, <2>3
<1>10. CASE Poll \/ TxPoll
  <2>1. /\ UNCHANGED <<sample, msi, usedIdx, last>> /\ pc' \in {"top", "tx_drain"}
        /\ evt' = [q \in Queues |-> FALSE]
    BY <1>10 DEF Poll, TxPoll, PollReturns, rings, fixed, device
  <2>2. evt' \in [Queues -> BOOLEAN]
    BY <2>1
  <2>3. pc' \notin Body \cup {"rx_idx", "poll", "tx_poll"}
    BY <2>1 DEF Body
  <2> QED
    BY <1>0, <2>1, <2>2, <2>3 DEF IrqInv
<1>11. CASE TxDrain
  <2>1. UNCHANGED <<sample, evt, msi, usedIdx>>
    BY <1>11 DEF TxDrain, rings, fixed, device
  <2>2. \/ pc' \in {"done", "tx_drain"} /\ (last' = last \/ last' = [last EXCEPT !["tx"] = usedIdx["tx"]])
        \/ pc' = "tx_poll" /\ ByInterrupt /\ last' = [last EXCEPT !["tx"] = usedIdx["tx"]]
    BY <1>11 DEF TxDrain
  <2>3. last' \in [Queues -> Idx] /\ (pc' = "tx_poll" => last'["tx"] = usedIdx["tx"])
    BY <1>0, <1>q, <2>2
  <2>4. pc' \notin Body \cup {"rx_idx", "poll"}
    BY <2>2 DEF Body
  <2> QED
    BY <1>2, <2>1, <2>2, <2>3, <2>4
<1>12. CASE \/ DeadlinePasses \/ AnswerCommand \/ ReturnCommand \/ \E q \in Queues : Fetch(q) \/ Sleep(q)
            \/ UNCHANGED vars
  <2>1. UNCHANGED <<sample, evt, msi, usedIdx, last, cur, pc>>
    BY <1>12 DEF DeadlinePasses, AnswerCommand, ReturnCommand, Fetch, Sleep, vars, rings, fixed, sizes,
           device, driver
  <2> QED
    BY <1>0, <1>1, <1>2, <2>1
<1>13. ASSUME NEW q \in Queues, DeliverMsi(q) PROVE IrqInv'
  <2>1. /\ msi' = [msi EXCEPT ![q] = FALSE] /\ evt' = [evt EXCEPT ![Eventfd(q)] = TRUE]
        /\ UNCHANGED <<sample, usedIdx, last, cur, pc>>
    BY <1>13 DEF DeliverMsi, rings, fixed, driver
  <2>2. Eventfd(q) \in Queues
    BY <1>q DEF Eventfd
  <2>3. PICK f \in Queues : f = Eventfd(q)
    BY <2>2
  <2>4. msi' \in [Queues -> BOOLEAN] /\ evt' \in [Queues -> BOOLEAN] /\ evt'[f] = TRUE
    BY <1>0, <2>1, <2>3
  <2>5. Announced' /\ (ByInterrupt' <=> ByInterrupt)
    BY <2>1, <2>4 DEF Announced, ByInterrupt
  <2> QED
    BY <1>0, <2>1, <2>4, <2>5 DEF IrqInv
<1>14. ASSUME NEW q \in Queues, NEW d, ReturnUsed(q, d), UNCHANGED <<sample, evt, last, cur, pc>>
       PROVE  IrqInv'
  <2>1. usedIdx' = [usedIdx EXCEPT ![q] = Succ(@)] /\ msi' = [msi EXCEPT ![q] = ByInterrupt]
    BY <1>14 DEF ReturnUsed
  <2>2. Succ(usedIdx[q]) \in Idx
    <3>1. 1 \in 0 .. IdxWrap
      BY WrapFacts
    <3> QED
      BY <1>0, <3>1, Onward DEF Succ
  <2>3. ByInterrupt \in BOOLEAN /\ (ByInterrupt' <=> ByInterrupt)
    BY <1>14 DEF ByInterrupt
  <2>4. usedIdx' \in [Queues -> Idx] /\ msi' \in [Queues -> BOOLEAN] /\ msi'[q] = ByInterrupt
    BY <1>0, <2>1, <2>2, <2>3
  <2>5. ByInterrupt => Announced'
    BY <2>4 DEF Announced
  <2> QED
    BY <1>0, <1>14, <2>3, <2>4, <2>5 DEF IrqInv
<1>15. CASE (\E d \in Pool("rx") : Receive(d)) \/ (\E d \in Pool("tx") : Transmit(d))
  <2>1. UNCHANGED <<sample, evt, last, cur, pc>> /\ \E q \in Queues : \E d : ReturnUsed(q, d)
    BY <1>15, <1>q DEF Receive, Transmit, fixed, driver
  <2> QED
    BY <1>14, <2>1
<1> QED
  BY <1>3, <1>4, <1>5, <1>6, <1>7, <1>8, <1>9, <1>10, <1>11, <1>12, <1>13, <1>15 DEF Next, DriverStep

\* current_rx_used is an index that was read, or 0 outside the loop body.
LEMMA NextCur == ASSUME IrqInv, cur \in Idx, [Next]_vars PROVE cur' \in Idx
<1>1. cur' \in {cur, 0, usedIdx["rx"]}
  <2>1. CASE DriverStep
    BY <2>1 DEF DriverStep, WaitForAck, ReadAck, LoopTop, ReadRxIdx, SkipOutsideId, SkipPacket, EchoPacket,
           EchoOrWait, AwaitTxSlot, CountPacket, KickTx, Recycle, KickRx, EndRx, Poll, PollTimeout,
           TxDrain, TxPoll, TxPollTimeout
  <2>2. CASE ~DriverStep
    BY <2>2 DEF Next, DeadlinePasses, AnswerCommand, ReturnCommand, Fetch, Sleep,
           DeliverMsi, Receive, Transmit, vars, driver
  <2> QED
    BY <2>1, <2>2
<1>2. 0 \in Idx
  BY WrapFacts DEF Idx
<1>3. usedIdx["rx"] \in Idx
  BY DEF IrqInv, Queues
<1> QED
  BY <1>1, <1>2, <1>3

\* No lost interrupt: a driver that blocks in poll() although the device has
\* returned something it has not seen is going to be woken.
THEOREM InterruptNeverMissed == Spec => []NoMissedInterrupt
<1> DEFINE Inv == IrqInv /\ cur \in Idx
<1>1. Init => Inv
  <2> SUFFICES ASSUME Init PROVE IrqInv /\ cur \in Idx
    OBVIOUS
  <2>1. 0 \in Idx
    BY WrapFacts DEF Idx
  <2>2. /\ msi = [q \in Queues |-> FALSE] /\ evt = [q \in Queues |-> FALSE] /\ cur = 0
        /\ usedIdx = [q \in Queues |-> 0] /\ last = [q \in Queues |-> 0]
        /\ pc \in {"ctrl_wait", "top"}
    BY DEF Init
  <2>3. pc \notin Body \cup {"rx_idx", "poll", "tx_poll"}
    BY <2>2 DEF Body
  <2> QED
    BY <2>1, <2>2, <2>3 DEF IrqInv
<1>2. Inv /\ [Next]_vars => Inv'
  BY NextIrqInv, NextCur
<1>3. Inv => NoMissedInterrupt
  BY DEF IrqInv, NoMissedInterrupt, Announced
<1> HIDE DEF Inv
<1> QED
  BY <1>1, <1>2, <1>3, PTL DEF Spec

----
\* Descriptors.  Which are where, in any of the two queues: the a entries A of the
\* available ring that wait to be fetched, the u entries U of the used ring that
\* wait to be handled, the set H in the driver's hands and the set D the device
\* has.  They are all in F, the busy ones of the pool P; none is in two places,
\* and there are no more entries than busy descriptors (the device may have
\* returned an id outside the pool for one of them).
Owned(P, F, a, A, u, U, H, D) ==
  /\ F \subseteq P /\ D \subseteq F /\ H \subseteq F /\ D \cap H = {}
  /\ a + Cardinality(D) + u + Cardinality(H) <= Cardinality(F)
  /\ \A j \in 0 .. a - 1 : A[j] \in F /\ A[j] \notin D /\ A[j] \notin H
  /\ \A k \in 0 .. u - 1 : (U[k] \in P => U[k] \in F) /\ U[k] \notin D /\ U[k] \notin H
  /\ \A j, k \in 0 .. a - 1 : A[j] = A[k] => j = k
  /\ \A j, k \in 0 .. u - 1 : U[j] = U[k] /\ U[j] \in P => j = k
  /\ \A j \in 0 .. a - 1, k \in 0 .. u - 1 : A[j] # U[k]

\* All of the pool is somewhere.
Whole(P, a, A, u, U, H, D) ==
  /\ \A k \in 0 .. u - 1 : U[k] \in P
  /\ \A d \in P : \/ \E j \in 0 .. a - 1 : A[j] = d
                  \/ \E k \in 0 .. u - 1 : U[k] = d
                  \/ d \in H \/ d \in D

\* The entries of a ring of n from one index to another.
View(ring, from, to, n) == [k \in 0 .. Delta(from, to) - 1 |-> ring[At(from, k, n)]]

AvailLen(q) == Delta(fetched[q], availIdx[q])
AvailView(q) == View(avail[q], fetched[q], availIdx[q], size[q])
UsedLen(q) == Delta(NextUsed(q), usedIdx[q])
UsedView(q) == View(used[q], NextUsed(q), usedIdx[q], size[q])
Hand(q) == {d \in Pool(q) : InHand(q, d)}
Busy(q) == IF q = "rx" THEN Pool("rx") ELSE in_flight

OwnedIn(q) == Owned(Pool(q), Busy(q), AvailLen(q), AvailView(q), UsedLen(q), UsedView(q),
                    Hand(q), held[q])

\* There are rings, and descriptors of the device, for each queue.
PerQueue == DOMAIN avail = Queues /\ DOMAIN used = Queues /\ DOMAIN held = Queues

\* One size for both queues, with room for both pools.
SizeInv == \E n \in 1 .. DeviceSize : /\ ChosenSize(n) /\ RxBuffers <= n /\ TxBuffers <= n
                                      /\ size = [q \in Queues |-> n]

\* The entries the loop body has still to handle are there.
BodyInv == pc \in Body => /\ Handled("rx") <= RxCount /\ RxCount <= size["rx"]
                         /\ RxCount - Handled("rx") <= UsedLen("rx")

\* An observer that goes on has not yet counted enough packets.
Counting == {"ctrl_wait", "ctrl_ack", "top", "rx_idx", "rx_entry", "poll"}
CountInv == sample \in Observers /\ pc \in Counting => ctl.matched < MaxPackets

OwnInv == TypeOK /\ PerQueue /\ SizeInv /\ BodyInv /\ CountInv /\ \A q \in Queues : OwnedIn(q)

\* What a step does to the places of the descriptors of a queue: nothing, or the device
\* fetches one, or it returns d under the id v, or the driver goes on by m entries of the
\* used ring, or it gives the RX descriptor in its hands back.
SameAvail(q) == AvailLen(q)' = AvailLen(q) /\ AvailView(q)' = AvailView(q)
SameUsed(q) == UsedLen(q)' = UsedLen(q) /\ UsedView(q)' = UsedView(q)
Stays(q) == SameAvail(q) /\ SameUsed(q) /\ Hand(q)' = Hand(q) /\ held'[q] = held[q]
Fetches(q) ==
  /\ AvailLen(q) > 0 /\ AvailLen(q)' = AvailLen(q) - 1
  /\ \A k \in 0 .. AvailLen(q) - 2 : AvailView(q)'[k] = AvailView(q)[k + 1]
  /\ held'[q] = held[q] \cup {AvailView(q)[0]}
  /\ SameUsed(q) /\ Hand(q)' = Hand(q)
Returns(q, d, v) ==
  /\ UsedLen(q)' = UsedLen(q) + 1
  /\ \A k \in 0 .. UsedLen(q) - 1 : UsedView(q)'[k] = UsedView(q)[k]
  /\ UsedView(q)'[UsedLen(q)] = v
  /\ held'[q] = held[q] \ {d}
  /\ SameAvail(q) /\ Hand(q)' = Hand(q)
GoesOn(m) ==
  /\ UsedLen("rx")' = UsedLen("rx") - m
  /\ \A k \in 0 .. UsedLen("rx") - m - 1 : UsedView("rx")'[k] = UsedView("rx")[k + m]
  /\ SameAvail("rx") /\ held'["rx"] = held["rx"]
Gives ==
  /\ AvailLen("rx")' = AvailLen("rx") + 1
  /\ \A k \in 0 .. AvailLen("rx") - 1 : AvailView("rx")'[k] = AvailView("rx")[k]
  /\ AvailView("rx")'[AvailLen("rx")] = rxid
  /\ Hand("rx") = {rxid} /\ Hand("rx")' = {}
  /\ SameUsed("rx") /\ held'["rx"] = held["rx"]

\* What a step does to those of the RX queue.  The device may return an id outside the
\* pool, but then it has misreported; entries are only passed over where the loop is left.
RxMoves ==
  \/ Stays("rx") \/ Fetches("rx") \/ Gives
  \/ \E d \in Pool("rx") :
       Receive(d) /\ \E v : Returns("rx", d, v) /\ (v = d \/ (misreported' /\ v \notin Pool("rx")))
  \/ /\ pc = "rx_entry" /\ i < RxCount /\ GoesOn(1)
     /\ Hand("rx")' = {RxEntryId} \cap Pool("rx")
  \/ LoopLeft' /\ \E m \in 0 .. UsedLen("rx") : GoesOn(m) /\ Hand("rx")' = Hand("rx")

\* As long as the device tells the truth no RX descriptor is lost.
NothingLost == ~misreported /\ ~LoopLeft =>
  Whole(Pool("rx"), AvailLen("rx"), AvailView("rx"), UsedLen("rx"), UsedView("rx"),
        Hand("rx"), held["rx"])

\* The packets whose numbers the driver or the device may still put on the wire: packets
\* that wait in the used ring or for a slot, and answers on their way.
Sending(d) == d \in held["tx"] \/ InAvail("tx", d) # {}
WaitingIds == {d \in Pool("rx") : InUsed("rx", d) # {} \/ (pc = "tx_wait" /\ rxid = d)}
SendingIds == {d \in Pool("tx") : Sending(d)}

\* Of the packets 1 to n that have arrived, those that wait (in W, by the RX buffers X), that are
\* on their way (in R, by the TX buffers Y) and that have gone out (wire T) are all different.
Different(n, W, X, R, Y, T) ==
  /\ T \in Seq(1 .. n)
  /\ \A d \in W : X[d].n \in 1 .. n
  /\ \A d \in R : Y[d] \in 1 .. n
  /\ \A j, k \in 1 .. Len(T) : T[j] = T[k] => j = k
  /\ \A d, e \in W : X[d].n = X[e].n => d = e
  /\ \A d, e \in R : Y[d] = Y[e] => d = e
  /\ \A d \in W, e \in R : X[d].n # Y[e]
  /\ \A d \in W, k \in 1 .. Len(T) : X[d].n # T[k]
  /\ \A d \in R, k \in 1 .. Len(T) : Y[d] # T[k]

\* The packet that waits for a slot is still the one its used entry names.
EchoInv == /\ pc = "tx_wait" => RxEntryId = rxid
           /\ Different(arrived, WaitingIds, rxbuf, SendingIds, txbuf, wire)

\* What the steps of the two sides do to this, on any rings.  Sets within the pool
\* have sizes.
LEMMA OwnedSizes ==
  ASSUME NEW P, IsFiniteSet(P), NEW F, NEW a \in Nat, NEW A, NEW u \in Nat, NEW U, NEW H, NEW D,
         Owned(P, F, a, A, u, U, H, D)
  PROVE  /\ IsFiniteSet(F) /\ IsFiniteSet(H) /\ IsFiniteSet(D)
         /\ Cardinality(F) \in Nat /\ Cardinality(H) \in Nat /\ Cardinality(D) \in Nat
         /\ Cardinality(F) <= Cardinality(P)
<1>1. F \in SUBSET P /\ H \in SUBSET P /\ D \in SUBSET P
  BY DEF Owned
<1>2. IsFiniteSet(F) /\ IsFiniteSet(H) /\ IsFiniteSet(D) /\ Cardinality(F) <= Cardinality(P)
  BY <1>1, FS_Subset
<1> QED
  BY <1>2, FS_CardinalityType

\* The device fetches the first available entry.
LEMMA OwnedFetch ==
  ASSUME NEW P, IsFiniteSet(P), NEW F, NEW a \in Nat, NEW A, NEW u \in Nat, NEW U, NEW H, NEW D,
         Owned(P, F, a, A, u, U, H, D), a > 0,
         NEW A2, \A k \in 0 .. a - 2 : A2[k] = A[k + 1]
  PROVE  Owned(P, F, a - 1, A2, u, U, H, D \cup {A[0]})
<1>1. /\ IsFiniteSet(D) /\ Cardinality(D) \in Nat /\ Cardinality(F) \in Nat /\ Cardinality(H) \in Nat
  BY OwnedSizes
<1>2. Cardinality(D \cup {A[0]}) <= Cardinality(D) + 1 /\ Cardinality(D \cup {A[0]}) \in Nat
  <2>1. PICK x : x = A[0]
    OBVIOUS
  <2>2. Cardinality(D \cup {x}) = IF x \in D THEN Cardinality(D) ELSE Cardinality(D) + 1
    BY <1>1, FS_AddElement
  <2> QED
    BY <1>1, <2>1, <2>2
<1>3. /\ F \subseteq P /\ D \subseteq F /\ H \subseteq F /\ D \cap H = {}
      /\ a + Cardinality(D) + u + Cardinality(H) <= Cardinality(F)
      /\ \A j \in 0 .. a - 1 : A[j] \in F /\ A[j] \notin D /\ A[j] \notin H
      /\ \A k \in 0 .. u - 1 : (U[k] \in P => U[k] \in F) /\ U[k] \notin D /\ U[k] \notin H
      /\ \A j, k \in 0 .. a - 1 : A[j] = A[k] => j = k
      /\ \A j, k \in 0 .. u - 1 : U[j] = U[k] /\ U[j] \in P => j = k
      /\ \A j \in 0 .. a - 1, k \in 0 .. u - 1 : A[j] # U[k]
  BY DEF Owned
<1>4. 0 \in 0 .. a - 1 /\ \A k \in 0 .. a - 2 : k + 1 \in 0 .. a - 1 /\ k + 1 # 0
  OBVIOUS
<1>5. /\ A[0] \in F /\ A[0] \notin H /\ \A k \in 0 .. u - 1 : U[k] # A[0]
      /\ \A k \in 0 .. a - 2 : A[k + 1] # A[0]
  BY <1>3, <1>4
<1>6. (a - 1) + Cardinality(D \cup {A[0]}) + u + Cardinality(H) <= Cardinality(F)
  BY <1>1, <1>2, <1>3
<1>7. \A j, k \in 0 .. a - 2 : A2[j] = A2[k] => j = k
  BY <1>3, <1>4
<1>8. (a - 1) - 1 = a - 2
  OBVIOUS
<1> QED
  BY <1>3, <1>4, <1>5, <1>6, <1>7, <1>8 DEF Owned

\* The device returns one it has, or an id outside the pool for it.
LEMMA OwnedReturn ==
  ASSUME NEW P, IsFiniteSet(P), NEW F, NEW a \in Nat, NEW A, NEW u \in Nat, NEW U, NEW H, NEW D,
         Owned(P, F, a, A, u, U, H, D), NEW d \in D,
         NEW U2, \A k \in 0 .. u - 1 : U2[k] = U[k], U2[u] = d \/ U2[u] \notin P
  PROVE  Owned(P, F, a, A, u + 1, U2, H, D \ {d})
<1>1. /\ IsFiniteSet(D) /\ Cardinality(D) \in Nat /\ Cardinality(F) \in Nat /\ Cardinality(H) \in Nat
  BY OwnedSizes
<1>2. Cardinality(D \ {d}) = Cardinality(D) - 1
  BY <1>1, FS_RemoveElement
<1>3. /\ F \subseteq P /\ D \subseteq F /\ H \subseteq F /\ D \cap H = {}
      /\ a + Cardinality(D) + u + Cardinality(H) <= Cardinality(F)
      /\ \A j \in 0 .. a - 1 : A[j] \in F /\ A[j] \notin D /\ A[j] \notin H
      /\ \A k \in 0 .. u - 1 : (U[k] \in P => U[k] \in F) /\ U[k] \notin D /\ U[k] \notin H
      /\ \A j, k \in 0 .. a - 1 : A[j] = A[k] => j = k
      /\ \A j, k \in 0 .. u - 1 : U[j] = U[k] /\ U[j] \in P => j = k
      /\ \A j \in 0 .. a - 1, k \in 0 .. u - 1 : A[j] # U[k]
  BY DEF Owned
<1>4. (u + 1) - 1 = u /\ \A k \in 0 .. u : k \in 0 .. u - 1 \/ k = u
  OBVIOUS
<1>5. a + Cardinality(D \ {d}) + (u + 1) + Cardinality(H) <= Cardinality(F)
  BY <1>1, <1>2, <1>3
<1>6. /\ (U2[u] \in P => U2[u] \in F) /\ U2[u] \notin D \ {d} /\ U2[u] \notin H
      /\ \A j \in 0 .. a - 1 : A[j] # U2[u]
      /\ \A k \in 0 .. u - 1 : U2[u] \in P => U2[k] # U2[u]
  BY <1>3
<1>7. \A k \in 0 .. u : (U2[k] \in P => U2[k] \in F) /\ U2[k] \notin D \ {d} /\ U2[k] \notin H
  BY <1>3, <1>4, <1>6
<1>8. \A j, k \in 0 .. u : U2[j] = U2[k] /\ U2[j] \in P => j = k
  BY <1>3, <1>4, <1>6
<1>9. \A j \in 0 .. a - 1, k \in 0 .. u : A[j] # U2[k]
  BY <1>3, <1>4, <1>6
<1> QED
  BY <1>3, <1>4, <1>5, <1>7, <1>8, <1>9 DEF Owned

\* The driver takes m used entries, and with one of them at most the descriptor
\* it names.
LEMMA OwnedTake ==
  ASSUME NEW P, IsFiniteSet(P), NEW F, NEW a \in Nat, NEW A, NEW u \in Nat, NEW U, NEW H, NEW D,
         Owned(P, F, a, A, u, U, H, D), NEW m \in 0 .. u,
         NEW U2, \A k \in 0 .. u - m - 1 : U2[k] = U[k + m],
         NEW H2, \/ H2 = H
                 \/ H = {} /\ m = 1 /\ H2 = {U[0]} /\ U[0] \in P
  PROVE  Owned(P, F, a, A, u - m, U2, H2, D)
<1>1. /\ IsFiniteSet(D) /\ Cardinality(D) \in Nat /\ Cardinality(F) \in Nat /\ Cardinality(H) \in Nat
  BY OwnedSizes
<1>3. /\ F \subseteq P /\ D \subseteq F /\ H \subseteq F /\ D \cap H = {}
      /\ a + Cardinality(D) + u + Cardinality(H) <= Cardinality(F)
      /\ \A j \in 0 .. a - 1 : A[j] \in F /\ A[j] \notin D /\ A[j] \notin H
      /\ \A k \in 0 .. u - 1 : (U[k] \in P => U[k] \in F) /\ U[k] \notin D /\ U[k] \notin H
      /\ \A j, k \in 0 .. a - 1 : A[j] = A[k] => j = k
      /\ \A j, k \in 0 .. u - 1 : U[j] = U[k] /\ U[j] \in P => j = k
      /\ \A j \in 0 .. a - 1, k \in 0 .. u - 1 : A[j] # U[k]
  BY DEF Owned
<1>4. \A k \in 0 .. u - m - 1 : k + m \in 0 .. u - 1 /\ (m = 1 => k + m # 0)
  OBVIOUS
<1>5. /\ \A k \in 0 .. u - m - 1 : (U2[k] \in P => U2[k] \in F) /\ U2[k] \notin D /\ U2[k] \notin H
      /\ \A j, k \in 0 .. u - m - 1 : U2[j] = U2[k] /\ U2[j] \in P => j = k
      /\ \A j \in 0 .. a - 1, k \in 0 .. u - m - 1 : A[j] # U2[k]
  BY <1>3, <1>4
<1>6. CASE H2 = H
  BY <1>1, <1>3, <1>5, <1>6 DEF Owned
<1>7. CASE H = {} /\ m = 1 /\ H2 = {U[0]} /\ U[0] \in P
  <2>1. Cardinality(H2) = 1 /\ Cardinality(H) = 0
    BY <1>7, FS_Singleton, FS_EmptySet
  <2>2. a + Cardinality(D) + (u - m) + Cardinality(H2) <= Cardinality(F)
    BY <1>1, <1>3, <1>7, <2>1
  <2>3. 0 \in 0 .. u - 1
    BY <1>7
  <2>4. /\ U[0] \in F /\ U[0] \notin D /\ \A j \in 0 .. a - 1 : A[j] # U[0]
        /\ \A k \in 0 .. u - m - 1 : U2[k] # U[0]
    BY <1>3, <1>4, <1>7, <2>3
  <2> QED
    BY <1>3, <1>5, <1>7, <2>2, <2>4 DEF Owned
<1> QED
  BY <1>6, <1>7

\* The driver makes a descriptor available: the one in its hands, or a free one.
LEMMA OwnedGive ==
  ASSUME NEW P, IsFiniteSet(P), NEW F, NEW a \in Nat, NEW A, NEW u \in Nat, NEW U, NEW H, NEW D,
         Owned(P, F, a, A, u, U, H, D), NEW d \in P,
         NEW A2, \A k \in 0 .. a - 1 : A2[k] = A[k], A2[a] = d,
         NEW F2, NEW H2,
         \/ H = {d} /\ H2 = {} /\ F2 = F
         \/ d \notin F /\ F2 = F \cup {d} /\ H2 = H
  PROVE  Owned(P, F2, a + 1, A2, u, U, H2, D)
<1>1. /\ IsFiniteSet(F) /\ Cardinality(D) \in Nat /\ Cardinality(F) \in Nat /\ Cardinality(H) \in Nat
  BY OwnedSizes
<1>3. /\ F \subseteq P /\ D \subseteq F /\ H \subseteq F /\ D \cap H = {}
      /\ a + Cardinality(D) + u + Cardinality(H) <= Cardinality(F)
      /\ \A j \in 0 .. a - 1 : A[j] \in F /\ A[j] \notin D /\ A[j] \notin H
      /\ \A k \in 0 .. u - 1 : (U[k] \in P => U[k] \in F) /\ U[k] \notin D /\ U[k] \notin H
      /\ \A j, k \in 0 .. a - 1 : A[j] = A[k] => j = k
      /\ \A j, k \in 0 .. u - 1 : U[j] = U[k] /\ U[j] \in P => j = k
      /\ \A j \in 0 .. a - 1, k \in 0 .. u - 1 : A[j] # U[k]
  BY DEF Owned
<1>4. (a + 1) - 1 = a /\ \A k \in 0 .. a : k \in 0 .. a - 1 \/ k = a
  OBVIOUS
<1>5. (a + 1) + Cardinality(D) + u + Cardinality(H2) <= Cardinality(F2)
  <2>1. CASE H = {d} /\ H2 = {} /\ F2 = F
    <3>1. Cardinality(H) = 1 /\ Cardinality(H2) = 0
      BY <2>1, FS_Singleton, FS_EmptySet
    <3> QED
      BY <1>1, <1>3, <2>1, <3>1
  <2>2. CASE d \notin F /\ F2 = F \cup {d} /\ H2 = H
    <3>1. Cardinality(F2) = Cardinality(F) + 1
      BY <1>1, <2>2, FS_AddElement
    <3> QED
      BY <1>1, <1>3, <2>2, <3>1
  <2> QED
    BY <2>1, <2>2
<1>6. /\ d \in F2 /\ d \notin D /\ d \notin H2 /\ F \subseteq F2 /\ F2 \subseteq P /\ H2 \subseteq H
      /\ \A j \in 0 .. a - 1 : A[j] # d
      /\ \A k \in 0 .. u - 1 : U[k] # d
  BY <1>3
<1>7. \A j \in 0 .. a : A2[j] \in F2 /\ A2[j] \notin D /\ A2[j] \notin H2
  BY <1>3, <1>4, <1>6
<1>8. \A j, k \in 0 .. a : A2[j] = A2[k] => j = k
  BY <1>3, <1>4, <1>6
<1>9. \A j \in 0 .. a, k \in 0 .. u - 1 : A2[j] # U[k]
  BY <1>3, <1>4, <1>6
<1>10. /\ F2 \subseteq P /\ D \subseteq F2 /\ H2 \subseteq F2 /\ D \cap H2 = {}
       /\ \A k \in 0 .. u - 1 : (U[k] \in P => U[k] \in F2) /\ U[k] \notin D /\ U[k] \notin H2
  BY <1>3, <1>6
<1> QED
  BY <1>3, <1>4, <1>5, <1>7, <1>8, <1>9, <1>10 DEF Owned

\* The ids in all used entries.
Ids(u, U) == {U[k] : k \in 0 .. u - 1}

\* The driver takes all used entries, and their descriptors are free.
LEMMA OwnedConsume ==
  ASSUME NEW P, IsFiniteSet(P), NEW F, NEW a \in Nat, NEW A, NEW u \in Nat, NEW U, NEW D,
         Owned(P, F, a, A, u, U, {}, D), NEW C, C = Ids(u, U) \cap P, NEW U2
  PROVE  Owned(P, F \ C, a, A, 0, U2, {}, D)
<1>1. /\ IsFiniteSet(F) /\ Cardinality(D) \in Nat /\ Cardinality(F) \in Nat
  BY OwnedSizes
<1>3. /\ F \subseteq P /\ D \subseteq F
      /\ a + Cardinality(D) + u + Cardinality({}) <= Cardinality(F)
      /\ \A j \in 0 .. a - 1 : A[j] \in F /\ A[j] \notin D
      /\ \A k \in 0 .. u - 1 : (U[k] \in P => U[k] \in F) /\ U[k] \notin D
      /\ \A j, k \in 0 .. a - 1 : A[j] = A[k] => j = k
      /\ \A j \in 0 .. a - 1, k \in 0 .. u - 1 : A[j] # U[k]
  BY DEF Owned
<1>4. Cardinality({}) = 0
  BY FS_EmptySet
<1>5. PICK K : K = {k \in 0 .. u - 1 : U[k] \in P}
  OBVIOUS
<1>6. Cardinality(C) \in Nat /\ Cardinality(C) <= u
  <2>1. IsFiniteSet(0 .. u - 1) /\ Cardinality(0 .. u - 1) = u
    <3>1. PICK b \in Int : b = u - 1
      OBVIOUS
    <3>2. IsFiniteSet(0 .. b) /\ Cardinality(0 .. b) = IF 0 > b THEN 0 ELSE b - 0 + 1
      BY FS_Interval
    <3> QED
      BY <3>1, <3>2
  <2>2. K \in SUBSET (0 .. u - 1)
    BY <1>5
  <2>3. IsFiniteSet(K) /\ Cardinality(K) <= u
    BY <2>1, <2>2, FS_Subset
  <2>4. [k \in K |-> U[k]] \in Surjection(K, C)
    BY <1>5 DEF Surjection, Ids
  <2>5. IsFiniteSet(C) /\ Cardinality(C) <= Cardinality(K)
    BY <2>3, <2>4, FS_Surjection
  <2>6. Cardinality(C) \in Nat /\ Cardinality(K) \in Nat
    BY <2>3, <2>5, FS_CardinalityType
  <2> QED
    BY <2>3, <2>5, <2>6
<1>7. Cardinality(F \ C) = Cardinality(F) - Cardinality(C)
  <2>1. F \cap C = C
    BY <1>3 DEF Ids
  <2>2. Cardinality(F \ C) = Cardinality(F) - Cardinality(F \cap C)
    BY <1>1, FS_Difference
  <2> QED
    BY <2>1, <2>2
<1>8. a + Cardinality(D) + 0 + Cardinality({}) <= Cardinality(F \ C)
  BY <1>1, <1>3, <1>4, <1>6, <1>7
<1>9. 0 .. 0 - 1 = {}
  OBVIOUS
<1>10. F \ C \subseteq P /\ D \subseteq F \ C /\ \A j \in 0 .. a - 1 : A[j] \in F \ C
  BY <1>3 DEF Ids
<1> QED
  BY <1>3, <1>8, <1>9, <1>10 DEF Owned

\* A ring of n entries with another value in one of them.
Wrote(ring2, ring, n, slot, v) == DOMAIN ring = 0 .. n - 1 /\ ring2 = [ring EXCEPT ![slot] = v]

\* An entry more at the end of a window that is shorter than the ring.
LEMMA Pushed ==
  ASSUME NEW n \in 1 .. DeviceSize, ChosenSize(n), NEW a \in Idx, NEW b \in Idx, Delta(a, b) < n,
         NEW ring, NEW v, NEW ring2, Wrote(ring2, ring, n, b % n, v)
  PROVE  /\ Succ(b) \in Idx /\ Delta(a, Succ(b)) = Delta(a, b) + 1
         /\ \A k \in 0 .. Delta(a, b) - 1 : View(ring2, a, Succ(b), n)[k] = View(ring, a, b, n)[k]
         /\ View(ring2, a, Succ(b), n)[Delta(a, b)] = v
<1>0. IdxWrap \in Nat \ {0} /\ DeviceSize < IdxWrap /\ DeviceSize \in Nat \ {0} /\ n \in Nat
  BY WrapFacts
<1>1. PICK m \in 0 .. IdxWrap - 1 : m = Delta(a, b) /\ (a + m) % IdxWrap = b
  BY DeltaFacts
<1>2. Succ(b) \in Idx /\ Delta(a, Succ(b)) = m + 1
  BY <1>0, <1>1, Extended
<1>3. At(a, m, n) = b % n
  BY <1>1 DEF At
<1>4. m \in 0 .. n - 1
  BY <1>0, <1>1
<1>5. At(a, m, n) \in 0 .. n - 1
  BY <1>4, Apart
<1>6. ring2[At(a, m, n)] = v
  BY <1>3, <1>5 DEF Wrote
<1>7. ASSUME NEW k \in 0 .. m - 1 PROVE ring2[At(a, k, n)] = ring[At(a, k, n)]
  <2>1. k \in 0 .. n - 1 /\ k # m
    BY <1>4
  <2>2. At(a, k, n) \in 0 .. n - 1 /\ At(a, k, n) # At(a, m, n)
    BY <1>4, <2>1, Apart
  <2> QED
    BY <1>3, <2>2 DEF Wrote
<1>8. View(ring2, a, Succ(b), n) = [k \in 0 .. m |-> ring2[At(a, k, n)]]
  BY <1>1, <1>2 DEF View
<1>9. View(ring, a, b, n) = [k \in 0 .. m - 1 |-> ring[At(a, k, n)]]
  BY <1>1 DEF View
<1>10. m \in 0 .. m /\ \A k \in 0 .. m - 1 : k \in 0 .. m
  BY <1>4
<1> QED
  BY <1>1, <1>2, <1>6, <1>7, <1>8, <1>9, <1>10

\* The first m entries of a window less.
LEMMA Popped ==
  ASSUME NEW a \in Idx, NEW b \in Idx, NEW m \in 0 .. Delta(a, b), NEW n, NEW ring
  PROVE  /\ (a + m) % IdxWrap \in Idx
         /\ Delta((a + m) % IdxWrap, b) = Delta(a, b) - m
         /\ \A k \in 0 .. Delta(a, b) - m - 1 :
              View(ring, (a + m) % IdxWrap, b, n)[k] = View(ring, a, b, n)[k + m]
<1>1. PICK len \in 0 .. IdxWrap - 1 : len = Delta(a, b)
  BY DeltaFacts
<1>2. PICK c \in Idx : /\ c = (a + m) % IdxWrap /\ Delta(c, b) = len - m
                       /\ \A k \in 0 .. len - m : At(c, k, n) = At(a, m + k, n)
  BY <1>1, Advanced
<1>3. View(ring, c, b, n) = [k \in 0 .. len - m - 1 |-> ring[At(c, k, n)]]
  BY <1>2 DEF View
<1>4. View(ring, a, b, n) = [k \in 0 .. len - 1 |-> ring[At(a, k, n)]]
  BY <1>1 DEF View
<1>5. len \in Nat /\ m \in 0 .. len
  BY <1>1, WrapFacts
<1>6. ASSUME NEW k \in 0 .. len - m - 1 PROVE View(ring, c, b, n)[k] = View(ring, a, b, n)[k + m]
  <2>1. k \in 0 .. len - m /\ k + m \in 0 .. len - 1 /\ m + k = k + m
    BY <1>5
  <2>2. At(c, k, n) = At(a, k + m, n)
    BY <1>2, <2>1
  <2> QED
    BY <1>3, <1>4, <2>1, <2>2
<1> QED
  BY <1>1, <1>2, <1>6

\* What is in the first slot of a window.
LEMMA First ==
  ASSUME NEW a \in Idx, NEW b \in Idx, Delta(a, b) > 0, NEW n, NEW ring
  PROVE  View(ring, a, b, n)[0] = ring[a % n] /\ At(a, 0, n) = a % n
<1>1. PICK len \in 0 .. IdxWrap - 1 : len = Delta(a, b)
  BY DeltaFacts
<1>2. a \in 0 .. IdxWrap - 1 /\ IdxWrap \in Nat \ {0} /\ 0 \in 0 .. IdxWrap
  BY WrapFacts DEF Idx
<1>3. (a + 0) % IdxWrap = a
  BY <1>2, Onward
<1>4. At(a, 0, n) = a % n
  BY <1>3 DEF At
<1>5. View(ring, a, b, n) = [k \in 0 .. len - 1 |-> ring[At(a, k, n)]] /\ 0 \in 0 .. len - 1
  BY <1>1 DEF View
<1> QED
  BY <1>4, <1>5

\* The pools are finite and fit into the rings.
LEMMA PoolFacts ==
  ASSUME NEW q \in Queues
  PROVE  /\ IsFiniteSet(Pool(q)) /\ Pool(q) \subseteq Nat
         /\ Cardinality(Pool("rx")) = RxBuffers /\ Cardinality(Pool("tx")) = TxBuffers
         /\ OutsideId(q) \notin Pool(q)
<1>1. PICK r \in Int : r = RxBuffers - 1
  BY PoolAssumption
<1>2. PICK t \in Int : t = TxBuffers - 1
  BY PoolAssumption
<1>3. /\ IsFiniteSet(0 .. r) /\ Cardinality(0 .. r) = IF 0 > r THEN 0 ELSE r - 0 + 1
      /\ IsFiniteSet(0 .. t) /\ Cardinality(0 .. t) = IF 0 > t THEN 0 ELSE t - 0 + 1
  BY FS_Interval
<1>4. /\ IsFiniteSet(0 .. r) /\ Cardinality(0 .. r) = RxBuffers
      /\ IsFiniteSet(0 .. t) /\ Cardinality(0 .. t) = TxBuffers
  BY <1>1, <1>2, <1>3, PoolAssumption
<1>5. Pool("rx") = 0 .. r /\ Pool("tx") = 0 .. t /\ q \in {"rx", "tx"}
  BY <1>1, <1>2 DEF Pool, Queues
<1>6. OutsideId(q) \notin Pool(q)
  BY PoolAssumption DEF OutsideId, Pool
<1> QED
  BY <1>4, <1>5, <1>6

\* What the invariant says of one queue.
LEMMA QueueFacts ==
  ASSUME OwnInv, NEW q \in Queues
  PROVE  /\ size[q] \in 1 .. DeviceSize /\ ChosenSize(size[q]) /\ size[q] = size["rx"]
         /\ RxBuffers <= size[q] /\ TxBuffers <= size[q] /\ size[q] < IdxWrap
         /\ fetched[q] \in Idx /\ availIdx[q] \in Idx /\ NextUsed(q) \in Idx /\ usedIdx[q] \in Idx
         /\ last[q] \in Idx
         /\ DOMAIN avail[q] = 0 .. size[q] - 1 /\ DOMAIN used[q] = 0 .. size[q] - 1
         /\ AvailLen(q) \in Nat /\ UsedLen(q) \in Nat
         /\ Cardinality(held[q]) \in Nat /\ Cardinality(Hand(q)) \in Nat
         /\ IsFiniteSet(held[q])
         /\ AvailLen(q) + Cardinality(held[q]) + UsedLen(q) + Cardinality(Hand(q)) <= size[q]
         /\ q = "tx" => NextUsed(q) = last[q] /\ Hand(q) = {}
<1>1. PICK n \in 1 .. DeviceSize : /\ ChosenSize(n) /\ RxBuffers <= n /\ TxBuffers <= n
                                   /\ size = [r \in Queues |-> n]
  BY DEF OwnInv, SizeInv
<1>2. size[q] = n /\ size["rx"] = n /\ IdxWrap \in Nat \ {0} /\ n < IdxWrap
  BY <1>1, WrapFacts DEF Queues
<1>3. /\ fetched[q] \in Idx /\ availIdx[q] \in Idx /\ usedIdx[q] \in Idx /\ last[q] \in Idx
      /\ DOMAIN avail[q] = 0 .. size[q] - 1 /\ DOMAIN used[q] = 0 .. size[q] - 1
      /\ i \in Nat
  BY DEF OwnInv, TypeOK
<1>4. Handled(q) \in Nat /\ (q = "tx" => Handled(q) = 0)
  BY <1>3 DEF Handled
<1>5. NextUsed(q) \in Idx
  BY <1>2, <1>3, <1>4 DEF NextUsed, Idx
<1>6. AvailLen(q) \in Nat /\ UsedLen(q) \in Nat
  <2>1. /\ Delta(fetched[q], availIdx[q]) \in 0 .. IdxWrap - 1
        /\ Delta(NextUsed(q), usedIdx[q]) \in 0 .. IdxWrap - 1
    BY <1>3, <1>5, DeltaFacts
  <2> QED
    BY <1>2, <2>1 DEF AvailLen, UsedLen
<1>7. PICK P : P = Pool(q) /\ IsFiniteSet(P)
  BY PoolFacts
<1>8. Owned(P, Busy(q), AvailLen(q), AvailView(q), UsedLen(q), UsedView(q), Hand(q), held[q])
  BY <1>7 DEF OwnInv, OwnedIn
<1>9. /\ IsFiniteSet(held[q]) /\ Cardinality(held[q]) \in Nat /\ Cardinality(Hand(q)) \in Nat
      /\ Cardinality(Busy(q)) \in Nat /\ Cardinality(Busy(q)) <= Cardinality(P)
  BY <1>6, <1>7, <1>8, OwnedSizes
<1>10. AvailLen(q) + Cardinality(held[q]) + UsedLen(q) + Cardinality(Hand(q)) <= Cardinality(Busy(q))
  BY <1>8 DEF Owned
<1>11. Cardinality(P) \in Nat /\ Cardinality(P) <= n
  <2>1. Cardinality(Pool("rx")) = RxBuffers /\ Cardinality(Pool("tx")) = TxBuffers
    BY PoolFacts
  <2>2. q = "rx" \/ q = "tx"
    BY DEF Queues
  <2> QED
    BY <1>1, <1>7, <2>1, <2>2, PoolAssumption
<1>12. AvailLen(q) + Cardinality(held[q]) + UsedLen(q) + Cardinality(Hand(q)) <= n
  BY <1>1, <1>6, <1>9, <1>10, <1>11
<1>13. ASSUME q = "tx" PROVE NextUsed(q) = last[q] /\ Hand(q) = {}
  <2>1. 0 \in 0 .. IdxWrap /\ Handled(q) = 0 /\ last[q] \in 0 .. IdxWrap - 1
    BY <1>2, <1>3, <1>4, <1>13 DEF Idx
  <2>2. (last[q] + 0) % IdxWrap = last[q]
    BY <1>2, <1>3, <2>1, Onward
  <2>3. Hand(q) = {}
    BY <1>13 DEF Hand, InHand
  <2> QED
    BY <2>1, <2>2, <2>3 DEF NextUsed
<1> QED
  BY <1>1, <1>2, <1>3, <1>5, <1>6, <1>9, <1>12, <1>13

\* A queue that is not touched.
LEMMA Untouched ==
  ASSUME NEW q \in Queues, OwnedIn(q),
         size' = size, avail'[q] = avail[q], availIdx'[q] = availIdx[q], fetched'[q] = fetched[q],
         used'[q] = used[q], usedIdx'[q] = usedIdx[q], held'[q] = held[q],
         Busy(q)' = Busy(q), NextUsed(q)' = NextUsed(q), Hand(q)' = Hand(q)
  PROVE  OwnedIn(q)' /\ Stays(q)
<1>1. AvailLen(q)' = AvailLen(q) /\ AvailView(q)' = AvailView(q)
  BY DEF AvailLen, AvailView
<1>2. UsedLen(q)' = UsedLen(q) /\ UsedView(q)' = UsedView(q)
  BY DEF UsedLen, UsedView
<1>3. Stays(q)
  BY <1>1, <1>2 DEF Stays, SameAvail, SameUsed
<1> QED
  BY <1>1, <1>2, <1>3 DEF OwnedIn

\* Fetch.
LEMMA FetchOwned ==
  ASSUME OwnInv, NEW q \in Queues, fetched[q] # availIdx[q],
         size' = size, avail'[q] = avail[q], availIdx'[q] = availIdx[q], fetched'[q] = Succ(fetched[q]),
         used'[q] = used[q], usedIdx'[q] = usedIdx[q],
         held'[q] = held[q] \cup {avail[q][fetched[q] % size[q]]},
         Busy(q)' = Busy(q), NextUsed(q)' = NextUsed(q), Hand(q)' = Hand(q)
  PROVE  OwnedIn(q)' /\ Fetches(q)
<1>1. /\ fetched[q] \in Idx /\ availIdx[q] \in Idx /\ AvailLen(q) \in Nat /\ UsedLen(q) \in Nat
  BY QueueFacts
<1>2. AvailLen(q) > 0 /\ 1 \in 0 .. AvailLen(q)
  BY <1>1, DeltaFacts DEF AvailLen
<1>3. PICK P : P = Pool(q) /\ IsFiniteSet(P)
  BY PoolFacts
<1>4. Owned(P, Busy(q), AvailLen(q), AvailView(q), UsedLen(q), UsedView(q), Hand(q), held[q])
  BY <1>3 DEF OwnInv, OwnedIn
<1>5. PICK A2 : A2 = AvailView(q)'
  OBVIOUS
<1>6. /\ AvailLen(q)' = AvailLen(q) - 1
      /\ \A k \in 0 .. AvailLen(q) - 1 - 1 : A2[k] = AvailView(q)[k + 1]
  <2>1. Succ(fetched[q]) = (fetched[q] + 1) % IdxWrap
    BY DEF Succ
  <2>2. /\ Delta(Succ(fetched[q]), availIdx[q]) = Delta(fetched[q], availIdx[q]) - 1
        /\ \A k \in 0 .. Delta(fetched[q], availIdx[q]) - 1 - 1 :
             View(avail[q], Succ(fetched[q]), availIdx[q], size[q])[k]
               = View(avail[q], fetched[q], availIdx[q], size[q])[k + 1]
    <3>1. PICK x \in Idx : x = fetched[q]
      BY <1>1
    <3>2. PICK y \in Idx : y = availIdx[q]
      BY <1>1
    <3>3. 1 \in 0 .. Delta(x, y) /\ Succ(x) = (x + 1) % IdxWrap
      BY <1>2, <2>1, <3>1, <3>2 DEF AvailLen
    <3>4. /\ Delta(Succ(x), y) = Delta(x, y) - 1
          /\ \A k \in 0 .. Delta(x, y) - 1 - 1 :
               View(avail[q], Succ(x), y, size[q])[k] = View(avail[q], x, y, size[q])[k + 1]
      BY <3>3, Popped
    <3> QED
      BY <3>1, <3>2, <3>4
  <2>3. A2 = View(avail[q], Succ(fetched[q]), availIdx[q], size[q])
    BY <1>5 DEF AvailView
  <2> QED
    BY <2>2, <2>3 DEF AvailLen, AvailView
<1>7. AvailView(q)[0] = avail[q][fetched[q] % size[q]]
  BY <1>1, <1>2, First DEF AvailView, AvailLen
<1>8. AvailLen(q) - 1 - 1 = AvailLen(q) - 2
  BY <1>1
<1>9. Owned(P, Busy(q), AvailLen(q) - 1, A2, UsedLen(q), UsedView(q), Hand(q),
            held[q] \cup {AvailView(q)[0]})
  BY <1>1, <1>2, <1>3, <1>4, <1>6, <1>8, OwnedFetch
<1>10. UsedLen(q)' = UsedLen(q) /\ UsedView(q)' = UsedView(q)
  BY DEF UsedLen, UsedView
<1>11. OwnedIn(q)'
  BY <1>3, <1>5, <1>6, <1>7, <1>9, <1>10 DEF OwnedIn
<1>12. Fetches(q)
  BY <1>2, <1>5, <1>6, <1>7, <1>8, <1>10 DEF Fetches, SameUsed
<1> QED
  BY <1>11, <1>12

\* ReturnUsed: the used ring has room, since what the device has is not in it.
LEMMA ReturnOwned ==
  ASSUME OwnInv, NEW q \in Queues, NEW d \in held[q], NEW v, v = d \/ v = OutsideId(q),
         size' = size, avail'[q] = avail[q], availIdx'[q] = availIdx[q], fetched'[q] = fetched[q],
         used'[q] = [used[q] EXCEPT ![usedIdx[q] % size[q]] = v], usedIdx'[q] = Succ(usedIdx[q]),
         held'[q] = held[q] \ {d},
         Busy(q)' = Busy(q), NextUsed(q)' = NextUsed(q), Hand(q)' = Hand(q)
  PROVE  OwnedIn(q)' /\ Returns(q, d, v)
<1>1. /\ size[q] \in 1 .. DeviceSize /\ ChosenSize(size[q])
      /\ NextUsed(q) \in Idx /\ usedIdx[q] \in Idx /\ AvailLen(q) \in Nat /\ UsedLen(q) \in Nat
      /\ DOMAIN used[q] = 0 .. size[q] - 1
      /\ Cardinality(held[q]) \in Nat /\ Cardinality(Hand(q)) \in Nat
      /\ IsFiniteSet(held[q])
      /\ AvailLen(q) + Cardinality(held[q]) + UsedLen(q) + Cardinality(Hand(q)) <= size[q]
  BY QueueFacts
<1>2. Cardinality(held[q]) # 0
  BY <1>1, FS_EmptySet
<1>3. UsedLen(q) < size[q]
  BY <1>1, <1>2
<1>4. PICK P : P = Pool(q) /\ IsFiniteSet(P) /\ OutsideId(q) \notin P
  BY PoolFacts
<1>5. Owned(P, Busy(q), AvailLen(q), AvailView(q), UsedLen(q), UsedView(q), Hand(q), held[q])
  BY <1>4 DEF OwnInv, OwnedIn
<1>6. PICK U2 : U2 = UsedView(q)'
  OBVIOUS
<1>7. /\ UsedLen(q)' = UsedLen(q) + 1
      /\ \A k \in 0 .. UsedLen(q) - 1 : U2[k] = UsedView(q)[k]
      /\ U2[UsedLen(q)] = v
  <2>1. PICK r2 : r2 = used'[q]
    OBVIOUS
  <2>2. /\ Delta(NextUsed(q), Succ(usedIdx[q])) = Delta(NextUsed(q), usedIdx[q]) + 1
        /\ \A k \in 0 .. Delta(NextUsed(q), usedIdx[q]) - 1 :
             View(r2, NextUsed(q), Succ(usedIdx[q]), size[q])[k]
               = View(used[q], NextUsed(q), usedIdx[q], size[q])[k]
        /\ View(r2, NextUsed(q), Succ(usedIdx[q]), size[q])[Delta(NextUsed(q), usedIdx[q])] = v
    <3>1. PICK n \in 1 .. DeviceSize : n = size[q]
      BY <1>1
    <3>2. PICK x \in Idx : x = NextUsed(q)
      BY <1>1
    <3>3. PICK y \in Idx : y = usedIdx[q]
      BY <1>1
    <3>4. PICK r : r = used[q]
      OBVIOUS
    <3>5. ChosenSize(n) /\ Delta(x, y) < n /\ Wrote(r2, r, n, y % n, v)
      BY <1>1, <1>3, <2>1, <3>1, <3>2, <3>3, <3>4 DEF UsedLen, Wrote
    <3>6. /\ Delta(x, Succ(y)) = Delta(x, y) + 1
          /\ \A k \in 0 .. Delta(x, y) - 1 : View(r2, x, Succ(y), n)[k] = View(r, x, y, n)[k]
          /\ View(r2, x, Succ(y), n)[Delta(x, y)] = v
      BY <3>5, Pushed
    <3> QED
      BY <3>1, <3>2, <3>3, <3>4, <3>6
  <2>3. U2 = View(r2, NextUsed(q), Succ(usedIdx[q]), size[q])
    BY <1>6, <2>1 DEF UsedView
  <2> QED
    BY <2>2, <2>3 DEF UsedLen, UsedView
<1>8. U2[UsedLen(q)] = d \/ U2[UsedLen(q)] \notin P
  BY <1>4, <1>7
<1>9. Owned(P, Busy(q), AvailLen(q), AvailView(q), UsedLen(q) + 1, U2, Hand(q), held[q] \ {d})
  BY <1>1, <1>4, <1>5, <1>7, <1>8, OwnedReturn, SMTT(40)
<1>10. AvailLen(q)' = AvailLen(q) /\ AvailView(q)' = AvailView(q)
  BY DEF AvailLen, AvailView
<1>11. OwnedIn(q)'
  BY <1>4, <1>6, <1>7, <1>9, <1>10 DEF OwnedIn
<1>12. Returns(q, d, v)
  BY <1>6, <1>7, <1>10 DEF Returns, SameAvail
<1> QED
  BY <1>11, <1>12

\* The driver goes on in the used ring of the RX queue, by one entry whose
\* descriptor it may take, or past some.
LEMMA TakeOwned ==
  ASSUME OwnInv, NEW m \in 0 .. UsedLen("rx"),
         UNCHANGED <<size, fetched, used, usedIdx, held>>,
         avail'["rx"] = avail["rx"], availIdx'["rx"] = availIdx["rx"],
         NextUsed("rx")' = (NextUsed("rx") + m) % IdxWrap,
         \/ Hand("rx")' = Hand("rx")
         \/ /\ Hand("rx") = {} /\ m = 1 /\ UsedView("rx")[0] \in Pool("rx")
            /\ Hand("rx")' = {UsedView("rx")[0]}
  PROVE  OwnedIn("rx")' /\ GoesOn(m)
<1>q. "rx" \in Queues
  BY DEF Queues
<1>1. /\ NextUsed("rx") \in Idx /\ usedIdx["rx"] \in Idx
      /\ AvailLen("rx") \in Nat /\ UsedLen("rx") \in Nat
  BY <1>q, QueueFacts
<1>2. PICK P : P = Pool("rx") /\ IsFiniteSet(P)
  BY <1>q, PoolFacts
<1>3. Owned(P, Busy("rx"), AvailLen("rx"), AvailView("rx"), UsedLen("rx"), UsedView("rx"),
            Hand("rx"), held["rx"])
  BY <1>q, <1>2 DEF OwnInv, OwnedIn
<1>4. PICK U2 : U2 = UsedView("rx")'
  OBVIOUS
<1>5. /\ UsedLen("rx")' = UsedLen("rx") - m
      /\ \A k \in 0 .. UsedLen("rx") - m - 1 : U2[k] = UsedView("rx")[k + m]
  <2>1. PICK c : c = (NextUsed("rx") + m) % IdxWrap
    OBVIOUS
  <2>2. /\ Delta(c, usedIdx["rx"]) = Delta(NextUsed("rx"), usedIdx["rx"]) - m
        /\ \A k \in 0 .. Delta(NextUsed("rx"), usedIdx["rx"]) - m - 1 :
             View(used["rx"], c, usedIdx["rx"], size["rx"])[k]
               = View(used["rx"], NextUsed("rx"), usedIdx["rx"], size["rx"])[k + m]
    BY <1>1, <2>1, Popped DEF UsedLen
  <2>3. U2 = View(used["rx"], c, usedIdx["rx"], size["rx"])
    BY <1>4, <2>1 DEF UsedView
  <2> QED
    BY <2>1, <2>2, <2>3 DEF UsedLen, UsedView
<1>6. PICK H2 : H2 = Hand("rx")'
  OBVIOUS
<1>7. Owned(P, Busy("rx"), AvailLen("rx"), AvailView("rx"), UsedLen("rx") - m, U2, H2, held["rx"])
  BY <1>1, <1>2, <1>3, <1>5, <1>6, OwnedTake
<1>8. AvailLen("rx")' = AvailLen("rx") /\ AvailView("rx")' = AvailView("rx") /\ Busy("rx")' = Busy("rx")
  BY DEF AvailLen, AvailView, Busy
<1>9. OwnedIn("rx")'
  BY <1>2, <1>4, <1>5, <1>6, <1>7, <1>8 DEF OwnedIn
<1>10. GoesOn(m)
  BY <1>4, <1>5, <1>8 DEF GoesOn, SameAvail
<1> QED
  BY <1>9, <1>10

\* recycle_rx_buffer and publish_tx_packet, on a ring with room.
LEMMA MadeAvailable ==
  ASSUME OwnInv, NEW q \in Queues, NEW d, MakeAvailable(q, d), AvailLen(q) < size[q],
         UNCHANGED <<size, fetched>>
  PROVE  /\ AvailLen(q)' = AvailLen(q) + 1
         /\ \A k \in 0 .. AvailLen(q) - 1 : AvailView(q)'[k] = AvailView(q)[k]
         /\ AvailView(q)'[AvailLen(q)] = d
<1>1. /\ size[q] \in 1 .. DeviceSize /\ ChosenSize(size[q])
      /\ fetched[q] \in Idx /\ availIdx[q] \in Idx /\ DOMAIN avail[q] = 0 .. size[q] - 1
  BY QueueFacts
<1>2. DOMAIN avail = Queues /\ availIdx \in [Queues -> Idx]
  BY DEF OwnInv, PerQueue, TypeOK
<1>3. PICK n \in 1 .. DeviceSize : n = size[q]
  BY <1>1
<1>4. PICK x \in Idx : x = fetched[q]
  BY <1>1
<1>5. PICK y \in Idx : y = availIdx[q]
  BY <1>1
<1>6. PICK r : r = avail[q]
  OBVIOUS
<1>7. PICK r2 : r2 = avail'[q]
  OBVIOUS
<1>8. r2 = [r EXCEPT ![y % n] = d] /\ availIdx'[q] = Succ(y)
  BY <1>2, <1>3, <1>5, <1>6, <1>7 DEF MakeAvailable
<1>9. ChosenSize(n) /\ Delta(x, y) < n /\ Wrote(r2, r, n, y % n, d)
  BY <1>1, <1>3, <1>4, <1>5, <1>6, <1>8 DEF AvailLen, Wrote
<1>10. /\ Delta(x, Succ(y)) = Delta(x, y) + 1
       /\ \A k \in 0 .. Delta(x, y) - 1 : View(r2, x, Succ(y), n)[k] = View(r, x, y, n)[k]
       /\ View(r2, x, Succ(y), n)[Delta(x, y)] = d
  BY <1>9, Pushed
<1>11. /\ AvailLen(q) = Delta(x, y) /\ AvailLen(q)' = Delta(x, Succ(y))
       /\ AvailView(q) = View(r, x, y, n) /\ AvailView(q)' = View(r2, x, Succ(y), n)
  BY <1>3, <1>4, <1>5, <1>6, <1>7, <1>8 DEF AvailLen, AvailView
<1> QED
  BY <1>10, <1>11

\* Recycle: the descriptor in the driver's hands goes back; the ring has room for it.
LEMMA GiveOwned ==
  ASSUME OwnInv, MakeAvailable("rx", rxid), UNCHANGED <<size, fetched, used, usedIdx, held>>,
         Hand("rx") = {rxid}, Hand("rx")' = {}, NextUsed("rx")' = NextUsed("rx")
  PROVE  OwnedIn("rx")' /\ Gives
<1>q. "rx" \in Queues
  BY DEF Queues
<1>1. /\ AvailLen("rx") \in Nat /\ UsedLen("rx") \in Nat /\ size["rx"] \in Nat
      /\ Cardinality(held["rx"]) \in Nat
      /\ AvailLen("rx") + Cardinality(held["rx"]) + UsedLen("rx") + Cardinality(Hand("rx")) <= size["rx"]
  BY <1>q, QueueFacts
<1>2. Cardinality(Hand("rx")) = 1
  BY FS_Singleton
<1>3. AvailLen("rx") < size["rx"]
  BY <1>1, <1>2
<1>4. PICK d : d = rxid
  OBVIOUS
<1>5. PICK A2 : A2 = AvailView("rx")'
  OBVIOUS
<1>6. /\ AvailLen("rx")' = AvailLen("rx") + 1
      /\ \A k \in 0 .. AvailLen("rx") - 1 : A2[k] = AvailView("rx")[k]
      /\ A2[AvailLen("rx")] = d
  BY <1>q, <1>3, <1>4, <1>5, MadeAvailable
<1>7. PICK P : P = Pool("rx") /\ IsFiniteSet(P)
  BY <1>q, PoolFacts
<1>8. Owned(P, Busy("rx"), AvailLen("rx"), AvailView("rx"), UsedLen("rx"), UsedView("rx"),
            {d}, held["rx"])
  BY <1>q, <1>4, <1>7 DEF OwnInv, OwnedIn
<1>9. d \in P
  BY <1>4, <1>7 DEF Hand
<1>10. Owned(P, Busy("rx"), AvailLen("rx") + 1, A2, UsedLen("rx"), UsedView("rx"), {}, held["rx"])
  BY <1>1, <1>6, <1>7, <1>8, <1>9, OwnedGive, ZenonT(40)
<1>11. UsedLen("rx")' = UsedLen("rx") /\ UsedView("rx")' = UsedView("rx") /\ Busy("rx")' = Busy("rx")
  BY DEF UsedLen, UsedView, Busy
<1>12. OwnedIn("rx")'
  BY <1>5, <1>6, <1>7, <1>10, <1>11 DEF OwnedIn
<1>13. Gives
  BY <1>4, <1>5, <1>6, <1>11 DEF Gives, SameUsed
<1> QED
  BY <1>12, <1>13

\* What consume_tx_completions goes through are the used entries of the TX queue.
LEMMA CompletedView ==
  ASSUME OwnInv
  PROVE  /\ UnseenUsed("tx") = UsedView("tx")
         /\ CompletedTx = Ids(UsedLen("tx"), UsedView("tx")) \cap Pool("tx")
<1>1. NextUsed("tx") = last["tx"]
  BY QueueFacts DEF Queues
<1>2. UnseenUsed("tx") = UsedView("tx")
  BY <1>1 DEF UnseenUsed, UsedView, View, At
<1>3. DOMAIN UsedView("tx") = 0 .. UsedLen("tx") - 1
  BY DEF UsedView, View, UsedLen
<1> QED
  BY <1>2, <1>3 DEF CompletedTx, Ids

\* While there is a free slot the available ring of the TX queue has room.
LEMMA AnswerRoom ==
  ASSUME OwnInv, NEW busy, busy = in_flight \/ busy = in_flight \ CompletedTx, NEW s \in Pool("tx") \ busy
  PROVE  AvailLen("tx") < size["tx"]
<1>q. "tx" \in Queues
  BY DEF Queues
<1>1. /\ AvailLen("tx") \in Nat /\ UsedLen("tx") \in Nat /\ size["tx"] \in Nat
      /\ TxBuffers <= size["tx"] /\ Hand("tx") = {}
  BY <1>q, QueueFacts
<1>2. PICK P : P = Pool("tx") /\ IsFiniteSet(P) /\ Cardinality(P) = TxBuffers
  BY <1>q, PoolFacts
<1>3. Owned(P, in_flight, AvailLen("tx"), AvailView("tx"), UsedLen("tx"), UsedView("tx"), {}, held["tx"])
  BY <1>q, <1>1, <1>2 DEF OwnInv, OwnedIn, Busy
<1>4. \E u \in Nat : \E U : Owned(P, busy, AvailLen("tx"), AvailView("tx"), u, U, {}, held["tx"])
  <2>1. CASE busy = in_flight
    BY <1>1, <1>3, <2>1
  <2>2. CASE busy = in_flight \ CompletedTx
    <3>1. PICK C : C = CompletedTx
      OBVIOUS
    <3>2. C = Ids(UsedLen("tx"), UsedView("tx")) \cap P
      BY <1>2, <3>1, CompletedView
    <3>3. \A U2 : Owned(P, in_flight \ C, AvailLen("tx"), AvailView("tx"), 0, U2, {}, held["tx"])
      BY <1>1, <1>2, <1>3, <3>2, OwnedConsume
    <3> QED
      BY <2>2, <3>1, <3>3
  <2> QED
    BY <2>1, <2>2
<1>u. PICK u \in Nat : \E U : Owned(P, busy, AvailLen("tx"), AvailView("tx"), u, U, {}, held["tx"])
  BY <1>4
<1>5. IsFiniteSet(busy) /\ Cardinality(busy) \in Nat /\ Cardinality(held["tx"]) \in Nat
  BY <1>1, <1>2, <1>u, OwnedSizes
<1>6. AvailLen("tx") <= Cardinality(busy)
  <2>1. AvailLen("tx") + Cardinality(held["tx"]) + u + Cardinality({}) <= Cardinality(busy)
    BY <1>u DEF Owned
  <2>2. Cardinality({}) = 0
    BY FS_EmptySet
  <2> QED
    BY <1>1, <1>5, <1>u, <2>1, <2>2
<1>7. busy \cup {s} \in SUBSET P
  BY <1>2, <1>4 DEF Owned
<1>8. Cardinality(busy \cup {s}) = Cardinality(busy) + 1
  BY <1>5, FS_AddElement
<1>9. Cardinality(busy \cup {s}) <= Cardinality(P)
  BY <1>2, <1>7, FS_Subset
<1> QED
  BY <1>1, <1>2, <1>5, <1>6, <1>8, <1>9, PoolAssumption

\* Taking the TX completions, publishing an answer in a free slot, or both.
LEMMA TxOwned ==
  ASSUME OwnInv, NEW busy, UNCHANGED <<size, fetched, used, usedIdx, held>>,
         \/ busy = in_flight /\ last'["tx"] = last["tx"]
         \/ busy = in_flight \ CompletedTx /\ last'["tx"] = usedIdx["tx"],
         \/ in_flight' = busy /\ avail'["tx"] = avail["tx"] /\ availIdx'["tx"] = availIdx["tx"]
         \/ \E s \in Pool("tx") \ busy : MakeAvailable("tx", s) /\ in_flight' = busy \cup {s}
  PROVE  OwnedIn("tx")'
<1>q. "tx" \in Queues
  BY DEF Queues
<1>1. /\ AvailLen("tx") \in Nat /\ UsedLen("tx") \in Nat /\ size["tx"] \in Nat
      /\ TxBuffers <= size["tx"]
      /\ last["tx"] \in Idx /\ usedIdx["tx"] \in Idx /\ NextUsed("tx") = last["tx"] /\ Hand("tx") = {}
  BY <1>q, QueueFacts
<1>2. PICK P : P = Pool("tx") /\ IsFiniteSet(P) /\ Cardinality(P) = TxBuffers
  BY <1>q, PoolFacts
<1>3. Owned(P, in_flight, AvailLen("tx"), AvailView("tx"), UsedLen("tx"), UsedView("tx"), {}, held["tx"])
  BY <1>q, <1>1, <1>2 DEF OwnInv, OwnedIn, Busy
<1>4. Hand("tx")' = {} /\ NextUsed("tx")' = last'["tx"]
  <2>1. PICK x \in Idx : x = last'["tx"]
    BY <1>1
  <2>2. 0 \in 0 .. IdxWrap /\ x \in 0 .. IdxWrap - 1 /\ IdxWrap \in Nat
    BY WrapFacts DEF Idx
  <2>3. (x + 0) % IdxWrap = x
    BY <2>2, Onward
  <2>4. Handled("tx")' = 0
    BY DEF Handled
  <2>5. Hand("tx")' = {}
    BY DEF Hand, InHand
  <2> QED
    BY <2>1, <2>3, <2>4, <2>5 DEF NextUsed
<1>5. PICK u2 \in Nat : u2 = UsedLen("tx")'
  <2>1. PICK x \in Idx : x = last'["tx"]
    BY <1>1
  <2>2. Delta(x, usedIdx["tx"]) \in Nat
    BY <1>1, DeltaFacts
  <2> QED
    BY <1>4, <2>1, <2>2 DEF UsedLen
<1>6. PICK U2 : U2 = UsedView("tx")'
  OBVIOUS
<1>7. Owned(P, busy, AvailLen("tx"), AvailView("tx"), u2, U2, {}, held["tx"])
  <2>1. CASE busy = in_flight /\ last'["tx"] = last["tx"]
    <3>1. u2 = UsedLen("tx") /\ U2 = UsedView("tx")
      BY <1>1, <1>4, <1>5, <1>6, <2>1 DEF UsedLen, UsedView
    <3> QED
      BY <1>3, <2>1, <3>1
  <2>2. CASE busy = in_flight \ CompletedTx /\ last'["tx"] = usedIdx["tx"]
    <3>1. u2 = 0
      <4>1. PICK x \in Idx : x = usedIdx["tx"]
        BY <1>1
      <4>2. Delta(x, x) = 0
        BY DeltaFacts
      <4> QED
        BY <1>4, <1>5, <2>2, <4>1, <4>2 DEF UsedLen
    <3>2. PICK C : C = CompletedTx
      OBVIOUS
    <3>3. C = Ids(UsedLen("tx"), UsedView("tx")) \cap P
      BY <1>2, <3>2, CompletedView
    <3>4. Owned(P, in_flight \ C, AvailLen("tx"), AvailView("tx"), 0, U2, {}, held["tx"])
      BY <1>1, <1>2, <1>3, <3>3, OwnedConsume
    <3> QED
      BY <2>2, <3>1, <3>2, <3>4
  <2> QED
    BY <2>1, <2>2
<1>8. CASE in_flight' = busy /\ avail'["tx"] = avail["tx"] /\ availIdx'["tx"] = availIdx["tx"]
  <2>1. AvailLen("tx")' = AvailLen("tx") /\ AvailView("tx")' = AvailView("tx")
    BY <1>8 DEF AvailLen, AvailView
  <2> QED
    BY <1>2, <1>4, <1>5, <1>6, <1>7, <1>8, <2>1 DEF OwnedIn, Busy
<1>9. ASSUME NEW s \in Pool("tx") \ busy, MakeAvailable("tx", s), in_flight' = busy \cup {s}
      PROVE  OwnedIn("tx")'
  <2>1. Owned(P, in_flight', AvailLen("tx") + 1, AvailView("tx")', u2, U2, {}, held["tx"])
    <3>6. AvailLen("tx") < size["tx"]
      BY <1>9, AnswerRoom
    <3>7. PICK A2 : A2 = AvailView("tx")'
      OBVIOUS
    <3>8. /\ \A k \in 0 .. AvailLen("tx") - 1 : A2[k] = AvailView("tx")[k]
          /\ A2[AvailLen("tx")] = s
      BY <1>q, <1>9, <3>6, <3>7, MadeAvailable
    <3>9. s \in P /\ s \notin busy
      BY <1>2, <1>9
    <3>10. Owned(P, busy \cup {s}, AvailLen("tx") + 1, A2, u2, U2, {}, held["tx"])
      BY <1>1, <1>2, <1>5, <1>7, <3>8, <3>9, OwnedGive
    <3> QED
      BY <1>9, <3>7, <3>10
  <2>2. AvailLen("tx")' = AvailLen("tx") + 1
    <3>1. AvailLen("tx") < size["tx"]
      BY <1>9, AnswerRoom
    <3> QED
      BY <1>q, <1>9, <3>1, MadeAvailable
  <2> QED
    BY <1>2, <1>4, <1>5, <1>6, <2>1, <2>2 DEF OwnedIn, Busy
<1> QED
  BY <1>8, <1>9

\* Where the driver is in the used ring of the RX queue, and what it has in hand.
LEMMA Places ==
  /\ pc = "rx_entry" => Handled("rx") = i
  /\ pc \in Body \ {"rx_entry"} => Handled("rx") = i + 1
  /\ pc \notin Body => Handled("rx") = 0
  /\ pc \in {"tx_wait", "kick_tx", "recycle", "drop"} => Hand("rx") = {rxid} \cap Pool("rx")
  /\ pc \notin {"tx_wait", "kick_tx", "recycle", "drop"} => Hand("rx") = {}
<1>1. /\ pc = "rx_entry" => Handled("rx") = i
      /\ pc \in Body \ {"rx_entry"} => Handled("rx") = i + 1
      /\ pc \notin Body => Handled("rx") = 0
  BY DEF Handled, Body
<1>2. /\ pc \in {"tx_wait", "kick_tx", "recycle", "drop"} => Hand("rx") = {rxid} \cap Pool("rx")
      /\ pc \notin {"tx_wait", "kick_tx", "recycle", "drop"} => Hand("rx") = {}
  BY DEF Hand, InHand
<1> QED
  BY <1>1, <1>2

\* The same after a step.
LEMMA NextPlaces ==
  /\ pc' = "rx_entry" => Handled("rx")' = i'
  /\ pc' \in Body \ {"rx_entry"} => Handled("rx")' = i' + 1
  /\ pc' \notin Body => Handled("rx")' = 0
  /\ pc' \in {"tx_wait", "kick_tx", "recycle", "drop"} => Hand("rx")' = {rxid'} \cap Pool("rx")
  /\ pc' \notin {"tx_wait", "kick_tx", "recycle", "drop"} => Hand("rx")' = {}
<1>1. /\ pc' = "rx_entry" => Handled("rx")' = i'
      /\ pc' \in Body \ {"rx_entry"} => Handled("rx")' = i' + 1
      /\ pc' \notin Body => Handled("rx")' = 0
  BY DEF Handled, Body
<1>2. /\ pc' \in {"tx_wait", "kick_tx", "recycle", "drop"} => Hand("rx")' = {rxid'} \cap Pool("rx")
      /\ pc' \notin {"tx_wait", "kick_tx", "recycle", "drop"} => Hand("rx")' = {}
  BY DEF Hand, InHand
<1> QED
  BY <1>1, <1>2

\* One further than m further.
LEMMA OneOn ==
  ASSUME NEW a \in Idx, NEW m \in 0 .. IdxWrap - 1
  PROVE  (((a + m) % IdxWrap) + 1) % IdxWrap = (a + (m + 1)) % IdxWrap
<1>0. IdxWrap \in Nat \ {0} /\ a \in 0 .. IdxWrap - 1
  BY WrapFacts DEF Idx
<1>1. m \in 0 .. IdxWrap /\ m + 1 \in 0 .. IdxWrap /\ 1 \in 0 .. IdxWrap
  BY <1>0
<1>2. PICK c \in Idx : /\ c = (a + m) % IdxWrap
                       /\ c = IF a + m < IdxWrap THEN a + m ELSE a + m - IdxWrap
  BY <1>1, Onward
<1>3. (c + 1) % IdxWrap = IF c + 1 < IdxWrap THEN c + 1 ELSE c + 1 - IdxWrap
  BY <1>1, Onward
<1>4. PICK j \in 0 .. IdxWrap : j = m + 1
  BY <1>1
<1>5. (a + j) % IdxWrap = IF a + j < IdxWrap THEN a + j ELSE a + j - IdxWrap
  BY Onward
<1>6. c \in 0 .. IdxWrap - 1
  BY <1>2 DEF Idx
<1> QED
  BY <1>0, <1>2, <1>3, <1>4, <1>5, <1>6

\* What the loop body knows at an entry it has still to handle.
LEMMA EntryFacts ==
  ASSUME OwnInv, pc = "rx_entry", i < RxCount
  PROVE  /\ UsedLen("rx") > 0 /\ RxEntryId = UsedView("rx")[0] /\ Hand("rx") = {}
         /\ i \in 0 .. size["rx"] - 1 /\ Handled("rx") = i /\ RxCount \in 0 .. size["rx"]
         /\ RxCount - i <= UsedLen("rx")
<1>q. "rx" \in Queues /\ "rx_entry" \in Body
  BY DEF Queues, Body
<1>1. /\ NextUsed("rx") \in Idx /\ usedIdx["rx"] \in Idx /\ last["rx"] \in Idx /\ UsedLen("rx") \in Nat
      /\ size["rx"] \in Nat
  BY <1>q, QueueFacts
<1>2. i \in Nat /\ cur \in Idx
  BY DEF OwnInv, TypeOK
<1>3. RxCount \in Nat /\ Handled("rx") = i /\ Hand("rx") = {}
  BY <1>1, <1>2, DeltaFacts, Places, WrapFacts DEF RxCount
<1>4. RxCount <= size["rx"] /\ RxCount - i <= UsedLen("rx")
  BY <1>q, <1>3 DEF OwnInv, BodyInv
<1>5. UsedLen("rx") > 0 /\ i \in 0 .. size["rx"] - 1
  BY <1>1, <1>2, <1>3, <1>4
<1>6. UsedView("rx")[0] = used["rx"][NextUsed("rx") % size["rx"]]
  BY <1>1, <1>5, First DEF UsedView, UsedLen
<1>7. RxEntryId = UsedView("rx")[0]
  BY <1>3, <1>6 DEF RxEntryId, NextUsed
<1> QED
  BY <1>1, <1>3, <1>4, <1>5, <1>7

\* Steps that leave the RX queue and the place in it alone.
LEMMA RxStill ==
  ASSUME OwnInv, size' = size, avail'["rx"] = avail["rx"], availIdx'["rx"] = availIdx["rx"],
         fetched'["rx"] = fetched["rx"], used'["rx"] = used["rx"], usedIdx'["rx"] = usedIdx["rx"],
         held'["rx"] = held["rx"], last'["rx"] = last["rx"],
         Handled("rx")' = Handled("rx"), Hand("rx")' = Hand("rx"),
         pc' \in Body => pc \in Body /\ cur' = cur
  PROVE  OwnedIn("rx")' /\ BodyInv' /\ Stays("rx")
<1>q. "rx" \in Queues
  BY DEF Queues
<1>1. NextUsed("rx")' = NextUsed("rx")
  BY DEF NextUsed
<1>2. Busy("rx")' = Busy("rx")
  BY DEF Busy
<1>3. OwnedIn("rx")' /\ Stays("rx")
  BY <1>q, <1>1, <1>2, Untouched DEF OwnInv
<1>4. UsedLen("rx")' = UsedLen("rx")
  BY <1>1 DEF UsedLen
<1>5. BodyInv'
  BY <1>4 DEF OwnInv, BodyInv, RxCount
<1> QED
  BY <1>3, <1>5

\* Steps that handle one entry of the RX queue.
LEMMA RxTook ==
  ASSUME OwnInv, pc = "rx_entry", i < RxCount,
         UNCHANGED <<size, fetched, used, usedIdx, held, cur>>,
         avail'["rx"] = avail["rx"], availIdx'["rx"] = availIdx["rx"], last'["rx"] = last["rx"],
         Handled("rx")' = i + 1,
         \/ Hand("rx")' = {}
         \/ RxEntryId \in Pool("rx") /\ Hand("rx")' = {RxEntryId}
  PROVE  OwnedIn("rx")' /\ BodyInv' /\ GoesOn(1)
<1>q. "rx" \in Queues /\ "rx_entry" \in Body
  BY DEF Queues, Body
<1>1. /\ UsedLen("rx") > 0 /\ RxEntryId = UsedView("rx")[0] /\ Hand("rx") = {}
      /\ i \in 0 .. size["rx"] - 1 /\ Handled("rx") = i /\ RxCount \in 0 .. size["rx"]
      /\ RxCount - i <= UsedLen("rx")
  BY EntryFacts
<1>2. /\ last["rx"] \in Idx /\ UsedLen("rx") \in Nat /\ size["rx"] \in Nat /\ size["rx"] < IdxWrap
      /\ IdxWrap \in Nat
  BY <1>q, QueueFacts, WrapFacts
<1>3. i \in 0 .. IdxWrap - 1 /\ 1 \in 0 .. UsedLen("rx")
  BY <1>1, <1>2
<1>4. NextUsed("rx")' = (NextUsed("rx") + 1) % IdxWrap
  <2>1. NextUsed("rx") = (last["rx"] + i) % IdxWrap
    BY <1>1 DEF NextUsed
  <2>2. NextUsed("rx")' = (last["rx"] + (i + 1)) % IdxWrap
    BY DEF NextUsed
  <2> QED
    BY <1>2, <1>3, <2>1, <2>2, OneOn
<1>5. OwnedIn("rx")' /\ GoesOn(1)
  BY <1>1, <1>3, <1>4, TakeOwned
<1>6. RxCount' = RxCount
  BY DEF RxCount
<1>7. BodyInv'
  BY <1>1, <1>2, <1>5, <1>6 DEF BodyInv, GoesOn
<1> QED
  BY <1>5, <1>7

\* An answer, or none, leaves the RX ring alone; what it does to the TX queue is what
\* TxOwned needs.
LEMMA AnswerFacts ==
  ASSUME OwnInv, NEW next, NEW busy, AnswerOr(next, busy)
  PROVE  /\ avail'["rx"] = avail["rx"] /\ availIdx'["rx"] = availIdx["rx"]
         /\ DOMAIN avail' = Queues /\ pc' \in {"kick_tx", next}
         /\ \/ in_flight' = busy /\ avail' = avail /\ availIdx' = availIdx /\ txbuf' = txbuf /\ pc' = next
            \/ \E s \in Pool("tx") \ busy : MakeAvailable("tx", s) /\ in_flight' = busy \cup {s}
                 /\ txbuf' = [txbuf EXCEPT ![s] = rxbuf[RxEntryId].n] /\ pc' = "kick_tx"
<1>1. DOMAIN avail = Queues /\ availIdx \in [Queues -> Idx] /\ "rx" \in Queues
  BY DEF OwnInv, PerQueue, TypeOK, Queues
<1>2. ASSUME NEW s, AnswerIn(s, busy), s \in FreeTxSlot(busy)
      PROVE  /\ avail'["rx"] = avail["rx"] /\ availIdx'["rx"] = availIdx["rx"]
             /\ DOMAIN avail' = Queues /\ pc' = "kick_tx" /\ s \in Pool("tx") \ busy
             /\ MakeAvailable("tx", s) /\ in_flight' = busy \cup {s}
             /\ txbuf' = [txbuf EXCEPT ![s] = rxbuf[RxEntryId].n]
  BY <1>1, <1>2 DEF AnswerIn, MakeAvailable, FreeTxSlot
<1> QED
  BY <1>1, <1>2 DEF AnswerOr

\* Every step keeps the descriptors of the RX queue apart, and the loop body in step.
LEMMA NextRxOwned == ASSUME OwnInv, [Next]_vars PROVE OwnedIn("rx")' /\ BodyInv' /\ RxMoves
<1>q. "rx" \in Queues /\ "tx" \in Queues /\ "rx" # "tx" /\ \A q \in Queues : q = "rx" \/ q = "tx"
  BY DEF Queues
<1>t. /\ availIdx \in [Queues -> Idx] /\ usedIdx \in [Queues -> Idx] /\ fetched \in [Queues -> Idx]
      /\ last \in [Queues -> Idx] /\ DOMAIN avail = Queues /\ DOMAIN used = Queues /\ DOMAIN held = Queues
      /\ i \in Nat /\ cur \in Idx /\ rxid \in Pool("rx")
  BY DEF OwnInv, TypeOK, PerQueue
<1>1. CASE \/ WaitForAck \/ ReadAck \/ LoopTop \/ Poll \/ PollTimeout \/ TxDrain \/ TxPoll \/ TxPollTimeout
  <2>1. UNCHANGED <<size, avail, availIdx, fetched, used, usedIdx, held>>
    BY <1>1 DEF WaitForAck, ReadAck, LoopTop, Poll, PollTimeout, TxDrain, TxPoll, TxPollTimeout,
           rings, fixed, device
  <2>2. /\ pc \in {"ctrl_wait", "ctrl_ack", "top", "poll", "tx_drain", "tx_poll"}
        /\ pc' \in {"ctrl_ack", "done", "top", "failed", "tx_drain", "rx_idx", "tx_poll"}
    BY <1>1 DEF WaitForAck, ReadAck, LoopTop, Poll, PollTimeout, TxDrain, TxPoll, TxPollTimeout,
           AfterLoop, PollReturns
  <2>3. last' = last \/ last' = [last EXCEPT !["tx"] = usedIdx["tx"]]
    BY <1>1 DEF WaitForAck, ReadAck, LoopTop, Poll, PollTimeout, TxDrain, TxPoll, TxPollTimeout
  <2>4. last'["rx"] = last["rx"]
    BY <1>q, <1>t, <2>3
  <2>5. pc \notin Body /\ pc' \notin Body
    BY <2>2 DEF Body
  <2>6. Handled("rx")' = Handled("rx") /\ Hand("rx")' = Hand("rx")
    BY <2>2, <2>5, Places, NextPlaces
  <2> QED
    BY <2>1, <2>4, <2>5, <2>6, RxStill DEF RxMoves
<1>2. CASE KickTx \/ AwaitTxSlot
  <2>1. UNCHANGED <<size, fetched, used, usedIdx, held, cur, i, rxid>>
    BY <1>2 DEF KickTx, AwaitTxSlot, rings, fixed, device
  <2>2. last'["rx"] = last["rx"]
    <3>1. last' = last \/ last' = [last EXCEPT !["tx"] = usedIdx["tx"]]
      BY <1>2 DEF KickTx, AwaitTxSlot, ConsumeTx
    <3> QED
      BY <1>q, <1>t, <3>1
  <2>3. pc \in {"kick_tx", "tx_wait"}
    BY <1>2 DEF KickTx, AwaitTxSlot
  <2>4. /\ avail'["rx"] = avail["rx"] /\ availIdx'["rx"] = availIdx["rx"]
        /\ pc' \in {"tx_wait", "kick_tx", "recycle", "drop"}
    <3>1. CASE KickTx
      BY <3>1 DEF KickTx, rings
    <3>2. CASE AwaitTxSlot /\ late
      BY <3>2 DEF AwaitTxSlot
    <3>3. CASE AwaitTxSlot /\ ~late
      <4>1. AnswerOr("tx_wait", in_flight \ CompletedTx)
        BY <3>3 DEF AwaitTxSlot
      <4> QED
        BY <4>1, AnswerFacts
    <3> QED
      BY <1>2, <3>1, <3>2, <3>3
  <2>5. /\ pc \in Body \ {"rx_entry"} /\ pc' \in Body \ {"rx_entry"}
        /\ pc \in {"tx_wait", "kick_tx", "recycle", "drop"}
    BY <2>3, <2>4 DEF Body
  <2>6. Handled("rx")' = Handled("rx") /\ Hand("rx")' = Hand("rx")
    BY <2>1, <2>4, <2>5, Places, NextPlaces
  <2> QED
    BY <2>1, <2>2, <2>4, <2>5, <2>6, RxStill DEF RxMoves
<1>3. CASE ReadRxIdx
  <2>1. /\ UNCHANGED <<size, avail, availIdx, fetched, used, usedIdx, held, last>>
        /\ pc = "rx_idx" /\ pc' = "rx_entry" /\ cur' = usedIdx["rx"] /\ i' = 0
    BY <1>3 DEF ReadRxIdx, rings, fixed, device
  <2>2. pc \notin Body /\ pc' \in Body
    BY <2>1 DEF Body
  <2>3. Handled("rx")' = 0 /\ Handled("rx") = 0 /\ Hand("rx")' = {} /\ Hand("rx") = {}
    BY <2>1, <2>2, Places, NextPlaces
  <2>4. NextUsed("rx")' = NextUsed("rx") /\ Busy("rx")' = Busy("rx")
    BY <2>1, <2>3 DEF NextUsed, Busy
  <2>5. OwnedIn("rx")' /\ Stays("rx")
    BY <1>q, <2>1, <2>3, <2>4, Untouched DEF OwnInv
  <2>6. PICK x \in Idx : x = last["rx"]
    BY <1>q, <1>t
  <2>7. NextUsed("rx") = x
    <3>1. 0 \in 0 .. IdxWrap /\ x \in 0 .. IdxWrap - 1 /\ IdxWrap \in Nat
      BY WrapFacts DEF Idx
    <3>2. (x + 0) % IdxWrap = x
      BY <3>1, Onward
    <3> QED
      BY <2>3, <2>6, <3>2 DEF NextUsed
  <2>8. RxCount' = UsedLen("rx") /\ UsedLen("rx")' = UsedLen("rx")
    BY <2>1, <2>4, <2>6, <2>7 DEF RxCount, UsedLen
  <2>9. /\ UsedLen("rx") \in Nat /\ AvailLen("rx") \in Nat /\ size["rx"] \in Nat
        /\ Cardinality(held["rx"]) \in Nat /\ Cardinality(Hand("rx")) \in Nat
        /\ AvailLen("rx") + Cardinality(held["rx"]) + UsedLen("rx") + Cardinality(Hand("rx")) <= size["rx"]
    BY <1>q, QueueFacts
  <2>10. UsedLen("rx") <= size["rx"]
    BY <2>9
  <2>11. BodyInv'
    BY <2>1, <2>3, <2>8, <2>9, <2>10 DEF BodyInv
  <2> QED
    BY <2>5, <2>11 DEF RxMoves
<1>4. CASE SkipOutsideId
  <2>1. /\ UNCHANGED <<size, avail, availIdx, fetched, used, usedIdx, held, last, cur>>
        /\ pc = "rx_entry" /\ i < RxCount /\ pc' = "rx_entry" /\ i' = i + 1
    BY <1>4 DEF SkipOutsideId, rings, fixed, device
  <2>2. Handled("rx")' = i + 1 /\ Hand("rx")' = {}
    BY <2>1, NextPlaces
  <2>3. {RxEntryId} \cap Pool("rx") = {}
    BY <1>4 DEF SkipOutsideId
  <2> QED
    BY <2>1, <2>2, <2>3, RxTook DEF RxMoves
<1>5. ASSUME UNCHANGED <<size, fetched, used, usedIdx, held, cur, i>>, pc = "rx_entry", i < RxCount,
             avail'["rx"] = avail["rx"], availIdx'["rx"] = availIdx["rx"], last'["rx"] = last["rx"],
             RxEntryId \in Pool("rx"), rxid' = RxEntryId, pc' \in {"tx_wait", "kick_tx", "recycle"}
      PROVE  OwnedIn("rx")' /\ BodyInv' /\ RxMoves
  <2>1. pc' \in Body \ {"rx_entry"}
    BY <1>5 DEF Body
  <2>2. Handled("rx")' = i + 1 /\ Hand("rx")' = {RxEntryId}
    BY <1>5, <2>1, NextPlaces
  <2>3. {RxEntryId} \cap Pool("rx") = {RxEntryId}
    BY <1>5
  <2> QED
    BY <1>5, <2>2, <2>3, RxTook DEF RxMoves
<1>6. CASE SkipPacket \/ CountPacket
  <2>1. /\ UNCHANGED <<size, avail, availIdx, fetched, used, usedIdx, held, last, cur, i>>
        /\ pc = "rx_entry" /\ i < RxCount /\ RxEntryId \in Pool("rx") /\ rxid' = RxEntryId /\ pc' = "recycle"
    BY <1>6 DEF SkipPacket, CountPacket, Matches, rings, fixed, sizes, device
  <2> QED
    BY <1>5, <2>1
<1>7. CASE EchoPacket \/ EchoOrWait
  <2>1. /\ UNCHANGED <<size, fetched, used, usedIdx, held, cur, i>>
        /\ pc = "rx_entry" /\ i < RxCount /\ RxEntryId \in Pool("rx") /\ rxid' = RxEntryId
    BY <1>7 DEF EchoPacket, EchoOrWait, Matches, fixed, device
  <2>2. last'["rx"] = last["rx"]
    <3>1. last' = last \/ last' = [last EXCEPT !["tx"] = usedIdx["tx"]]
      BY <1>7 DEF EchoPacket, EchoOrWait, ConsumeTx
    <3> QED
      BY <1>q, <1>t, <3>1
  <2>3. AnswerOr("recycle", in_flight \ CompletedTx) \/ AnswerOr("tx_wait", in_flight)
    BY <1>7 DEF EchoPacket, EchoOrWait
  <2>4. /\ avail'["rx"] = avail["rx"] /\ availIdx'["rx"] = availIdx["rx"]
        /\ pc' \in {"tx_wait", "kick_tx", "recycle"}
    BY <2>3, AnswerFacts
  <2> QED
    BY <1>5, <2>1, <2>2, <2>4
<1>8. CASE Recycle
  <2>1. /\ UNCHANGED <<size, fetched, used, usedIdx, held, last, cur, i>> /\ MakeAvailable("rx", rxid)
        /\ pc \in {"recycle", "drop"} /\ pc' \in {"kick_rx", "kick_drop"}
    BY <1>8 DEF Recycle, fixed, device
  <2>2. pc \in Body \ {"rx_entry"} /\ pc' \in Body \ {"rx_entry"}
    BY <2>1 DEF Body
  <2>3. /\ Handled("rx") = i + 1 /\ Handled("rx")' = i + 1
        /\ Hand("rx") = {rxid} /\ Hand("rx")' = {}
    BY <1>t, <2>1, <2>2, Places, NextPlaces
  <2>4. NextUsed("rx")' = NextUsed("rx")
    BY <2>1, <2>3 DEF NextUsed
  <2>5. OwnedIn("rx")' /\ Gives
    BY <2>1, <2>3, <2>4, GiveOwned
  <2>6. UsedLen("rx")' = UsedLen("rx") /\ RxCount' = RxCount
    BY <2>1, <2>4 DEF UsedLen, RxCount
  <2>7. BodyInv'
    BY <2>1, <2>2, <2>3, <2>6 DEF OwnInv, BodyInv
  <2> QED
    BY <2>5, <2>7 DEF RxMoves
<1>9. CASE KickRx
  <2>1. /\ UNCHANGED <<size, avail, availIdx, fetched, used, usedIdx, held>>
        /\ pc \in {"kick_rx", "kick_drop"}
    BY <1>9 DEF KickRx, rings, fixed
  <2>2. \/ pc' = "rx_entry" /\ i' = i + 1 /\ UNCHANGED <<last, cur>>
        \/ pc' \in {"done", "tx_drain"} /\ last' = [last EXCEPT !["rx"] = cur]
    BY <1>9 DEF KickRx, AfterLoop
  <2>3. pc \in Body /\ Handled("rx") = i + 1 /\ Hand("rx") = {}
    <3>1. pc \in Body \ {"rx_entry"}
      BY <2>1 DEF Body
    <3> QED
      BY <2>1, <3>1, Places
  <2>4. CASE pc' = "rx_entry" /\ i' = i + 1 /\ UNCHANGED <<last, cur>>
    <3>1. Handled("rx")' = i + 1 /\ Hand("rx")' = {}
      BY <2>4, NextPlaces
    <3> QED
      BY <2>1, <2>3, <2>4, <3>1, RxStill DEF RxMoves
  <2>5. CASE pc' \in {"done", "tx_drain"} /\ last' = [last EXCEPT !["rx"] = cur]
    <3>1. pc' \notin Body /\ last'["rx"] = cur
      BY <1>q, <1>t, <2>5 DEF Body
    <3>2. Handled("rx")' = 0 /\ Hand("rx")' = {}
      BY <2>5, <3>1, NextPlaces
    <3>3. NextUsed("rx")' = cur
      <4>1. 0 \in 0 .. IdxWrap /\ cur \in 0 .. IdxWrap - 1 /\ IdxWrap \in Nat
        BY <1>t, WrapFacts DEF Idx
      <4>2. (cur + 0) % IdxWrap = cur
        BY <1>t, <4>1, Onward
      <4> QED
        BY <3>1, <3>2, <4>2 DEF NextUsed
    <3>4. PICK m \in 0 .. UsedLen("rx") : cur = (NextUsed("rx") + m) % IdxWrap
      <4>1. PICK x \in Idx : x = last["rx"]
        BY <1>q, <1>t
      <4>2. RxCount = Delta(x, cur) /\ NextUsed("rx") = (x + (i + 1)) % IdxWrap
        BY <2>3, <4>1 DEF RxCount, NextUsed
      <4>3. i + 1 <= RxCount /\ RxCount - (i + 1) <= UsedLen("rx")
        BY <2>3 DEF OwnInv, BodyInv
      <4>4. RxCount \in Nat /\ UsedLen("rx") \in Nat
        BY <1>q, <1>t, <4>2, DeltaFacts, WrapFacts, QueueFacts
      <4>5. PICK h \in 0 .. Delta(x, cur) : h = i + 1
        BY <1>t, <4>2, <4>3, <4>4
      <4>6. PICK c \in Idx : c = NextUsed("rx") /\ Delta(c, cur) = RxCount - (i + 1)
        BY <1>t, <4>2, <4>5, Advanced
      <4>7. (c + Delta(c, cur)) % IdxWrap = cur
        BY <1>t, DeltaFacts
      <4>8. Delta(c, cur) \in 0 .. UsedLen("rx")
        BY <1>t, <4>3, <4>4, <4>6
      <4> QED
        BY <4>6, <4>7, <4>8
    <3>5. OwnedIn("rx")' /\ GoesOn(m)
      BY <2>1, <2>3, <3>2, <3>3, <3>4, TakeOwned
    <3>6. LoopLeft'
      BY <2>5 DEF LoopLeft
    <3>7. RxMoves
      BY <2>3, <3>2, <3>5, <3>6 DEF RxMoves
    <3> QED
      BY <3>1, <3>5, <3>7 DEF BodyInv
  <2> QED
    BY <2>2, <2>4, <2>5
<1>10. CASE EndRx
  <2>1. /\ UNCHANGED <<size, avail, availIdx, fetched, used, usedIdx, held>>
        /\ pc = "rx_entry" /\ i = RxCount /\ pc' \in {"poll", "top"} /\ last' = [last EXCEPT !["rx"] = cur]
    BY <1>10 DEF EndRx, NextTurn, rings, fixed, device
  <2>2. pc' \notin Body /\ last'["rx"] = cur
    BY <1>q, <1>t, <2>1 DEF Body
  <2>3. Handled("rx")' = 0 /\ Hand("rx")' = {} /\ Hand("rx") = {} /\ Handled("rx") = RxCount
    BY <2>1, <2>2, Places, NextPlaces
  <2>4. NextUsed("rx")' = cur
    <3>1. 0 \in 0 .. IdxWrap /\ cur \in 0 .. IdxWrap - 1 /\ IdxWrap \in Nat
      BY <1>t, WrapFacts DEF Idx
    <3>2. (cur + 0) % IdxWrap = cur
      BY <1>t, <3>1, Onward
    <3> QED
      BY <2>2, <2>3, <3>2 DEF NextUsed
  <2>5. NextUsed("rx") = cur
    <3>1. PICK x \in Idx : x = last["rx"]
      BY <1>q, <1>t
    <3>2. (x + Delta(x, cur)) % IdxWrap = cur
      BY <1>t, DeltaFacts
    <3> QED
      BY <2>3, <3>1, <3>2 DEF NextUsed, RxCount
  <2>6. Busy("rx")' = Busy("rx")
    BY DEF Busy
  <2>7. OwnedIn("rx")' /\ Stays("rx")
    BY <1>q, <2>1, <2>3, <2>4, <2>5, <2>6, Untouched DEF OwnInv
  <2> QED
    BY <2>2, <2>7 DEF BodyInv, RxMoves
<1>11. ASSUME UNCHANGED <<size, last, cur, i, pc, rxid>>
       PROVE  /\ Handled("rx")' = Handled("rx") /\ Hand("rx")' = Hand("rx")
              /\ NextUsed("rx")' = NextUsed("rx") /\ Busy("rx")' = Busy("rx") /\ RxCount' = RxCount
  BY <1>11 DEF Handled, Hand, InHand, NextUsed, Busy, RxCount
<1>12. CASE \E q \in Queues : Fetch(q)
  <2>1. PICK q \in Queues : Fetch(q)
    BY <1>12
  <2>2. UNCHANGED <<size, last, cur, i, pc, rxid, avail, availIdx, used, usedIdx>>
    BY <2>1 DEF Fetch, rings, fixed, driver
  <2>3. /\ fetched[q] # availIdx[q] /\ fetched' = [fetched EXCEPT ![q] = Succ(@)]
        /\ held' = [held EXCEPT ![q] = @ \cup {avail[q][fetched[q] % size[q]]}]
    BY <2>1 DEF Fetch
  <2>4. CASE q = "tx"
    BY <1>q, <1>t, <1>11, <2>2, <2>3, <2>4, RxStill DEF RxMoves
  <2>5. CASE q = "rx"
    <3>1. /\ fetched'["rx"] = Succ(fetched["rx"])
          /\ held'["rx"] = held["rx"] \cup {avail["rx"][fetched["rx"] % size["rx"]]}
      BY <1>q, <1>t, <2>3, <2>5
    <3>2. OwnedIn("rx")' /\ Fetches("rx")
      BY <1>q, <1>11, <2>2, <2>3, <2>5, <3>1, FetchOwned
    <3>3. UsedLen("rx")' = UsedLen("rx")
      BY <1>11, <2>2 DEF UsedLen
    <3> QED
      BY <1>11, <2>2, <3>2, <3>3 DEF OwnInv, BodyInv, RxMoves
  <2> QED
    BY <1>q, <2>4, <2>5
<1>13. CASE \E d \in Pool("rx") : Receive(d)
  <2>1. PICK d \in Pool("rx") : Receive(d)
    BY <1>13
  <2>2. /\ UNCHANGED <<size, last, cur, i, pc, rxid, avail, availIdx, fetched>> /\ d \in held["rx"]
        /\ usedIdx' = [usedIdx EXCEPT !["rx"] = Succ(@)] /\ held' = [held EXCEPT !["rx"] = @ \ {d}]
    BY <2>1 DEF Receive, ReturnUsed, fixed, driver
  <2>3. PICK v : /\ v = d \/ v = OutsideId("rx")
                 /\ v = d \/ misreported'
                 /\ used' = [used EXCEPT !["rx"][usedIdx["rx"] % size["rx"]] = v]
    BY <2>1 DEF Receive, ReturnUsed
  <2>4. /\ used'["rx"] = [used["rx"] EXCEPT ![usedIdx["rx"] % size["rx"]] = v]
        /\ usedIdx'["rx"] = Succ(usedIdx["rx"]) /\ held'["rx"] = held["rx"] \ {d}
    BY <1>q, <1>t, <2>2, <2>3
  <2>5. OwnedIn("rx")' /\ Returns("rx", d, v) /\ UsedLen("rx")' = UsedLen("rx") + 1
    BY <1>q, <1>11, <2>2, <2>3, <2>4, ReturnOwned DEF Returns
  <2>6. UsedLen("rx") \in Nat
    BY <1>q, QueueFacts
  <2>7. RxCount \in Nat /\ Handled("rx") \in Nat
    <3>1. PICK x \in Idx : x = last["rx"]
      BY <1>q, <1>t
    <3>2. RxCount \in Nat
      BY <1>t, <3>1, DeltaFacts, WrapFacts DEF RxCount
    <3> QED
      BY <1>t, <3>2, Places
  <2>8. RxMoves
    BY <1>q, <2>1, <2>3, <2>5, PoolFacts DEF RxMoves
  <2> QED
    BY <1>11, <2>2, <2>5, <2>6, <2>7, <2>8 DEF OwnInv, BodyInv
<1>14. CASE \E d \in Pool("tx") : Transmit(d)
  <2>1. PICK d \in Pool("tx") : Transmit(d)
    BY <1>14
  <2>2. /\ UNCHANGED <<size, last, cur, i, pc, rxid, avail, availIdx, fetched>>
        /\ usedIdx' = [usedIdx EXCEPT !["tx"] = Succ(@)] /\ held' = [held EXCEPT !["tx"] = @ \ {d}]
    BY <2>1 DEF Transmit, ReturnUsed, fixed, driver
  <2>3. PICK v : used' = [used EXCEPT !["tx"][usedIdx["tx"] % size["tx"]] = v]
    BY <2>1 DEF Transmit, ReturnUsed
  <2>4. used'["rx"] = used["rx"] /\ usedIdx'["rx"] = usedIdx["rx"] /\ held'["rx"] = held["rx"]
    BY <1>q, <1>t, <2>2, <2>3
  <2> QED
    BY <1>11, <2>2, <2>4, RxStill DEF RxMoves
<1>15. CASE \/ DeadlinePasses \/ AnswerCommand \/ ReturnCommand
            \/ \E q \in Queues : Sleep(q) \/ DeliverMsi(q)
            \/ UNCHANGED vars
  <2>1. UNCHANGED <<size, last, cur, i, pc, rxid, avail, availIdx, fetched, used, usedIdx, held>>
    BY <1>15 DEF DeadlinePasses, AnswerCommand, ReturnCommand, Sleep, DeliverMsi, vars, rings, fixed, sizes,
           device, driver
  <2> QED
    BY <1>11, <2>1, RxStill DEF RxMoves
<1> QED
  BY <1>1, <1>2, <1>3, <1>4, <1>6, <1>7, <1>8, <1>9, <1>10, <1>12, <1>13, <1>14, <1>15 DEF Next, DriverStep

\* Every step keeps the descriptors of the TX queue apart, and those in use in flight.
LEMMA NextTxOwned == ASSUME OwnInv, [Next]_vars PROVE OwnedIn("tx")'
<1>q. "rx" \in Queues /\ "tx" \in Queues /\ "rx" # "tx" /\ \A q \in Queues : q = "rx" \/ q = "tx"
  BY DEF Queues
<1>t. /\ availIdx \in [Queues -> Idx] /\ usedIdx \in [Queues -> Idx] /\ fetched \in [Queues -> Idx]
      /\ last \in [Queues -> Idx] /\ DOMAIN avail = Queues /\ DOMAIN used = Queues /\ DOMAIN held = Queues
  BY DEF OwnInv, TypeOK, PerQueue
<1>1. ASSUME UNCHANGED <<size, fetched, used, usedIdx, held, in_flight>>, last'["tx"] = last["tx"],
             avail'["tx"] = avail["tx"], availIdx'["tx"] = availIdx["tx"]
      PROVE  OwnedIn("tx")'
  BY <1>1, TxOwned
<1>2. CASE \/ WaitForAck \/ ReadAck \/ Poll \/ PollTimeout \/ TxPoll \/ TxPollTimeout \/ ReadRxIdx
           \/ SkipOutsideId \/ SkipPacket \/ CountPacket \/ KickTx
  <2>1. UNCHANGED <<size, fetched, used, usedIdx, held, in_flight, last, avail, availIdx>>
    BY <1>2 DEF WaitForAck, ReadAck, Poll, PollTimeout, TxPoll, TxPollTimeout, ReadRxIdx,
           SkipOutsideId, SkipPacket, CountPacket, KickTx, rings, fixed, sizes, device
  <2> QED
    BY <1>1, <2>1
<1>3. CASE KickRx \/ EndRx \/ Recycle
  <2>1. UNCHANGED <<size, fetched, used, usedIdx, held, in_flight>>
    BY <1>3 DEF KickRx, EndRx, Recycle, rings, fixed, device
  <2>2. last' = last \/ last' = [last EXCEPT !["rx"] = cur]
    BY <1>3 DEF KickRx, EndRx, Recycle
  <2>3. UNCHANGED <<avail, availIdx>> \/ MakeAvailable("rx", rxid)
    BY <1>3 DEF KickRx, EndRx, Recycle, rings
  <2>4. last'["tx"] = last["tx"] /\ avail'["tx"] = avail["tx"] /\ availIdx'["tx"] = availIdx["tx"]
    BY <1>q, <1>t, <2>2, <2>3 DEF MakeAvailable
  <2> QED
    BY <1>1, <2>1, <2>4
<1>4. CASE LoopTop \/ TxDrain
  <2>1. UNCHANGED <<size, fetched, used, usedIdx, held, avail, availIdx>>
    BY <1>4 DEF LoopTop, TxDrain, rings, fixed, device
  <2>2. \/ UNCHANGED <<in_flight, last>>
        \/ in_flight' = in_flight \ CompletedTx /\ last' = [last EXCEPT !["tx"] = usedIdx["tx"]]
    BY <1>4 DEF LoopTop, TxDrain
  <2>3. PICK busy : busy = in_flight'
    OBVIOUS
  <2>4. \/ busy = in_flight /\ last'["tx"] = last["tx"]
        \/ busy = in_flight \ CompletedTx /\ last'["tx"] = usedIdx["tx"]
    BY <1>q, <1>t, <2>2, <2>3
  <2> QED
    BY <2>1, <2>3, <2>4, TxOwned
<1>5. ASSUME NEW busy, NEW next, AnswerOr(next, busy),
             UNCHANGED <<size, fetched, used, usedIdx, held>>,
             \/ busy = in_flight /\ last' = last
             \/ busy = in_flight \ CompletedTx /\ last' = [last EXCEPT !["tx"] = usedIdx["tx"]]
      PROVE  OwnedIn("tx")'
  <2>1. \/ in_flight' = busy /\ avail'["tx"] = avail["tx"] /\ availIdx'["tx"] = availIdx["tx"]
        \/ \E s \in Pool("tx") \ busy : MakeAvailable("tx", s) /\ in_flight' = busy \cup {s}
    BY <1>5, AnswerFacts
  <2>2. \/ busy = in_flight /\ last'["tx"] = last["tx"]
        \/ busy = in_flight \ CompletedTx /\ last'["tx"] = usedIdx["tx"]
    BY <1>q, <1>t, <1>5
  <2> QED
    BY <1>5, <2>1, <2>2, TxOwned
<1>6. CASE EchoPacket
  <2>1. /\ UNCHANGED <<size, fetched, used, usedIdx, held>>
        /\ AnswerOr("recycle", in_flight \ CompletedTx) /\ last' = [last EXCEPT !["tx"] = usedIdx["tx"]]
    BY <1>6 DEF EchoPacket, ConsumeTx, fixed, device
  <2> QED
    BY <1>5, <2>1
<1>7. CASE EchoOrWait
  <2>1. /\ UNCHANGED <<size, fetched, used, usedIdx, held, last>> /\ AnswerOr("tx_wait", in_flight)
    BY <1>7 DEF EchoOrWait, fixed, device
  <2> QED
    BY <1>5, <2>1
<1>8. CASE AwaitTxSlot
  <2>1. UNCHANGED <<size, fetched, used, usedIdx, held>>
    BY <1>8 DEF AwaitTxSlot, fixed, device
  <2>2. CASE late
    <3>1. UNCHANGED <<in_flight, last, avail, availIdx>>
      BY <1>8, <2>2 DEF AwaitTxSlot
    <3> QED
      BY <1>1, <2>1, <3>1
  <2>3. CASE ~late
    <3>1. AnswerOr("tx_wait", in_flight \ CompletedTx) /\ last' = [last EXCEPT !["tx"] = usedIdx["tx"]]
      BY <1>8, <2>3 DEF AwaitTxSlot, ConsumeTx
    <3> QED
      BY <1>5, <2>1, <3>1
  <2> QED
    BY <2>2, <2>3
<1>9. ASSUME UNCHANGED <<size, last, in_flight>>
      PROVE  NextUsed("tx")' = NextUsed("tx") /\ Busy("tx")' = Busy("tx") /\ Hand("tx")' = Hand("tx")
  <2>1. Handled("tx")' = 0 /\ Handled("tx") = 0
    BY DEF Handled
  <2>2. Hand("tx")' = {} /\ Hand("tx") = {}
    BY DEF Hand, InHand
  <2> QED
    BY <1>9, <2>1, <2>2 DEF NextUsed, Busy
<1>10. CASE \E q \in Queues : Fetch(q)
  <2>1. PICK q \in Queues : Fetch(q)
    BY <1>10
  <2>2. UNCHANGED <<size, last, in_flight, avail, availIdx, used, usedIdx>>
    BY <2>1 DEF Fetch, rings, fixed, driver
  <2>3. /\ fetched[q] # availIdx[q] /\ fetched' = [fetched EXCEPT ![q] = Succ(@)]
        /\ held' = [held EXCEPT ![q] = @ \cup {avail[q][fetched[q] % size[q]]}]
    BY <2>1 DEF Fetch
  <2>4. CASE q = "rx"
    <3>1. fetched'["tx"] = fetched["tx"] /\ held'["tx"] = held["tx"]
      BY <1>q, <1>t, <2>3, <2>4
    <3> QED
      BY <1>q, <1>9, <2>2, <3>1, Untouched DEF OwnInv
  <2>5. CASE q = "tx"
    <3>1. /\ fetched'["tx"] = Succ(fetched["tx"])
          /\ held'["tx"] = held["tx"] \cup {avail["tx"][fetched["tx"] % size["tx"]]}
      BY <1>q, <1>t, <2>3, <2>5
    <3> QED
      BY <1>q, <1>9, <2>2, <2>3, <2>5, <3>1, FetchOwned
  <2> QED
    BY <1>q, <2>4, <2>5
<1>11. CASE \E d \in Pool("tx") : Transmit(d)
  <2>1. PICK d \in Pool("tx") : Transmit(d)
    BY <1>11
  <2>2. /\ UNCHANGED <<size, last, in_flight, avail, availIdx, fetched>> /\ d \in held["tx"]
        /\ usedIdx' = [usedIdx EXCEPT !["tx"] = Succ(@)] /\ held' = [held EXCEPT !["tx"] = @ \ {d}]
    BY <2>1 DEF Transmit, ReturnUsed, fixed, driver
  <2>3. PICK v : /\ v = d \/ v = OutsideId("tx")
                 /\ used' = [used EXCEPT !["tx"][usedIdx["tx"] % size["tx"]] = v]
    BY <2>1 DEF Transmit, ReturnUsed
  <2>4. /\ used'["tx"] = [used["tx"] EXCEPT ![usedIdx["tx"] % size["tx"]] = v]
        /\ usedIdx'["tx"] = Succ(usedIdx["tx"]) /\ held'["tx"] = held["tx"] \ {d}
    BY <1>q, <1>t, <2>2, <2>3
  <2> QED
    BY <1>q, <1>9, <2>2, <2>3, <2>4, ReturnOwned
<1>12. CASE \E d \in Pool("rx") : Receive(d)
  <2>1. PICK d \in Pool("rx") : Receive(d)
    BY <1>12
  <2>2. /\ UNCHANGED <<size, last, in_flight, avail, availIdx, fetched>>
        /\ usedIdx' = [usedIdx EXCEPT !["rx"] = Succ(@)] /\ held' = [held EXCEPT !["rx"] = @ \ {d}]
    BY <2>1 DEF Receive, ReturnUsed, fixed, driver
  <2>3. PICK v : used' = [used EXCEPT !["rx"][usedIdx["rx"] % size["rx"]] = v]
    BY <2>1 DEF Receive, ReturnUsed
  <2>4. used'["tx"] = used["tx"] /\ usedIdx'["tx"] = usedIdx["tx"] /\ held'["tx"] = held["tx"]
    BY <1>q, <1>t, <2>2, <2>3
  <2> QED
    BY <1>q, <1>9, <2>2, <2>4, Untouched DEF OwnInv
<1>13. CASE \/ DeadlinePasses \/ AnswerCommand \/ ReturnCommand
            \/ \E q \in Queues : Sleep(q) \/ DeliverMsi(q)
            \/ UNCHANGED vars
  <2>1. UNCHANGED <<size, last, in_flight, avail, availIdx, fetched, used, usedIdx, held>>
    BY <1>13 DEF DeadlinePasses, AnswerCommand, ReturnCommand, Sleep, DeliverMsi, vars, rings, fixed, sizes,
           device, driver
  <2> QED
    BY <1>1, <2>1
<1> QED
  BY <1>2, <1>3, <1>4, <1>6, <1>7, <1>8, <1>10, <1>11, <1>12, <1>13 DEF Next, DriverStep

\* Every step keeps the observers' count, the size and what belongs to each queue.
LEMMA NextCounted == ASSUME OwnInv, [Next]_vars PROVE CountInv' /\ PerQueue' /\ SizeInv'
<1>1. UNCHANGED <<size, sample>>
  <2>1. CASE DriverStep
    BY <2>1 DEF DriverStep, WaitForAck, ReadAck, LoopTop, ReadRxIdx, SkipOutsideId, SkipPacket, EchoPacket,
           EchoOrWait, AwaitTxSlot, CountPacket, KickTx, Recycle, KickRx, EndRx, Poll, PollTimeout,
           TxDrain, TxPoll, TxPollTimeout, rings, fixed, sizes
  <2>2. CASE ~DriverStep
    BY <2>2 DEF Next, DeadlinePasses, AnswerCommand, ReturnCommand, Fetch, Sleep,
           DeliverMsi, Receive, Transmit, vars, rings, fixed, sizes
  <2> QED
    BY <2>1, <2>2
<1>2. SizeInv'
  BY <1>1 DEF OwnInv, SizeInv
<1>3. PerQueue'
  <2>1. DOMAIN avail = Queues /\ DOMAIN used = Queues /\ DOMAIN held = Queues
    BY DEF OwnInv, PerQueue
  <2>2. DOMAIN avail' = Queues
    <3>1. CASE EchoPacket \/ EchoOrWait \/ AwaitTxSlot
      <4>1. (\E next, busy : AnswerOr(next, busy)) \/ avail' = avail
        BY <3>1 DEF EchoPacket, EchoOrWait, AwaitTxSlot
      <4> QED
        BY <2>1, <4>1, AnswerFacts
    <3>2. CASE Recycle
      BY <2>1, <3>2 DEF Recycle, MakeAvailable
    <3>3. CASE DriverStep /\ ~(EchoPacket \/ EchoOrWait \/ AwaitTxSlot \/ Recycle)
      <4>1. avail' = avail
        BY <3>3 DEF DriverStep, WaitForAck, ReadAck, LoopTop, ReadRxIdx, SkipOutsideId, SkipPacket,
               CountPacket, KickTx, KickRx, EndRx, Poll, PollTimeout, TxDrain, TxPoll, TxPollTimeout, rings
      <4> QED
        BY <2>1, <4>1
    <3>4. CASE ~DriverStep
      <4>1. avail' = avail
        BY <3>4 DEF Next, DeadlinePasses, AnswerCommand, ReturnCommand, Fetch, Sleep,
               DeliverMsi, Receive, Transmit, vars, rings
      <4> QED
        BY <2>1, <4>1
    <3> QED
      BY <3>1, <3>2, <3>3, <3>4
  <2>3. DOMAIN used' = Queues /\ DOMAIN held' = Queues
    <3>1. CASE DriverStep
      <4>1. UNCHANGED <<used, held>>
        BY <3>1 DEF DriverStep, WaitForAck, ReadAck, LoopTop, ReadRxIdx, SkipOutsideId, SkipPacket, EchoPacket,
               EchoOrWait, AwaitTxSlot, CountPacket, KickTx, Recycle, KickRx, EndRx, Poll, PollTimeout,
               TxDrain, TxPoll, TxPollTimeout, rings, device
      <4> QED
        BY <2>1, <4>1
    <3>2. CASE \E q \in Queues : Fetch(q)
      BY <2>1, <3>2 DEF Fetch, rings
    <3>3. CASE \/ \E d \in Pool("rx") : Receive(d)
               \/ \E d \in Pool("tx") : Transmit(d)
      BY <2>1, <3>3 DEF Receive, Transmit, ReturnUsed
    <3>4. CASE \/ DeadlinePasses \/ AnswerCommand \/ ReturnCommand
               \/ \E q \in Queues : Sleep(q) \/ DeliverMsi(q)
               \/ UNCHANGED vars
      <4>1. UNCHANGED <<used, held>>
        BY <3>4 DEF DeadlinePasses, AnswerCommand, ReturnCommand, Sleep, DeliverMsi, vars, rings,
               device
      <4> QED
        BY <2>1, <4>1
    <3> QED
      BY <3>1, <3>2, <3>3, <3>4 DEF Next
  <2> QED
    BY <2>2, <2>3 DEF PerQueue
<1>4. CountInv'
  <2>1. /\ ctl \in [ack : {AckInitial, "ok", "err"}, stage : {"published", "answered", "returned"},
                    applied : BOOLEAN, matched : 0 .. MaxPackets]
        /\ sample \in Observers /\ pc \in Counting => ctl.matched < MaxPackets
    BY DEF OwnInv, TypeOK, CountInv
  <2>2. CASE CountPacket
    BY <2>2 DEF CountPacket, CountInv, Counting
  <2>3. CASE KickRx
    <3>1. ctl' = ctl /\ pc' \in {"done", "tx_drain", "rx_entry"}
      BY <2>3 DEF KickRx, AfterLoop, rings, fixed
    <3>2. sample \in Observers /\ pc' = "rx_entry" => ~(ctl.matched >= MaxPackets)
      BY <2>3 DEF KickRx, Enough, AfterLoop
    <3>3. ctl.matched \in Int /\ MaxPackets \in Int
      BY <2>1, BoundAssumption
    <3> QED
      BY <1>1, <3>1, <3>2, <3>3 DEF CountInv, Counting
  <2>4. CASE DriverStep /\ ~CountPacket /\ ~KickRx
    <3>1. ctl' = ctl /\ (pc' \in Counting => pc \in Counting)
      BY <2>4 DEF DriverStep, WaitForAck, ReadAck, LoopTop, ReadRxIdx, SkipOutsideId, SkipPacket, EchoPacket,
             EchoOrWait, AwaitTxSlot, KickTx, Recycle, EndRx, Poll, PollTimeout,
             TxDrain, TxPoll, TxPollTimeout, rings, fixed, Counting, AnswerOr, AnswerIn, Matches, AfterLoop,
             NextTurn, PollReturns
    <3> QED
      BY <1>1, <2>1, <3>1 DEF CountInv
  <2>5. CASE AnswerCommand \/ ReturnCommand
    <3>1. pc' = pc /\ ctl'.matched = ctl.matched
      BY <2>1, <2>5 DEF AnswerCommand, ReturnCommand, driver
    <3> QED
      BY <1>1, <2>1, <3>1 DEF CountInv
  <2>6. CASE ~DriverStep /\ ~(AnswerCommand \/ ReturnCommand)
    <3>1. UNCHANGED <<pc, ctl>>
      BY <2>6 DEF Next, DeadlinePasses, Fetch, Sleep, DeliverMsi, Receive, Transmit, vars, rings, fixed,
             driver
    <3> QED
      BY <1>1, <2>1, <3>1 DEF CountInv
  <2> QED
    BY <2>2, <2>3, <2>4, <2>5, <2>6
<1> QED
  BY <1>2, <1>3, <1>4

\* What the steps of Next that a list does not name leave alone follows from these: the
\* available rings are written where an entry is made available, and nowhere else.
LEMMA AvailSteps ==
  ASSUME OwnInv, [Next]_vars
  PROVE  \/ UNCHANGED <<avail, availIdx>>
         \/ \E q \in Queues : \E d \in Pool(q) : MakeAvailable(q, d)
<1>q. "rx" \in Queues /\ "tx" \in Queues
  BY DEF Queues
<1>1. CASE EchoPacket \/ EchoOrWait \/ AwaitTxSlot
  <2>1. (\E next, busy : AnswerOr(next, busy)) \/ UNCHANGED <<avail, availIdx>>
    BY <1>1 DEF EchoPacket, EchoOrWait, AwaitTxSlot
  <2> QED
    BY <1>q, <2>1, AnswerFacts
<1>2. CASE Recycle
  BY <1>q, <1>2 DEF Recycle, OwnInv, TypeOK
<1>3. CASE DriverStep /\ ~(EchoPacket \/ EchoOrWait \/ AwaitTxSlot \/ Recycle)
  BY <1>3 DEF DriverStep, WaitForAck, ReadAck, LoopTop, ReadRxIdx, SkipOutsideId, SkipPacket,
         CountPacket, KickTx, KickRx, EndRx, Poll, PollTimeout, TxDrain, TxPoll, TxPollTimeout, rings
<1>4. CASE ~DriverStep
  BY <1>4 DEF Next, DeadlinePasses, AnswerCommand, ReturnCommand, Fetch, Sleep,
         DeliverMsi, Receive, Transmit, vars, rings
<1> QED
  BY <1>1, <1>2, <1>3, <1>4

\* Every step leaves the rings with ids of their pools in them, and the device with such.
LEMMA NextRings ==
  ASSUME OwnInv, [Next]_vars
  PROVE  /\ \A q \in Queues : /\ avail'[q] \in [0 .. size'[q] - 1 -> Pool(q)]
                              /\ used'[q] \in [0 .. size'[q] - 1 -> Pool(q) \cup {OutsideId(q)}]
                              /\ held'[q] \subseteq Pool(q)
         /\ availIdx' \in [Queues -> Idx] /\ usedIdx' \in [Queues -> Idx] /\ fetched' \in [Queues -> Idx]
<1>1. /\ \A q \in Queues : /\ avail[q] \in [0 .. size[q] - 1 -> Pool(q)]
                           /\ used[q] \in [0 .. size[q] - 1 -> Pool(q) \cup {OutsideId(q)}]
                           /\ held[q] \subseteq Pool(q)
      /\ availIdx \in [Queues -> Idx] /\ usedIdx \in [Queues -> Idx] /\ fetched \in [Queues -> Idx]
      /\ DOMAIN avail = Queues /\ DOMAIN used = Queues /\ DOMAIN held = Queues
  BY DEF OwnInv, TypeOK, PerQueue
<1>2. size' = size
  <2>1. CASE DriverStep
    BY <2>1 DEF DriverStep, WaitForAck, ReadAck, LoopTop, ReadRxIdx, SkipOutsideId, SkipPacket, EchoPacket,
           EchoOrWait, AwaitTxSlot, CountPacket, KickTx, Recycle, KickRx, EndRx, Poll, PollTimeout,
           TxDrain, TxPoll, TxPollTimeout, rings, fixed, sizes
  <2>2. CASE ~DriverStep
    BY <2>2 DEF Next, DeadlinePasses, AnswerCommand, ReturnCommand, Fetch, Sleep,
           DeliverMsi, Receive, Transmit, vars, rings, fixed, sizes
  <2> QED
    BY <2>1, <2>2
<1>3. \A x \in Idx : Succ(x) \in Idx
  BY WrapFacts DEF Succ, Idx
<1>4. /\ \A q \in Queues : avail'[q] \in [0 .. size[q] - 1 -> Pool(q)]
      /\ availIdx' \in [Queues -> Idx]
  <2>1. CASE UNCHANGED <<avail, availIdx>>
    BY <1>1, <2>1
  <2>2. CASE \E q \in Queues : \E d \in Pool(q) : MakeAvailable(q, d)
    <3>0. PICK q \in Queues : \E d \in Pool(q) : MakeAvailable(q, d)
      BY <2>2
    <3>1. PICK d \in Pool(q) : MakeAvailable(q, d)
      BY <3>0
    <3>2. availIdx' \in [Queues -> Idx]
      BY <1>1, <1>3, <3>1 DEF MakeAvailable
    <3>3. ASSUME NEW r \in Queues PROVE avail'[r] \in [0 .. size[r] - 1 -> Pool(r)]
      <4>1. CASE r = q
        <5>1. avail'[r] = [avail[r] EXCEPT ![availIdx[q] % size[q]] = d]
          BY <1>1, <3>1, <4>1 DEF MakeAvailable
        <5> QED
          BY <1>1, <3>1, <4>1, <5>1, ZenonT(40)
      <4>2. CASE r # q
        BY <1>1, <3>1, <4>2 DEF MakeAvailable
      <4> QED
        BY <4>1, <4>2
    <3> QED
      BY <3>2, <3>3
  <2> QED
    BY <2>1, <2>2, AvailSteps
<1>5. /\ \A q \in Queues : /\ used'[q] \in [0 .. size[q] - 1 -> Pool(q) \cup {OutsideId(q)}]
                           /\ held'[q] \subseteq Pool(q)
      /\ usedIdx' \in [Queues -> Idx] /\ fetched' \in [Queues -> Idx]
  <2>1. CASE UNCHANGED <<used, held, usedIdx, fetched>>
    BY <1>1, <2>1
  <2>2. CASE \E q \in Queues : Fetch(q)
    <3>1. PICK p \in Queues : Fetch(p)
      BY <2>2
    <3>2. /\ UNCHANGED <<used, usedIdx>> /\ fetched' = [fetched EXCEPT ![p] = Succ(@)]
          /\ held' = [held EXCEPT ![p] = @ \cup {avail[p][fetched[p] % size[p]]}]
      BY <3>1 DEF Fetch, rings
    <3>3. size[p] \in Nat \ {0} /\ fetched[p] \in Nat
      <4>1. size[p] \in 1 .. DeviceSize /\ fetched[p] \in Idx
        BY QueueFacts
      <4> QED
        BY <4>1, SizeAssumption DEF Idx
    <3>4. avail[p][fetched[p] % size[p]] \in Pool(p)
      <4>1. fetched[p] % size[p] \in 0 .. size[p] - 1
        BY <3>3
      <4>2. avail[p] \in [0 .. size[p] - 1 -> Pool(p)]
        BY <1>1
      <4> QED
        BY <4>1, <4>2
    <3>5. \A q \in Queues : held'[q] \subseteq Pool(q)
      BY <1>1, <3>2, <3>4
    <3>6. fetched' \in [Queues -> Idx]
      BY <1>1, <1>3, <3>2
    <3> QED
      BY <1>1, <3>2, <3>5, <3>6
  <2>3. ASSUME NEW p \in Queues, NEW d \in Pool(p), ReturnUsed(p, d), fetched' = fetched
        PROVE  /\ \A q \in Queues : /\ used'[q] \in [0 .. size[q] - 1 -> Pool(q) \cup {OutsideId(q)}]
                                    /\ held'[q] \subseteq Pool(q)
               /\ usedIdx' \in [Queues -> Idx] /\ fetched' \in [Queues -> Idx]
    <3>1. PICK v \in Pool(p) \cup {OutsideId(p)} : used' = [used EXCEPT ![p][usedIdx[p] % size[p]] = v]
      BY <2>3 DEF ReturnUsed
    <3>2. usedIdx' = [usedIdx EXCEPT ![p] = Succ(@)] /\ held' = [held EXCEPT ![p] = @ \ {d}]
      BY <2>3 DEF ReturnUsed
    <3>3. ASSUME NEW q \in Queues PROVE used'[q] \in [0 .. size[q] - 1 -> Pool(q) \cup {OutsideId(q)}]
      <4>1. CASE q = p
        <5>1. used'[q] = [used[q] EXCEPT ![usedIdx[p] % size[p]] = v]
          BY <1>1, <3>1, <4>1
        <5> QED
          BY <1>1, <3>1, <4>1, <5>1
      <4>2. CASE q # p
        BY <1>1, <3>1, <4>2
      <4> QED
        BY <4>1, <4>2
    <3>4. \A q \in Queues : held'[q] \subseteq Pool(q)
      BY <1>1, <3>2
    <3>5. usedIdx' \in [Queues -> Idx]
      BY <1>1, <1>3, <3>2
    <3> QED
      BY <1>1, <2>3, <3>3, <3>4, <3>5
  <2>4. CASE \/ \E d \in Pool("rx") : Receive(d)
             \/ \E d \in Pool("tx") : Transmit(d)
    <3>1. \E p \in Queues : \E d \in Pool(p) : ReturnUsed(p, d) /\ fetched' = fetched
      BY <2>4 DEF Receive, Transmit, Queues
    <3> QED
      BY <2>3, <3>1
  <2>5. CASE DriverStep
    <3>1. UNCHANGED <<used, held, usedIdx, fetched>>
      BY <2>5 DEF DriverStep, WaitForAck, ReadAck, LoopTop, ReadRxIdx, SkipOutsideId, SkipPacket, EchoPacket,
             EchoOrWait, AwaitTxSlot, CountPacket, KickTx, Recycle, KickRx, EndRx, Poll, PollTimeout,
             TxDrain, TxPoll, TxPollTimeout, rings, device
    <3> QED
      BY <2>1, <3>1
  <2>6. CASE \/ DeadlinePasses \/ AnswerCommand \/ ReturnCommand
             \/ \E q \in Queues : Sleep(q) \/ DeliverMsi(q)
             \/ UNCHANGED vars
    <3>1. UNCHANGED <<used, held, usedIdx, fetched>>
      BY <2>6 DEF DeadlinePasses, AnswerCommand, ReturnCommand, Sleep, DeliverMsi, vars, rings, device
    <3> QED
      BY <2>1, <3>1
  <2> QED
    BY <2>2, <2>4, <2>5, <2>6 DEF Next
<1> QED
  BY <1>1, <1>2, <1>4, <1>5

\* Every step leaves the driver's and the device's own variables within their types.
LEMMA NextOwnTypes ==
  ASSUME OwnInv, [Next]_vars
  PROVE  /\ last' \in [Queues -> Idx] /\ cur' \in Idx /\ i' \in 0 .. size["rx"]
         /\ rxid' \in Pool("rx") /\ in_flight' \subseteq Pool("tx")
<1>t. /\ last \in [Queues -> Idx] /\ cur \in Idx /\ i \in 0 .. size["rx"]
      /\ rxid \in Pool("rx") /\ in_flight \subseteq Pool("tx") /\ usedIdx \in [Queues -> Idx]
  BY DEF OwnInv, TypeOK
<1>q. "rx" \in Queues /\ "tx" \in Queues /\ usedIdx["rx"] \in Idx /\ usedIdx["tx"] \in Idx
  BY <1>t DEF Queues
<1>0. 0 \in Idx /\ 0 \in Pool("rx") /\ size["rx"] \in Nat /\ 0 \in 0 .. size["rx"]
  <2>1. size["rx"] \in 1 .. DeviceSize
    BY <1>q, QueueFacts
  <2> QED
    BY <2>1, WrapFacts, PoolAssumption DEF Idx, Pool
<1>1. last' \in [Queues -> Idx] /\ cur' \in Idx
  <2>1. /\ \/ last' = last \/ last' = [last EXCEPT !["tx"] = usedIdx["tx"]] 
           \/ last' = [last EXCEPT !["rx"] = cur]
        /\ cur' \in {cur, 0, usedIdx["rx"]}
    <3>1. CASE DriverStep
      BY <3>1 DEF DriverStep, WaitForAck, ReadAck, LoopTop, ReadRxIdx, SkipOutsideId, SkipPacket, EchoPacket,
             EchoOrWait, AwaitTxSlot, CountPacket, KickTx, Recycle, KickRx, EndRx, Poll, PollTimeout,
             TxDrain, TxPoll, TxPollTimeout, ConsumeTx
    <3>2. CASE ~DriverStep
      BY <3>2 DEF Next, DeadlinePasses, AnswerCommand, ReturnCommand, Fetch, Sleep,
             DeliverMsi, Receive, Transmit, vars, driver
    <3> QED
      BY <3>1, <3>2
  <2> QED
    BY <1>0, <1>q, <1>t, <2>1
<1>2. i' \in 0 .. size["rx"]
  <2>1. CASE SkipOutsideId
    <3>1. i' = i + 1 /\ i \in 0 .. size["rx"] - 1
      BY <2>1, EntryFacts DEF SkipOutsideId
    <3> QED
      BY <1>0, <3>1
  <2>2. CASE KickRx
    <3>1. pc \in Body /\ Handled("rx") = i + 1
      BY <2>2, Places DEF KickRx, Body
    <3>2. Handled("rx") <= RxCount /\ RxCount <= size["rx"]
      BY <3>1 DEF OwnInv, BodyInv
    <3>3. RxCount \in Nat
      BY <1>q, <1>t, DeltaFacts, WrapFacts DEF RxCount
    <3>4. i' = 0 \/ i' = i + 1
      BY <2>2 DEF KickRx
    <3> QED
      BY <1>0, <1>t, <3>1, <3>2, <3>3, <3>4
  <2>3. CASE DriverStep /\ ~SkipOutsideId /\ ~KickRx
    <3>1. i' \in {i, 0}
      BY <2>3 DEF DriverStep, WaitForAck, ReadAck, LoopTop, ReadRxIdx, SkipPacket, EchoPacket,
             EchoOrWait, AwaitTxSlot, CountPacket, KickTx, Recycle, EndRx, Poll, PollTimeout,
             TxDrain, TxPoll, TxPollTimeout
    <3> QED
      BY <1>0, <1>t, <3>1
  <2>4. CASE ~DriverStep
    BY <1>t, <2>4 DEF Next, DeadlinePasses, AnswerCommand, ReturnCommand, Fetch, Sleep,
           DeliverMsi, Receive, Transmit, vars, driver
  <2> QED
    BY <2>1, <2>2, <2>3, <2>4
<1>3. rxid' \in Pool("rx")
  <2>1. CASE DriverStep
    <3>1. rxid' \in {rxid, 0} \/ (rxid' = RxEntryId /\ RxEntryId \in Pool("rx"))
      BY <2>1 DEF DriverStep, WaitForAck, ReadAck, LoopTop, ReadRxIdx, SkipOutsideId, SkipPacket, EchoPacket,
             EchoOrWait, AwaitTxSlot, CountPacket, KickTx, Recycle, KickRx, EndRx, Poll, PollTimeout,
             TxDrain, TxPoll, TxPollTimeout, Matches
    <3> QED
      BY <1>0, <1>t, <3>1
  <2>2. CASE ~DriverStep
    BY <1>t, <2>2 DEF Next, DeadlinePasses, AnswerCommand, ReturnCommand, Fetch, Sleep,
           DeliverMsi, Receive, Transmit, vars, driver
  <2> QED
    BY <2>1, <2>2
<1>4. in_flight' \subseteq Pool("tx")
  BY <1>q, NextTxOwned DEF OwnedIn, Owned, Busy
<1> QED
  BY <1>1, <1>2, <1>3, <1>4

\* The same for the flags, the places, the command and what has arrived.
LEMMA NextFlags ==
  ASSUME OwnInv, [Next]_vars
  PROVE  /\ sample' \in Samples /\ arrived' \in 0 .. MaxRx
         /\ ctl' \in [ack : {AckInitial, "ok", "err"}, stage : {"published", "answered", "returned"},
                      applied : BOOLEAN, matched : 0 .. MaxPackets]
         /\ kicked' \in [Queues -> BOOLEAN] /\ msi' \in [Queues -> BOOLEAN] /\ evt' \in [Queues -> BOOLEAN]
         /\ made_progress' \in BOOLEAN /\ late' \in BOOLEAN
         /\ pc' \in {"top", "rx_idx", "rx_entry", "kick_tx", "recycle", "kick_rx", "poll",
                     "tx_wait", "drop", "kick_drop", "ctrl_wait", "ctrl_ack",
                     "tx_drain", "tx_poll", "done", "failed"}
<1>t. /\ sample \in Samples /\ arrived \in 0 .. MaxRx
      /\ ctl \in [ack : {AckInitial, "ok", "err"}, stage : {"published", "answered", "returned"},
                  applied : BOOLEAN, matched : 0 .. MaxPackets]
      /\ kicked \in [Queues -> BOOLEAN] /\ msi \in [Queues -> BOOLEAN] /\ evt \in [Queues -> BOOLEAN]
      /\ made_progress \in BOOLEAN /\ late \in BOOLEAN
      /\ pc \in {"top", "rx_idx", "rx_entry", "kick_tx", "recycle", "kick_rx", "poll",
                 "tx_wait", "drop", "kick_drop", "ctrl_wait", "ctrl_ack",
                 "tx_drain", "tx_poll", "done", "failed"}
  BY DEF OwnInv, TypeOK
<1>1. sample' \in Samples
  <2>1. CASE DriverStep
    BY <1>t, <2>1 DEF DriverStep, WaitForAck, ReadAck, LoopTop, ReadRxIdx, SkipOutsideId, SkipPacket,
           EchoPacket, EchoOrWait, AwaitTxSlot, CountPacket, KickTx, Recycle, KickRx, EndRx, Poll, PollTimeout,
           TxDrain, TxPoll, TxPollTimeout, rings, fixed, sizes
  <2>2. CASE ~DriverStep
    BY <1>t, <2>2 DEF Next, DeadlinePasses, AnswerCommand, ReturnCommand, Fetch, Sleep,
           DeliverMsi, Receive, Transmit, vars, rings, fixed, sizes
  <2> QED
    BY <2>1, <2>2
<1>2. arrived' \in 0 .. MaxRx
  <2>1. CASE \E d \in Pool("rx") : Receive(d)
    BY <1>t, <2>1, BoundAssumption DEF Receive
  <2>2. CASE DriverStep
    BY <1>t, <2>2 DEF DriverStep, WaitForAck, ReadAck, LoopTop, ReadRxIdx, SkipOutsideId, SkipPacket,
           EchoPacket, EchoOrWait, AwaitTxSlot, CountPacket, KickTx, Recycle, KickRx, EndRx, Poll, PollTimeout,
           TxDrain, TxPoll, TxPollTimeout, device
  <2>3. CASE ~DriverStep /\ ~(\E d \in Pool("rx") : Receive(d))
    BY <1>t, <2>3 DEF Next, DeadlinePasses, AnswerCommand, ReturnCommand, Fetch, Sleep,
           DeliverMsi, Transmit, vars, device
  <2> QED
    BY <2>1, <2>2, <2>3
<1>3. ctl' \in [ack : {AckInitial, "ok", "err"}, stage : {"published", "answered", "returned"},
                applied : BOOLEAN, matched : 0 .. MaxPackets]
  <2>1. CASE CountPacket
    <3>1. sample \in Observers /\ pc = "rx_entry" /\ ctl' = [ctl EXCEPT !.matched = @ + 1]
      BY <2>1 DEF CountPacket, Matches
    <3>2. ctl.matched < MaxPackets
      BY <3>1 DEF OwnInv, CountInv, Counting
    <3>3. ctl.matched + 1 \in 0 .. MaxPackets
      BY <1>t, <3>2, BoundAssumption
    <3> QED
      BY <1>t, <3>1, <3>3
  <2>2. CASE AnswerCommand
    BY <1>t, <2>2 DEF AnswerCommand
  <2>3. CASE ReturnCommand
    BY <1>t, <2>3 DEF ReturnCommand
  <2>4. CASE DriverStep /\ ~CountPacket
    BY <1>t, <2>4 DEF DriverStep, WaitForAck, ReadAck, LoopTop, ReadRxIdx, SkipOutsideId, SkipPacket,
           EchoPacket, EchoOrWait, AwaitTxSlot, KickTx, Recycle, KickRx, EndRx, Poll, PollTimeout,
           TxDrain, TxPoll, TxPollTimeout, rings, fixed
  <2>5. CASE ~DriverStep /\ ~(AnswerCommand \/ ReturnCommand)
    BY <1>t, <2>5 DEF Next, DeadlinePasses, Fetch, Sleep, DeliverMsi, Receive, Transmit, vars, rings, fixed
  <2> QED
    BY <2>1, <2>2, <2>3, <2>4, <2>5
<1>4. kicked' \in [Queues -> BOOLEAN] /\ msi' \in [Queues -> BOOLEAN] /\ evt' \in [Queues -> BOOLEAN]
  <2>1. ASSUME UNCHANGED <<kicked, msi, evt>>
        PROVE  kicked' \in [Queues -> BOOLEAN] /\ msi' \in [Queues -> BOOLEAN] /\ evt' \in [Queues -> BOOLEAN]
    BY <1>t, <2>1
  <2>2. CASE KickTx \/ KickRx
    BY <1>t, <2>2 DEF KickTx, KickRx
  <2>3. CASE Poll \/ TxPoll
    BY <1>t, <2>3 DEF Poll, TxPoll, PollReturns, device
  <2>4. CASE DriverStep /\ ~(KickTx \/ KickRx \/ Poll \/ TxPoll)
    <3>1. UNCHANGED <<kicked, msi, evt>>
      BY <2>4 DEF DriverStep, WaitForAck, ReadAck, LoopTop, ReadRxIdx, SkipOutsideId, SkipPacket,
             EchoPacket, EchoOrWait, AwaitTxSlot, CountPacket, Recycle, EndRx, PollTimeout,
             TxDrain, TxPollTimeout, device
    <3> QED
      BY <2>1, <3>1
  <2>5. CASE \E q \in Queues : Fetch(q) \/ Sleep(q) \/ DeliverMsi(q)
    <3>1. PICK q \in Queues : Fetch(q) \/ Sleep(q) \/ DeliverMsi(q)
      BY <2>5
    <3>2. PICK e \in Queues : e = Eventfd(q)
      BY DEF Eventfd, Queues
    <3>3. /\ kicked' = kicked \/ kicked' = [kicked EXCEPT ![q] = FALSE]
          /\ msi' = msi \/ msi' = [msi EXCEPT ![q] = FALSE]
          /\ evt' = evt \/ evt' = [evt EXCEPT ![e] = TRUE]
      BY <3>1, <3>2 DEF Fetch, Sleep, DeliverMsi
    <3>4. kicked' \in [Queues -> BOOLEAN]
      BY <1>t, <3>3
    <3>5. msi' \in [Queues -> BOOLEAN]
      BY <1>t, <3>3
    <3>6. evt' \in [Queues -> BOOLEAN]
      BY <1>t, <3>2, <3>3
    <3> QED
      BY <3>4, <3>5, <3>6
  <2>6. CASE \/ \E d \in Pool("rx") : Receive(d)
             \/ \E d \in Pool("tx") : Transmit(d)
    BY <1>t, <2>6, ZenonT(40) DEF Receive, Transmit, ReturnUsed, ByInterrupt, Queues
  <2>7. CASE DeadlinePasses \/ AnswerCommand \/ ReturnCommand \/ UNCHANGED vars
    <3>1. UNCHANGED <<kicked, msi, evt>>
      BY <2>7 DEF DeadlinePasses, AnswerCommand, ReturnCommand, vars, device
    <3> QED
      BY <2>1, <3>1
  <2> QED
    BY <2>2, <2>3, <2>4, <2>5, <2>6, <2>7 DEF Next
<1>5. made_progress' \in BOOLEAN /\ late' \in BOOLEAN
  <2>1. CASE DriverStep
    BY <1>t, <2>1 DEF DriverStep, WaitForAck, ReadAck, LoopTop, ReadRxIdx, SkipOutsideId, SkipPacket,
           EchoPacket, EchoOrWait, AwaitTxSlot, CountPacket, KickTx, Recycle, KickRx, EndRx, Poll, PollTimeout,
           TxDrain, TxPoll, TxPollTimeout, ByInterrupt, AnyTxUsed
  <2>2. CASE ~DriverStep
    BY <1>t, <2>2 DEF Next, DeadlinePasses, AnswerCommand, ReturnCommand, Fetch, Sleep,
           DeliverMsi, Receive, Transmit, vars, driver
  <2> QED
    BY <2>1, <2>2
<1>6. pc' \in {"top", "rx_idx", "rx_entry", "kick_tx", "recycle", "kick_rx", "poll",
               "tx_wait", "drop", "kick_drop", "ctrl_wait", "ctrl_ack",
               "tx_drain", "tx_poll", "done", "failed"}
  <2>1. CASE DriverStep
    BY <1>t, <2>1 DEF DriverStep, WaitForAck, ReadAck, LoopTop, ReadRxIdx, SkipOutsideId, SkipPacket,
           EchoPacket, EchoOrWait, AwaitTxSlot, CountPacket, KickTx, Recycle, KickRx, EndRx, Poll, PollTimeout,
           TxDrain, TxPoll, TxPollTimeout, AfterLoop, NextTurn, AnswerOr, AnswerIn, PollReturns
  <2>2. CASE ~DriverStep
    BY <1>t, <2>2 DEF Next, DeadlinePasses, AnswerCommand, ReturnCommand, Fetch, Sleep,
           DeliverMsi, Receive, Transmit, vars, driver
  <2> QED
    BY <2>1, <2>2
<1> QED
  BY <1>1, <1>2, <1>3, <1>4, <1>5, <1>6

\* Every step keeps the whole of it.
LEMMA NextOwnInv == ASSUME OwnInv, [Next]_vars PROVE OwnInv'
<1>1. OwnedIn("rx")' /\ BodyInv' /\ OwnedIn("tx")' /\ CountInv' /\ PerQueue' /\ SizeInv'
  BY NextRxOwned, NextTxOwned, NextCounted
<1>2. \A q \in Queues : OwnedIn(q)'
  BY <1>1 DEF Queues
<1>3. size' = size
  <2>1. CASE DriverStep
    BY <2>1 DEF DriverStep, WaitForAck, ReadAck, LoopTop, ReadRxIdx, SkipOutsideId, SkipPacket, EchoPacket,
           EchoOrWait, AwaitTxSlot, CountPacket, KickTx, Recycle, KickRx, EndRx, Poll, PollTimeout,
           TxDrain, TxPoll, TxPollTimeout, rings, fixed, sizes
  <2>2. CASE ~DriverStep
    BY <2>2 DEF Next, DeadlinePasses, AnswerCommand, ReturnCommand, Fetch, Sleep,
           DeliverMsi, Receive, Transmit, vars, rings, fixed, sizes
  <2> QED
    BY <2>1, <2>2
<1>4. size' \in [Queues -> 1 .. DeviceSize]
  BY <1>3 DEF OwnInv, TypeOK
<1>5. TypeOK'
  BY <1>3, <1>4, NextRings, NextOwnTypes, NextFlags DEF TypeOK
<1> QED
  BY <1>1, <1>2, <1>5 DEF OwnInv

\* When the loop begins the whole RX pool is in the available ring, in order.
LEMMA InitOwnInv ==
  Init => OwnInv /\ NothingLost /\ UsedLen("rx") = 0 /\ AvailLen("tx") = 0 /\ held["tx"] = {}
<1> SUFFICES ASSUME Init
             PROVE  OwnInv /\ NothingLost /\ UsedLen("rx") = 0 /\ AvailLen("tx") = 0 /\ held["tx"] = {}
  OBVIOUS
<1>q. "rx" \in Queues /\ "tx" \in Queues /\ "rx" # "tx" /\ \A q \in Queues : q = "rx" \/ q = "tx"
  BY DEF Queues
<1>0. IdxWrap \in Nat \ {0} /\ DeviceSize < IdxWrap /\ DeviceSize \in Nat /\ 0 \in Idx
  BY WrapFacts, SizeAssumption, WrapAssumption DEF Idx
<1>1. PICK n \in 1 .. DeviceSize : /\ ChosenSize(n) /\ RxBuffers <= n /\ TxBuffers <= n
                                   /\ size = [q \in Queues |-> n]
  BY DEF Init
<1>2. SizeInv
  BY <1>1 DEF SizeInv
<1>3. size["rx"] = n /\ size["tx"] = n /\ n \in Nat \ {0} /\ n < IdxWrap
      /\ RxBuffers \in Nat \ {0} /\ TxBuffers \in Nat \ {0} /\ RxBuffers \in 0 .. IdxWrap - 1
  BY <1>0, <1>1, <1>q, PoolAssumption
<1>4. /\ fetched = [q \in Queues |-> 0] /\ usedIdx = [q \in Queues |-> 0] /\ last = [q \in Queues |-> 0]
      /\ held = [q \in Queues |-> {}] /\ in_flight = {} /\ i = 0 /\ cur = 0 /\ rxid = 0
      /\ availIdx = [q \in Queues |-> IF q = "rx" THEN RxBuffers % IdxWrap ELSE 0]
      /\ pc \in {"ctrl_wait", "top"}
  BY DEF Init
<1>5. RxBuffers % IdxWrap = RxBuffers
  BY <1>0, <1>3
<1>6. /\ avail["rx"] = [k \in 0 .. n - 1 |-> IF k < RxBuffers THEN k ELSE 0]
      /\ avail["tx"] = [k \in 0 .. n - 1 |-> 0]
      /\ used["rx"] = [k \in 0 .. n - 1 |-> 0] /\ used["tx"] = [k \in 0 .. n - 1 |-> 0]
      /\ DOMAIN avail = Queues /\ DOMAIN used = Queues
  <2>1. /\ avail = [q \in Queues |-> [k \in 0 .. size[q] - 1 |->
                      IF q = "rx" /\ k < RxBuffers THEN k ELSE 0]]
        /\ used = [q \in Queues |-> [k \in 0 .. size[q] - 1 |-> 0]]
    BY DEF Init
  <2> QED
    BY <1>3, <1>q, <2>1
<1>7. PerQueue
  BY <1>4, <1>6 DEF PerQueue
<1>8. BodyInv
  BY <1>4 DEF BodyInv, Body
<1>9. CountInv
  <2>1. ctl = PublishedCommand
    BY DEF Init
  <2> QED
    BY <2>1, BoundAssumption DEF CountInv, PublishedCommand
<1>10. Handled("rx") = 0 /\ Handled("tx") = 0 /\ Hand("rx") = {} /\ Hand("tx") = {}
  BY <1>4 DEF Handled, Hand, InHand
<1>11. NextUsed("rx") = 0 /\ NextUsed("tx") = 0
  BY <1>0, <1>4, <1>10, <1>q DEF NextUsed
<1>12. /\ AvailLen("rx") = RxBuffers /\ AvailLen("tx") = 0 /\ UsedLen("rx") = 0 /\ UsedLen("tx") = 0
  BY <1>0, <1>3, <1>4, <1>5, <1>11, <1>q DEF AvailLen, UsedLen, Delta
<1>13. ASSUME NEW k \in 0 .. RxBuffers - 1 PROVE AvailView("rx")[k] = k
  <2>1. fetched["rx"] = 0 /\ Delta(fetched["rx"], availIdx["rx"]) = RxBuffers
    BY <1>4, <1>12, <1>q DEF AvailLen
  <2>2. k \in 0 .. n - 1 /\ k < RxBuffers /\ k < IdxWrap /\ k \in Nat
    BY <1>0, <1>1, <1>3
  <2>3. k % IdxWrap = k /\ k % n = k
    BY <1>0, <1>3, <2>2
  <2>4. At(0, k, n) = k
    BY <2>2, <2>3 DEF At
  <2>5. AvailView("rx")[k] = avail["rx"][At(0, k, n)]
    BY <1>3, <2>1 DEF AvailView, View
  <2> QED
    BY <1>6, <2>2, <2>4, <2>5
<1>14. Cardinality({}) = 0 /\ Cardinality(Pool("rx")) = RxBuffers /\ Pool("rx") = 0 .. RxBuffers - 1
  BY <1>q, PoolFacts, FS_EmptySet DEF Pool
<1>15. held["rx"] = {} /\ held["tx"] = {} /\ Busy("rx") = Pool("rx") /\ Busy("tx") = {}
  BY <1>4, <1>q DEF Busy
<1>16. OwnedIn("rx")
  <2>1. PICK A : A = AvailView("rx")
    OBVIOUS
  <2>2. \A k \in 0 .. RxBuffers - 1 : A[k] = k
    BY <1>13, <2>1
  <2>3. PICK P : P = Pool("rx") /\ P = 0 .. RxBuffers - 1 /\ Cardinality(P) = RxBuffers
    BY <1>14
  <2>4. PICK U : U = UsedView("rx")
    OBVIOUS
  <2>5. 0 .. 0 - 1 = {} /\ RxBuffers \in Nat
    BY <1>3
  <2>6. Owned(P, P, RxBuffers, A, 0, U, {}, {})
    BY <1>14, <2>2, <2>3, <2>5 DEF Owned
  <2> QED
    BY <1>10, <1>12, <1>15, <2>1, <2>3, <2>4, <2>6 DEF OwnedIn
<1>17. OwnedIn("tx")
  <2>1. 0 .. 0 - 1 = {}
    OBVIOUS
  <2>2. \A P, A, U : Owned(P, {}, 0, A, 0, U, {}, {})
    BY <1>14, <2>1 DEF Owned
  <2> QED
    BY <1>10, <1>12, <1>15, <2>2 DEF OwnedIn
<1>18. \A q \in Queues : OwnedIn(q)
  BY <1>16, <1>17 DEF Queues
<1>19. TypeOK
  <2>1. size \in [Queues -> 1 .. DeviceSize]
    BY <1>1
  <2>2. ASSUME NEW q \in Queues
        PROVE  /\ avail[q] \in [0 .. size[q] - 1 -> Pool(q)]
               /\ used[q] \in [0 .. size[q] - 1 -> Pool(q) \cup {OutsideId(q)}]
               /\ held[q] \subseteq Pool(q)
    <3>1. 0 \in Pool("rx") /\ 0 \in Pool("tx") /\ \A k \in Nat : k < RxBuffers => k \in Pool("rx")
      BY <1>3 DEF Pool
    <3>2. CASE q = "rx"
      BY <1>3, <1>6, <1>15, <3>1, <3>2
    <3>3. CASE q = "tx"
      BY <1>3, <1>6, <1>15, <3>1, <3>3
    <3> QED
      BY <1>q, <3>2, <3>3
  <2>3. /\ availIdx \in [Queues -> Idx] /\ usedIdx \in [Queues -> Idx]
        /\ fetched \in [Queues -> Idx] /\ last \in [Queues -> Idx]
    BY <1>0, <1>3, <1>4, <1>5 DEF Idx
  <2>4. cur \in Idx /\ i \in 0 .. size["rx"] /\ rxid \in Pool("rx") /\ in_flight \subseteq Pool("tx")
    BY <1>0, <1>3, <1>4 DEF Pool
  <2>5. /\ sample \in Samples /\ arrived \in 0 .. MaxRx
        /\ ctl \in [ack : {AckInitial, "ok", "err"}, stage : {"published", "answered", "returned"},
                    applied : BOOLEAN, matched : 0 .. MaxPackets]
    BY BoundAssumption DEF Init, PublishedCommand
  <2>6. kicked \in [Queues -> BOOLEAN] /\ msi \in [Queues -> BOOLEAN] /\ evt \in [Queues -> BOOLEAN]
    BY DEF Init
  <2>7. made_progress \in BOOLEAN /\ late \in BOOLEAN
    BY DEF Init
  <2> QED
    BY <1>4, <2>1, <2>2, <2>3, <2>4, <2>5, <2>6, <2>7 DEF TypeOK
<1>20. NothingLost
  <2>1. PICK A : A = AvailView("rx")
    OBVIOUS
  <2>2. \A k \in 0 .. RxBuffers - 1 : A[k] = k
    BY <1>13, <2>1
  <2>3. PICK P : P = Pool("rx") /\ P = 0 .. RxBuffers - 1
    BY <1>14
  <2>4. 0 .. 0 - 1 = {}
    OBVIOUS
  <2>5. \A U : Whole(P, RxBuffers, A, 0, U, {}, {})
    BY <2>2, <2>3, <2>4 DEF Whole
  <2> QED
    BY <1>10, <1>12, <1>15, <2>1, <2>3, <2>5 DEF NothingLost
<1> QED
  BY <1>2, <1>7, <1>8, <1>9, <1>12, <1>15, <1>18, <1>19, <1>20 DEF OwnInv

\* A set of numbers any two of which are the same has at most one of them.
LEMMA AtMostOne ==
  ASSUME NEW S, \A j, k \in S : j = k
  PROVE  /\ Cardinality(S) \in {0, 1} /\ (S = {} => Cardinality(S) = 0)
         /\ (S # {} => Cardinality(S) = 1)
<1>1. CASE S = {}
  BY <1>1, FS_EmptySet
<1>2. CASE S # {}
  <2>1. PICK x : S = {x}
    BY <1>2
  <2> QED
    BY <1>2, <2>1, FS_Singleton
<1> QED
  BY <1>1, <1>2

\* The positions of a descriptor in the rings are those in the views of them.
LEMMA InViews ==
  ASSUME NEW q, NEW d
  PROVE  /\ InAvail(q, d) = {k \in 0 .. AvailLen(q) - 1 : AvailView(q)[k] = d}
         /\ InUsed(q, d) = {k \in 0 .. UsedLen(q) - 1 : UsedView(q)[k] = d}
BY DEF InAvail, InUsed, AvailLen, UsedLen, AvailView, UsedView, View, At, Window

\* In the words of OneOwner: who has a descriptor.
LEMMA OwnerFacts ==
  ASSUME OwnInv, NEW q \in Queues, NEW d \in Pool(q)
  PROVE  /\ Owners(q, d) \in {0, 1}
         /\ Owners(q, d) = 1 => d \in Busy(q)
         /\ InAvail(q, d) # {} => d \in Busy(q)
         /\ Owners(q, d) = 1 <=> (InAvail(q, d) # {} \/ InUsed(q, d) # {} \/ d \in held[q] \/ d \in Hand(q))
<1>1. PICK P : P = Pool(q)
  OBVIOUS
<1>2. PICK a : a = AvailLen(q)
  OBVIOUS
<1>3. PICK A : A = AvailView(q)
  OBVIOUS
<1>4. PICK u : u = UsedLen(q)
  OBVIOUS
<1>5. PICK U : U = UsedView(q)
  OBVIOUS
<1>6. PICK F : F = Busy(q)
  OBVIOUS
<1>7. Owned(P, F, a, A, u, U, Hand(q), held[q])
  BY <1>1, <1>2, <1>3, <1>4, <1>5, <1>6 DEF OwnInv, OwnedIn
<1>8. PICK X : X = InAvail(q, d) /\ X = {k \in 0 .. a - 1 : A[k] = d}
  BY <1>2, <1>3, InViews
<1>9. PICK Y : Y = InUsed(q, d) /\ Y = {k \in 0 .. u - 1 : U[k] = d}
  BY <1>4, <1>5, InViews
<1>10. (\A j, k \in X : j = k) /\ (\A j, k \in Y : j = k)
  BY <1>1, <1>7, <1>8, <1>9 DEF Owned
<1>11. /\ X # {} => Y = {} /\ d \notin held[q] /\ d \notin Hand(q) /\ d \in F
       /\ Y # {} => d \notin held[q] /\ d \notin Hand(q) /\ d \in F
       /\ d \in held[q] => d \notin Hand(q) /\ d \in F
       /\ d \in Hand(q) => d \in F
  BY <1>1, <1>7, <1>8, <1>9 DEF Owned
<1>12. /\ X = {} => Cardinality(X) = 0
       /\ X # {} => Cardinality(X) = 1
       /\ Y = {} => Cardinality(Y) = 0
       /\ Y # {} => Cardinality(Y) = 1
  BY <1>10, AtMostOne
<1>13. InHand(q, d) <=> d \in Hand(q)
  BY DEF Hand
<1>14. Owners(q, d) = Cardinality(X) + Cardinality(Y) + (IF d \in held[q] THEN 1 ELSE 0)
                      + (IF d \in Hand(q) THEN 1 ELSE 0)
  BY <1>8, <1>9, <1>13 DEF Owners
<1> QED
  BY <1>6, <1>8, <1>9, <1>11, <1>12, <1>14

\* Between driver and device every descriptor has at most one owner, no ring entry is
\* overwritten before it is read, and a TX slot the driver takes for free is owned by
\* nobody, whatever the sizes of the rings and the pools, in any interleaving of the
\* packet loops of 25 to 30 with the device and over any number of wraps of the indices.
THEOREM OneOwnerAlways == Spec => []OneOwner
<1>1. OwnInv => OneOwner
  <2> SUFFICES ASSUME OwnInv PROVE OneOwner
    OBVIOUS
  <2>1. \A q \in Queues : \A d \in Pool(q) : Owners(q, d) <= 1
    <3>1. \A q \in Queues : \A d \in Pool(q) : Owners(q, d) \in {0, 1}
      BY OwnerFacts
    <3> QED
      BY <3>1
  <2>2. \A q \in Queues : /\ Delta(fetched[q], availIdx[q]) <= size[q]
                          /\ Delta(NextUsed(q), usedIdx[q]) <= size[q]
    <3> SUFFICES ASSUME NEW q \in Queues PROVE AvailLen(q) <= size[q] /\ UsedLen(q) <= size[q]
      BY DEF AvailLen, UsedLen
    <3>1. /\ AvailLen(q) \in Nat /\ UsedLen(q) \in Nat /\ size[q] \in 1 .. DeviceSize
          /\ Cardinality(held[q]) \in Nat /\ Cardinality(Hand(q)) \in Nat
          /\ AvailLen(q) + Cardinality(held[q]) + UsedLen(q) + Cardinality(Hand(q)) <= size[q]
      BY QueueFacts
    <3> QED
      BY <3>1, SizeAssumption
  <2>3. \A d \in Pool("tx") : Owners("tx", d) = 1 => d \in in_flight
    BY OwnerFacts DEF Busy, Queues
  <2> QED
    BY <2>1, <2>2, <2>3 DEF OneOwner, OwnInv
<1>2. OwnInv /\ UNCHANGED vars => OwnInv'
  BY NextOwnInv
<1> QED
  BY <1>1, <1>2, InitOwnInv, NextOwnInv, PTL DEF Spec

----
\* Contents.  There is a buffer for each descriptor.
Buffers == DOMAIN rxbuf = Pool("rx") /\ DOMAIN txbuf = Pool("tx")

\* A slot that is published, or that the device has, is in flight and not completed.
LEMMA SendingBusy ==
  ASSUME OwnInv, NEW d \in Pool("tx"), Sending(d)
  PROVE  d \in in_flight /\ d \notin CompletedTx
<1>q. "tx" \in Queues
  BY DEF Queues
<1>1. d \in in_flight
  BY <1>q, OwnerFacts DEF Sending, Busy
<1>2. PICK U : U = UsedView("tx")
  OBVIOUS
<1>3. PICK A : A = AvailView("tx")
  OBVIOUS
<1>4. PICK u : u = UsedLen("tx")
  OBVIOUS
<1>5. PICK a : a = AvailLen("tx")
  OBVIOUS
<1>6. Owned(Pool("tx"), in_flight, a, A, u, U, Hand("tx"), held["tx"])
  BY <1>2, <1>3, <1>4, <1>5, <1>q DEF OwnInv, OwnedIn, Busy
<1>7. \A k \in 0 .. u - 1 : U[k] # d
  <2>1. CASE d \in held["tx"]
    BY <1>6, <2>1 DEF Owned
  <2>2. CASE InAvail("tx", d) # {}
    <3>1. PICK j \in 0 .. a - 1 : A[j] = d
      BY <1>3, <1>5, <2>2, InViews
    <3> QED
      BY <1>6, <3>1 DEF Owned
  <2> QED
    BY <2>1, <2>2 DEF Sending
<1>8. CompletedTx = Ids(u, U) \cap Pool("tx")
  BY <1>2, <1>4, CompletedView
<1> QED
  BY <1>1, <1>7, <1>8 DEF Ids

\* An answer is written to a slot that is free once the completions are taken.
LEMMA TxbufSteps ==
  ASSUME OwnInv, [Next]_vars
  PROVE  \/ txbuf' = txbuf
         \/ /\ pc \in {"rx_entry", "tx_wait"}
            /\ \E s \in Pool("tx") : /\ ~Sending(s) /\ MakeAvailable("tx", s)
                                     /\ txbuf' = [txbuf EXCEPT ![s] = rxbuf[RxEntryId].n]
<1>1. ASSUME NEW next, NEW busy, AnswerOr(next, busy), pc \in {"rx_entry", "tx_wait"},
             busy = in_flight \/ busy = in_flight \ CompletedTx
      PROVE  \/ txbuf' = txbuf
             \/ /\ pc \in {"rx_entry", "tx_wait"}
                /\ \E s \in Pool("tx") : /\ ~Sending(s) /\ MakeAvailable("tx", s)
                                         /\ txbuf' = [txbuf EXCEPT ![s] = rxbuf[RxEntryId].n]
  <2>1. \/ txbuf' = txbuf
        \/ \E s \in Pool("tx") \ busy : MakeAvailable("tx", s)
             /\ txbuf' = [txbuf EXCEPT ![s] = rxbuf[RxEntryId].n]
    BY <1>1, AnswerFacts
  <2>2. \A s \in Pool("tx") \ busy : ~Sending(s)
    BY <1>1, SendingBusy
  <2> QED
    BY <1>1, <2>1, <2>2
<1>2. CASE EchoPacket
  BY <1>1, <1>2 DEF EchoPacket, Matches
<1>3. CASE EchoOrWait
  BY <1>1, <1>3 DEF EchoOrWait, Matches
<1>4. CASE AwaitTxSlot
  BY <1>1, <1>4 DEF AwaitTxSlot
<1>5. CASE DriverStep /\ ~(EchoPacket \/ EchoOrWait \/ AwaitTxSlot)
  BY <1>5 DEF DriverStep, WaitForAck, ReadAck, LoopTop, ReadRxIdx, SkipOutsideId, SkipPacket,
         CountPacket, KickTx, Recycle, KickRx, EndRx, Poll, PollTimeout, TxDrain, TxPoll, TxPollTimeout
<1>6. CASE ~DriverStep
  BY <1>6 DEF Next, DeadlinePasses, AnswerCommand, ReturnCommand, Fetch, Sleep,
         DeliverMsi, Receive, Transmit, vars
<1> QED
  BY <1>2, <1>3, <1>4, <1>5, <1>6

\* Every step leaves a buffer for each descriptor.
LEMMA NextBuffers == ASSUME OwnInv, Buffers, [Next]_vars PROVE Buffers'
<1>1. DOMAIN txbuf' = Pool("tx")
  BY TxbufSteps DEF Buffers
<1>2. DOMAIN rxbuf' = Pool("rx")
  <2>1. CASE \E d \in Pool("rx") : Receive(d)
    BY <2>1 DEF Receive, Buffers
  <2>2. CASE DriverStep
    BY <2>2 DEF DriverStep, WaitForAck, ReadAck, LoopTop, ReadRxIdx, SkipOutsideId, SkipPacket,
           EchoPacket, EchoOrWait, AwaitTxSlot, CountPacket, KickTx, Recycle, KickRx, EndRx, Poll, PollTimeout,
           TxDrain, TxPoll, TxPollTimeout, Buffers
  <2>3. CASE ~DriverStep /\ ~(\E d \in Pool("rx") : Receive(d))
    BY <2>3 DEF Next, DeadlinePasses, AnswerCommand, ReturnCommand, Fetch, Sleep,
           DeliverMsi, Transmit, vars, Buffers
  <2> QED
    BY <2>1, <2>2, <2>3
<1> QED
  BY <1>1, <1>2 DEF Buffers

\* A buffer published for transmission is not written again until the device has completed
\* it, in the loops of 25 and 26 with rings and pools of any size.
THEOREM TxBuffersStable == Spec => TxBufferStable
<1> DEFINE Inv == OwnInv /\ Buffers
           Kept == \A d \in Pool("tx") : (d \in held["tx"] \/ InAvail("tx", d) # {})
                                           => txbuf'[d] = txbuf[d]
<1>1. Init => Inv
  BY InitOwnInv DEF Init, Buffers
<1>2. Inv /\ [Next]_vars => Inv'
  BY NextOwnInv, NextBuffers
<1>3. Inv /\ [Next]_vars => [Kept]_vars
  <2> SUFFICES ASSUME Inv, [Next]_vars, NEW d \in Pool("tx"), Sending(d) PROVE txbuf'[d] = txbuf[d]
    BY DEF Sending
  <2> QED
    BY TxbufSteps DEF Buffers
<1>4. TxBufferStable <=> [][Kept]_vars
  BY PTL DEF TxBufferStable
<1> HIDE DEF Inv, Kept
<1> QED
  BY <1>1, <1>2, <1>3, <1>4, PTL DEF Spec

----
\* The pool stays whole.  Once the loop is left it is not entered again, and the device's
\* lie is not forgotten.
LEMMA NoWayBack ==
  ASSUME OwnInv, [Next]_vars
  PROVE  (LoopLeft => LoopLeft') /\ (~misreported' => ~misreported)
<1>1. CASE DriverStep
  <2>1. misreported' = misreported
    BY <1>1 DEF DriverStep, WaitForAck, ReadAck, LoopTop, ReadRxIdx, SkipOutsideId, SkipPacket,
           EchoPacket, EchoOrWait, AwaitTxSlot, CountPacket, KickTx, Recycle, KickRx, EndRx, Poll, PollTimeout,
           TxDrain, TxPoll, TxPollTimeout, device
  <2>2. LoopLeft => LoopLeft'
    BY <1>1 DEF DriverStep, WaitForAck, ReadAck, LoopTop, ReadRxIdx, SkipOutsideId, SkipPacket,
           EchoPacket, EchoOrWait, AwaitTxSlot, CountPacket, KickTx, Recycle, KickRx, EndRx, Poll, PollTimeout,
           TxDrain, TxPoll, TxPollTimeout, Matches, PollReturns, LoopLeft
  <2> QED
    BY <2>1, <2>2
<1>2. CASE ~DriverStep
  <2>1. pc' = pc
    BY <1>2 DEF Next, DeadlinePasses, AnswerCommand, ReturnCommand, Fetch, Sleep,
           DeliverMsi, Receive, Transmit, vars, driver
  <2>2. ~misreported' => ~misreported
    BY <1>2 DEF Next, DeadlinePasses, AnswerCommand, ReturnCommand, Fetch, Sleep,
           DeliverMsi, Receive, Transmit, ReturnUsed, vars, device
  <2> QED
    BY <2>1, <2>2 DEF LoopLeft
<1> QED
  BY <1>1, <1>2

\* Moving descriptors about loses none.
LEMMA NextNothingLost == ASSUME OwnInv, NothingLost, [Next]_vars PROVE NothingLost'
<1> SUFFICES ASSUME ~misreported', ~LoopLeft'
             PROVE  Whole(Pool("rx"), AvailLen("rx"), AvailView("rx"), UsedLen("rx"), UsedView("rx"),
                          Hand("rx"), held["rx"])'
  BY DEF NothingLost
<1>q. "rx" \in Queues
  BY DEF Queues
<1>1. PICK P : P = Pool("rx")
  OBVIOUS
<1>2. PICK a \in Nat : a = AvailLen("rx")
  BY <1>q, QueueFacts
<1>3. PICK A : A = AvailView("rx")
  OBVIOUS
<1>4. PICK u \in Nat : u = UsedLen("rx")
  BY <1>q, QueueFacts
<1>5. PICK U : U = UsedView("rx")
  OBVIOUS
<1>6. PICK H : H = Hand("rx")
  OBVIOUS
<1>7. PICK D : D = held["rx"]
  OBVIOUS
<1>8. PICK A2 : A2 = AvailView("rx")'
  OBVIOUS
<1>9. PICK U2 : U2 = UsedView("rx")'
  OBVIOUS
<1>10. PICK a2 : a2 = AvailLen("rx")'
  OBVIOUS
<1>11. PICK u2 : u2 = UsedLen("rx")'
  OBVIOUS
<1>12. PICK H2 : H2 = Hand("rx")'
  OBVIOUS
<1>13. PICK D2 : D2 = held'["rx"]
  OBVIOUS
<1>14. Whole(P, a, A, u, U, H, D)
  BY <1>1, <1>2, <1>3, <1>4, <1>5, <1>6, <1>7, NoWayBack DEF NothingLost
<1>15. SUFFICES Whole(P, a2, A2, u2, U2, H2, D2)
  BY <1>1, <1>8, <1>9, <1>10, <1>11, <1>12, <1>13
<1>16. CASE Stays("rx")
  BY <1>2, <1>3, <1>4, <1>5, <1>6, <1>7, <1>8, <1>9, <1>10, <1>11, <1>12, <1>13, <1>14, <1>16
     DEF Stays, SameAvail, SameUsed
<1>17. CASE Fetches("rx")
  <2>1. /\ a2 = a - 1 /\ (\A k \in 0 .. a - 2 : A2[k] = A[k + 1]) /\ D2 = D \cup {A[0]}
        /\ u2 = u /\ U2 = U /\ H2 = H
    BY <1>2, <1>3, <1>4, <1>5, <1>6, <1>7, <1>8, <1>9, <1>10, <1>11, <1>12, <1>13, <1>17
       DEF Fetches, SameUsed
  <2>2. ASSUME NEW j \in 0 .. a - 1, A[j] \notin D2 PROVE \E k \in 0 .. a2 - 1 : A2[k] = A[j]
    <3>1. j - 1 \in 0 .. a - 2 /\ A2[j - 1] = A[j]
      BY <2>1, <2>2
    <3> QED
      BY <2>1, <3>1
  <2> QED
    BY <1>14, <2>1, <2>2 DEF Whole
<1>18. CASE Gives
  <2>1. /\ a2 = a + 1 /\ (\A k \in 0 .. a - 1 : A2[k] = A[k]) /\ A2[a] = rxid /\ H = {rxid}
        /\ u2 = u /\ U2 = U /\ D2 = D
    BY <1>2, <1>3, <1>4, <1>5, <1>6, <1>7, <1>8, <1>9, <1>10, <1>11, <1>12, <1>13, <1>18
       DEF Gives, SameUsed
  <2>2. a \in 0 .. a2 - 1 /\ \A k \in 0 .. a - 1 : k \in 0 .. a2 - 1
    BY <2>1
  <2> QED
    BY <1>14, <2>1, <2>2 DEF Whole
<1>19. CASE \E d \in Pool("rx") :
               Receive(d) /\ \E v : Returns("rx", d, v) /\ (v = d \/ (misreported' /\ v \notin Pool("rx")))
  <2>1. PICK d \in P : Returns("rx", d, d)
    BY <1>1, <1>19
  <2>2. /\ u2 = u + 1 /\ (\A k \in 0 .. u - 1 : U2[k] = U[k]) /\ U2[u] = d
        /\ a2 = a /\ A2 = A /\ H2 = H /\ D2 = D \ {d}
    BY <1>2, <1>3, <1>4, <1>5, <1>6, <1>7, <1>8, <1>9, <1>10, <1>11, <1>12, <1>13, <2>1
       DEF Returns, SameAvail
  <2>3. /\ u \in 0 .. u2 - 1 /\ \A k \in 0 .. u - 1 : k \in 0 .. u2 - 1
        /\ \A k \in 0 .. u2 - 1 : k = u \/ k \in 0 .. u - 1
    BY <2>2
  <2> QED
    BY <1>14, <2>1, <2>2, <2>3 DEF Whole
<1>20. CASE /\ pc = "rx_entry" /\ i < RxCount /\ GoesOn(1)
            /\ Hand("rx")' = {RxEntryId} \cap Pool("rx")
  <2>1. u > 0 /\ RxEntryId = U[0] /\ H = {}
    BY <1>4, <1>5, <1>6, <1>20, EntryFacts
  <2>2. /\ u2 = u - 1 /\ (\A k \in 0 .. u - 1 - 1 : U2[k] = U[k + 1])
        /\ a2 = a /\ A2 = A /\ D2 = D /\ H2 = {U[0]} \cap P
    BY <1>1, <1>2, <1>3, <1>4, <1>5, <1>7, <1>8, <1>9, <1>10, <1>11, <1>12, <1>13, <1>20, <2>1
       DEF GoesOn, SameAvail
  <2>3. ASSUME NEW k \in 0 .. u - 1, U[k] # U[0] PROVE \E j \in 0 .. u2 - 1 : U2[j] = U[k]
    <3>1. k - 1 \in 0 .. u - 1 - 1 /\ U2[k - 1] = U[k]
      BY <2>2, <2>3
    <3> QED
      BY <2>2, <3>1
  <2>4. ASSUME NEW k \in 0 .. u2 - 1 PROVE U2[k] \in P
    <3>1. k + 1 \in 0 .. u - 1 /\ U2[k] = U[k + 1]
      BY <2>2
    <3> QED
      BY <1>14, <3>1 DEF Whole
  <2> QED
    BY <1>14, <2>1, <2>2, <2>3, <2>4 DEF Whole
<1> QED
  BY <1>16, <1>17, <1>18, <1>19, <1>20, NextRxOwned DEF RxMoves

\* As long as the device reports its ids truthfully no RX descriptor is ever lost while the
\* loop runs, for rings and pools of any size: each of the pool is in one of the rings, with
\* the device or in the driver's hands.
THEOREM NoRxLost == Spec => []NoRxLeak
<1> DEFINE Inv == OwnInv /\ NothingLost
<1>1. Init => Inv
  BY InitOwnInv
<1>2. Inv /\ [Next]_vars => Inv'
  BY NextOwnInv, NextNothingLost
<1>3. Inv => NoRxLeak
  <2> SUFFICES ASSUME Inv, ~misreported, ~LoopLeft, NEW d \in Pool("rx") PROVE Owners("rx", d) = 1
    BY DEF NoRxLeak
  <2>1. \/ \E j \in 0 .. AvailLen("rx") - 1 : AvailView("rx")[j] = d
        \/ \E k \in 0 .. UsedLen("rx") - 1 : UsedView("rx")[k] = d
        \/ d \in Hand("rx") \/ d \in held["rx"]
    BY DEF NothingLost, Whole
  <2>2. InAvail("rx", d) # {} \/ InUsed("rx", d) # {} \/ d \in held["rx"] \/ d \in Hand("rx")
    BY <2>1, InViews
  <2> QED
    BY <2>2, OwnerFacts DEF Queues
<1> HIDE DEF Inv
<1> QED
  BY <1>1, <1>2, <1>3, PTL DEF Spec

----
\* Every answer once.  Fewer wait, or are on their way.
LEMMA DifferentFewer ==
  ASSUME NEW n \in Nat, NEW W, NEW X, NEW R, NEW Y, NEW T, Different(n, W, X, R, Y, T),
         NEW W2, W2 \subseteq W, NEW R2, R2 \subseteq R
  PROVE  Different(n, W2, X, R2, Y, T)
BY DEF Different

\* Packet n + 1 arrives, in a buffer that need not be free.
LEMMA DifferentArrived ==
  ASSUME NEW n \in Nat, NEW W, NEW X, NEW R, NEW Y, NEW T, Different(n, W, X, R, Y, T),
         NEW d, NEW W2, W2 \subseteq W \cup {d},
         NEW X2, \A e \in W2 : e # d => X2[e] = X[e], X2[d].n = n + 1
  PROVE  Different(n + 1, W2, X2, R, Y, T)
<1>1. T \in Seq(1 .. n + 1) /\ \A k \in 1 .. Len(T) : T[k] \in 1 .. n
  <2>1. T \in Seq(1 .. n)
    BY DEF Different
  <2>2. \A k \in 1 .. n : k \in 1 .. n + 1
    OBVIOUS
  <2> QED
    BY <2>1, <2>2
<1>2. \A e \in W2 : (e = d /\ X2[e].n = n + 1) \/ (e \in W /\ X2[e].n = X[e].n /\ X[e].n \in 1 .. n)
  BY DEF Different
<1>3. \A e \in R : Y[e] \in 1 .. n
  BY DEF Different
<1>4. \A k \in 1 .. n : k \in 1 .. n + 1 /\ k # n + 1
  OBVIOUS
<1>5. n + 1 \in 1 .. n + 1
  OBVIOUS
<1>6. \A e, f \in W2 : X2[e].n = X2[f].n => e = f
  BY <1>2, <1>4 DEF Different
<1>7. \A e \in W2, f \in R : X2[e].n # Y[f]
  BY <1>2, <1>3, <1>4 DEF Different
<1>8. \A e \in W2, k \in 1 .. Len(T) : X2[e].n # T[k]
  BY <1>1, <1>2, <1>4 DEF Different
<1>9. (\A e \in W2 : X2[e].n \in 1 .. n + 1) /\ (\A e \in R : Y[e] \in 1 .. n + 1)
  BY <1>2, <1>3, <1>4, <1>5
<1> QED
  BY <1>1, <1>6, <1>7, <1>8, <1>9 DEF Different

\* Answer d goes out.
LEMMA DifferentSent ==
  ASSUME NEW n \in Nat, NEW W, NEW X, NEW R, NEW Y, NEW T, Different(n, W, X, R, Y, T),
         NEW d \in R, NEW W2, W2 \subseteq W, NEW R2, R2 \subseteq R \ {d}
  PROVE  Different(n, W2, X, R2, Y, Append(T, Y[d]))
<1>1. PICK y \in 1 .. n : y = Y[d]
  BY DEF Different
<1>2. T \in Seq(1 .. n)
  BY DEF Different
<1>3. PICK T2 : T2 = Append(T, y)
  OBVIOUS
<1>4. /\ T2 \in Seq(1 .. n) /\ Len(T2) = Len(T) + 1 /\ Len(T) \in Nat
      /\ \A k \in 1 .. Len(T2) : (k \in 1 .. Len(T) /\ T2[k] = T[k]) \/ (k = Len(T2) /\ T2[k] = y)
  BY <1>2, <1>3
<1>5. /\ \A k \in 1 .. Len(T) : T[k] # y
      /\ \A e \in W2 : X[e].n # y
      /\ \A e \in R2 : Y[e] # y
  BY <1>1 DEF Different
<1>6. \A j, k \in 1 .. Len(T2) : T2[j] = T2[k] => j = k
  BY <1>4, <1>5 DEF Different
<1>7. \A e \in W2, k \in 1 .. Len(T2) : X[e].n # T2[k]
  BY <1>4, <1>5 DEF Different
<1>8. \A e \in R2, k \in 1 .. Len(T2) : Y[e] # T2[k]
  BY <1>4, <1>5 DEF Different
<1>9. Different(n, W2, X, R2, Y, T2)
  BY <1>4, <1>6, <1>7, <1>8 DEF Different
<1> QED
  BY <1>1, <1>3, <1>9

\* Packet d is answered in slot s.
LEMMA DifferentAnswered ==
  ASSUME NEW n \in Nat, NEW W, NEW X, NEW R, NEW Y, NEW T, Different(n, W, X, R, Y, T),
         NEW d \in W, NEW W2, W2 \subseteq W \ {d}, NEW s, s \notin R, NEW R2, R2 \subseteq R \cup {s},
         NEW Y2, \A e \in R2 : e # s => Y2[e] = Y[e], s \in R2 => Y2[s] = X[d].n
  PROVE  Different(n, W2, X, R2, Y2, T)
<1>1. PICK x \in 1 .. n : x = X[d].n
  BY DEF Different
<1>2. \A e \in R2 : (e = s /\ Y2[e] = x) \/ (e \in R /\ Y2[e] = Y[e])
  BY <1>1
<1>3. /\ \A e \in W2 : X[e].n # x
      /\ \A e \in R : Y[e] # x
      /\ \A k \in 1 .. Len(T) : T[k] # x
  BY <1>1 DEF Different
<1>4. \A e \in R2 : Y2[e] \in 1 .. n
  BY <1>2 DEF Different
<1>5. \A e, f \in R2 : Y2[e] = Y2[f] => e = f
  BY <1>2, <1>3 DEF Different
<1>6. \A e \in W2, f \in R2 : X[e].n # Y2[f]
  BY <1>2, <1>3 DEF Different
<1>7. \A e \in R2, k \in 1 .. Len(T) : Y2[e] # T[k]
  BY <1>2, <1>3 DEF Different
<1> QED
  BY <1>4, <1>5, <1>6, <1>7 DEF Different

\* The packets that wait: those of the used ring, and the one that waits for a slot.
LEMMA WaitingView ==
  /\ WaitingIds = {d \in Pool("rx") : d \in Ids(UsedLen("rx"), UsedView("rx"))
                                       \/ (pc = "tx_wait" /\ rxid = d)}
  /\ WaitingIds' = {d \in Pool("rx") : d \in Ids(UsedLen("rx")', UsedView("rx")')
                                        \/ (pc' = "tx_wait" /\ rxid' = d)}
<1>1. \A d : InUsed("rx", d) # {} <=> d \in Ids(UsedLen("rx"), UsedView("rx"))
  BY InViews DEF Ids
<1>2. \A d : InUsed("rx", d)' = {k \in 0 .. UsedLen("rx")' - 1 : UsedView("rx")'[k] = d}
  BY DEF InUsed, UsedLen, UsedView, View, At, Window
<1>3. \A d : InUsed("rx", d)' # {} <=> d \in Ids(UsedLen("rx")', UsedView("rx")')
  BY <1>2 DEF Ids
<1> QED
  BY <1>1, <1>3 DEF WaitingIds

\* How a packet comes to wait for a slot.
LEMMA EntersWait ==
  ASSUME OwnInv, [Next]_vars, pc' = "tx_wait"
  PROVE  \/ pc = "tx_wait" /\ rxid' = rxid
         \/ /\ pc = "rx_entry" /\ i < RxCount /\ RxEntryId \in Pool("rx") /\ rxid' = RxEntryId
            /\ UNCHANGED <<size, used, last, i>>
<1>1. CASE DriverStep
  BY <1>1 DEF DriverStep, WaitForAck, ReadAck, LoopTop, ReadRxIdx, SkipOutsideId, SkipPacket,
         EchoPacket, EchoOrWait, AwaitTxSlot, CountPacket, KickTx, Recycle, KickRx, EndRx, Poll, PollTimeout,
         TxDrain, TxPoll, TxPollTimeout, AnswerOr, AnswerIn, AfterLoop, NextTurn, PollReturns, Matches, fixed
<1>2. CASE ~DriverStep
  BY <1>2 DEF Next, DeadlinePasses, AnswerCommand, ReturnCommand, Fetch, Sleep,
         DeliverMsi, Receive, Transmit, vars, driver
<1> QED
  BY <1>1, <1>2

\* The entry to be handled is one that waits.
LEMMA EntryWaits ==
  ASSUME OwnInv, pc = "rx_entry", i < RxCount, RxEntryId \in Pool("rx")
  PROVE  RxEntryId \in WaitingIds
<1>1. PICK u \in Nat : u = UsedLen("rx")
  BY QueueFacts DEF Queues
<1>2. PICK U : U = UsedView("rx")
  OBVIOUS
<1>3. u > 0 /\ RxEntryId = U[0]
  BY <1>1, <1>2, EntryFacts
<1>4. U[0] \in Ids(u, U)
  BY <1>3 DEF Ids
<1> QED
  BY <1>1, <1>2, <1>3, <1>4, WaitingView

\* Only a packet that is received joins those that wait, and one in the driver's hands is
\* not in the used ring.
LEMMA WaitingSteps ==
  ASSUME OwnInv, [Next]_vars
  PROVE  /\ \/ WaitingIds' \subseteq WaitingIds
            \/ \E d \in Pool("rx") : Receive(d) /\ WaitingIds' \subseteq WaitingIds \cup {d}
         /\ pc' = "kick_tx" => rxid' \notin WaitingIds'
<1>q. "rx" \in Queues
  BY DEF Queues
<1>1. PICK u \in Nat : u = UsedLen("rx")
  BY <1>q, QueueFacts
<1>2. PICK U : U = UsedView("rx")
  OBVIOUS
<1>3. PICK U2 : U2 = UsedView("rx")'
  OBVIOUS
<1>4. PICK u2 : u2 = UsedLen("rx")'
  OBVIOUS
<1>5. /\ WaitingIds = {d \in Pool("rx") : d \in Ids(u, U) \/ (pc = "tx_wait" /\ rxid = d)}
      /\ WaitingIds' = {d \in Pool("rx") : d \in Ids(u2, U2) \/ (pc' = "tx_wait" /\ rxid' = d)}
  BY <1>1, <1>2, <1>3, <1>4, WaitingView
<1>6. ASSUME pc' = "tx_wait" PROVE rxid' \in Pool("rx") => rxid' \in WaitingIds
  <2>1. CASE pc = "tx_wait" /\ rxid' = rxid
    BY <1>5, <2>1
  <2>2. CASE pc = "rx_entry" /\ i < RxCount /\ RxEntryId \in Pool("rx") /\ rxid' = RxEntryId
    BY <2>2, EntryWaits
  <2> QED
    BY <1>6, <2>1, <2>2, EntersWait
<1>7. ASSUME NEW V, Ids(u2, U2) \cap Pool("rx") \subseteq Ids(u, U) \cup V
      PROVE  WaitingIds' \subseteq WaitingIds \cup V
  BY <1>5, <1>6, <1>7
<1>8. \/ WaitingIds' \subseteq WaitingIds
      \/ \E d \in Pool("rx") : Receive(d) /\ WaitingIds' \subseteq WaitingIds \cup {d}
  <2>1. CASE Stays("rx") \/ Fetches("rx") \/ Gives
    <3>1. u2 = u /\ U2 = U
      BY <1>1, <1>2, <1>3, <1>4, <2>1 DEF Stays, Fetches, Gives, SameUsed
    <3>2. WaitingIds' \subseteq WaitingIds \cup {}
      BY <1>7, <3>1
    <3> QED
      BY <3>2
  <2>2. ASSUME NEW m \in 0 .. u, GoesOn(m) PROVE WaitingIds' \subseteq WaitingIds
    <3>1. u2 = u - m /\ \A k \in 0 .. u - m - 1 : U2[k] = U[k + m]
      BY <1>1, <1>2, <1>3, <1>4, <2>2 DEF GoesOn
    <3>2. \A k \in 0 .. u2 - 1 : k + m \in 0 .. u - 1 /\ U2[k] = U[k + m]
      BY <3>1
    <3>3. Ids(u2, U2) \subseteq Ids(u, U)
      BY <3>2 DEF Ids
    <3>4. WaitingIds' \subseteq WaitingIds \cup {}
      BY <1>7, <3>3
    <3> QED
      BY <3>4
  <2>3. CASE pc = "rx_entry" /\ i < RxCount /\ GoesOn(1)
    <3>1. 1 \in 0 .. u
      BY <1>1, <2>3, EntryFacts
    <3> QED
      BY <2>2, <2>3, <3>1
  <2>4. CASE \E m \in 0 .. UsedLen("rx") : GoesOn(m)
    BY <1>1, <2>2, <2>4
  <2>5. CASE \E d \in Pool("rx") :
               Receive(d) /\ \E v : Returns("rx", d, v) /\ (v = d \/ (misreported' /\ v \notin Pool("rx")))
    <3>1. PICK d \in Pool("rx") :
               Receive(d) /\ \E v : Returns("rx", d, v) /\ (v = d \/ v \notin Pool("rx"))
      BY <2>5
    <3>2. PICK v : Returns("rx", d, v) /\ (v = d \/ v \notin Pool("rx"))
      BY <3>1
    <3>3. u2 = u + 1 /\ (\A k \in 0 .. u - 1 : U2[k] = U[k]) /\ U2[u] = v
      BY <1>1, <1>2, <1>3, <1>4, <3>2 DEF Returns
    <3>4. \A k \in 0 .. u2 - 1 : k = u \/ k \in 0 .. u - 1
      BY <3>3
    <3>5. Ids(u2, U2) \cap Pool("rx") \subseteq Ids(u, U) \cup {d}
      BY <3>2, <3>3, <3>4 DEF Ids
    <3> QED
      BY <1>7, <3>1, <3>5
  <2>6. RxMoves
    BY NextRxOwned
  <2>7. \/ Stays("rx") \/ Fetches("rx") \/ Gives
        \/ pc = "rx_entry" /\ i < RxCount /\ GoesOn(1)
        \/ \E m \in 0 .. UsedLen("rx") : GoesOn(m)
        \/ \E d \in Pool("rx") :
               Receive(d) /\ \E v : Returns("rx", d, v) /\ (v = d \/ (misreported' /\ v \notin Pool("rx")))
    BY <2>6, Zenon DEF RxMoves
  <2> QED
    BY <2>1, <2>3, <2>4, <2>5, <2>7, Zenon
<1>9. ASSUME pc' = "kick_tx", rxid' \in Pool("rx") PROVE rxid' \notin Ids(u2, U2)
  <2>1. rxid' \in Hand("rx")'
    BY <1>9, NextPlaces
  <2>2. PICK H2 : H2 = Hand("rx")'
    OBVIOUS
  <2>3. \E P, F, a, A, D : Owned(P, F, a, A, u2, U2, H2, D)
    BY <1>3, <1>4, <2>2, NextRxOwned DEF OwnedIn
  <2>4. \A k \in 0 .. u2 - 1 : U2[k] \notin H2
    BY <2>3 DEF Owned
  <2> QED
    BY <2>1, <2>2, <2>4 DEF Ids
<1> QED
  BY <1>5, <1>8, <1>9

\* The used entry of the packet that waits for a slot is not overwritten: the ring has room
\* for it, for the packet in the driver's hands and for what the device still has.
LEMMA NextWait ==
  ASSUME OwnInv, [Next]_vars, pc = "tx_wait" => RxEntryId = rxid, pc' = "tx_wait"
  PROVE  RxEntryId' = rxid'
<1>q. "rx" \in Queues /\ "tx" \in Queues /\ "rx" # "tx"
  BY DEF Queues
<1>t. /\ last \in [Queues -> Idx] /\ DOMAIN used = Queues /\ DOMAIN held = Queues
      /\ i \in 0 .. size["rx"] /\ rxid \in Pool("rx")
  BY DEF OwnInv, TypeOK, PerQueue
<1>1. CASE pc = "rx_entry" /\ rxid' = RxEntryId /\ UNCHANGED <<size, used, last, i>>
  BY <1>1 DEF RxEntryId
<1>2. CASE pc = "tx_wait" /\ rxid' = rxid
  <2>1. CASE AwaitTxSlot
    <3>1. UNCHANGED <<size, used, i>>
      BY <2>1 DEF AwaitTxSlot, fixed
    <3>2. last' = last \/ last' = [last EXCEPT !["tx"] = usedIdx["tx"]]
      BY <2>1 DEF AwaitTxSlot, ConsumeTx
    <3>3. last'["rx"] = last["rx"]
      BY <1>q, <1>t, <3>2
    <3> QED
      BY <1>2, <3>1, <3>3 DEF RxEntryId
  <2>2. CASE \E d \in Pool("rx") : Receive(d)
    <3>1. PICK d \in Pool("rx") : Receive(d)
      BY <2>2
    <3>2. UNCHANGED <<size, last, i>> /\ d \in held["rx"]
      BY <3>1 DEF Receive, fixed, driver
    <3>3. PICK v : used' = [used EXCEPT !["rx"][usedIdx["rx"] % size["rx"]] = v]
      BY <3>1 DEF Receive, ReturnUsed
    <3>4. used'["rx"] = [used["rx"] EXCEPT ![usedIdx["rx"] % size["rx"]] = v]
      BY <1>q, <1>t, <3>3
    <3>5. /\ size["rx"] \in 1 .. DeviceSize /\ ChosenSize(size["rx"]) /\ size["rx"] < IdxWrap
          /\ last["rx"] \in Idx /\ usedIdx["rx"] \in Idx /\ UsedLen("rx") \in Nat
          /\ AvailLen("rx") \in Nat /\ DOMAIN used["rx"] = 0 .. size["rx"] - 1
          /\ Cardinality(held["rx"]) \in Nat /\ IsFiniteSet(held["rx"])
          /\ AvailLen("rx") + Cardinality(held["rx"]) + UsedLen("rx") + Cardinality(Hand("rx")) <= size["rx"]
      BY <1>q, QueueFacts
    <3>6. Cardinality(held["rx"]) # 0
      BY <3>2, <3>5, FS_EmptySet
    <3>7. Hand("rx") = {rxid} /\ Handled("rx") = i + 1
      BY <1>2, <1>t, Places DEF Body
    <3>8. Cardinality(Hand("rx")) = 1
      BY <3>7, FS_Singleton
    <3>9. PICK n \in 1 .. DeviceSize : n = size["rx"]
      BY <3>5
    <3>10. n \in Nat /\ n < IdxWrap /\ IdxWrap \in Nat /\ UsedLen("rx") + 2 <= n
      BY <3>5, <3>6, <3>8, <3>9, SizeAssumption, WrapFacts
    <3>11. i \in 0 .. IdxWrap - 1
      BY <1>t, <3>9, <3>10
    <3>12. PICK x \in Idx : x = (last["rx"] + i) % IdxWrap
      <4>1. i \in 0 .. IdxWrap
        BY <3>10, <3>11
      <4> QED
        BY <3>5, <4>1, Onward
    <3>13. NextUsed("rx") = (x + 1) % IdxWrap
      BY <3>5, <3>7, <3>11, <3>12, OneOn DEF NextUsed
    <3>14. PICK y \in Idx : y = usedIdx["rx"]
      BY <3>5
    <3>15. PICK c \in Idx : c = NextUsed("rx")
      BY <1>q, QueueFacts
    <3>16. /\ x \in 0 .. IdxWrap - 1 /\ y \in 0 .. IdxWrap - 1 /\ 1 \in 0 .. IdxWrap
           /\ IdxWrap \in Nat \ {0} /\ 0 \in 0 .. IdxWrap
      BY <3>10, WrapFacts DEF Idx
    <3>17. c = IF x + 1 < IdxWrap THEN x + 1 ELSE x + 1 - IdxWrap
      BY <3>13, <3>15, <3>16, Onward
    <3>18. UsedLen("rx") = IF c <= y THEN y - c ELSE y - c + IdxWrap
      BY <3>14, <3>15, DeltaFacts DEF UsedLen
    <3>19. Delta(x, y) = (IF x <= y THEN y - x ELSE y - x + IdxWrap) /\ (x + Delta(x, y)) % IdxWrap = y
      BY DeltaFacts
    <3>20. Delta(x, y) \in 0 .. n - 1 /\ Delta(x, y) # 0
      BY <3>10, <3>16, <3>17, <3>18, <3>19
    <3>21. (x + 0) % IdxWrap = x
      BY <3>16, Onward
    <3>22. y % n = At(x, Delta(x, y), n) /\ x % n = At(x, 0, n)
      BY <3>19, <3>21 DEF At
    <3>23. 0 \in 0 .. n - 1
      OBVIOUS
    <3>24. x % n # y % n /\ x % n \in 0 .. n - 1
      BY <3>5, <3>9, <3>20, <3>22, <3>23, Apart
    <3>25. used'["rx"][x % n] = used["rx"][x % n]
      BY <3>4, <3>5, <3>9, <3>14, <3>24
    <3>26. RxEntryId = used["rx"][x % n] /\ RxEntryId' = used'["rx"][x % n]
      BY <3>2, <3>9, <3>12 DEF RxEntryId
    <3> QED
      BY <1>2, <3>25, <3>26
  <2>3. CASE DriverStep /\ ~AwaitTxSlot
    BY <1>2, <2>3 DEF DriverStep, WaitForAck, ReadAck, LoopTop, ReadRxIdx, SkipOutsideId, SkipPacket,
           EchoPacket, EchoOrWait, CountPacket, KickTx, Recycle, KickRx, EndRx, Poll, PollTimeout,
           TxDrain, TxPoll, TxPollTimeout, Matches
  <2>4. CASE \E d \in Pool("tx") : Transmit(d)
    <3>1. PICK d \in Pool("tx") : Transmit(d)
      BY <2>4
    <3>2. UNCHANGED <<size, last, i>>
      BY <3>1 DEF Transmit, fixed, driver
    <3>3. PICK v : used' = [used EXCEPT !["tx"][usedIdx["tx"] % size["tx"]] = v]
      BY <3>1 DEF Transmit, ReturnUsed
    <3>4. used'["rx"] = used["rx"]
      BY <1>q, <1>t, <3>3
    <3> QED
      BY <1>2, <3>2, <3>4 DEF RxEntryId
  <2>5. CASE \/ DeadlinePasses \/ AnswerCommand \/ ReturnCommand
             \/ \E q \in Queues : Fetch(q) \/ Sleep(q) \/ DeliverMsi(q)
             \/ UNCHANGED vars
    <3>1. UNCHANGED <<size, last, i, used>>
      BY <2>5 DEF DeadlinePasses, AnswerCommand, ReturnCommand, Fetch, Sleep, DeliverMsi, vars, rings, fixed,
             sizes, driver
    <3> QED
      BY <1>2, <3>1 DEF RxEntryId
  <2> QED
    BY <2>1, <2>2, <2>3, <2>4, <2>5 DEF Next
<1> QED
  BY <1>1, <1>2, EntersWait

\* The answers on their way: those the device has, and those of the available ring.
LEMMA SendingView ==
  /\ SendingIds = {d \in Pool("tx") : d \in held["tx"] \/ d \in Ids(AvailLen("tx"), AvailView("tx"))}
  /\ SendingIds' = {d \in Pool("tx") : d \in held'["tx"] \/ d \in Ids(AvailLen("tx")', AvailView("tx")')}
<1>1. \A d : InAvail("tx", d) # {} <=> d \in Ids(AvailLen("tx"), AvailView("tx"))
  BY InViews DEF Ids
<1>2. \A d : InAvail("tx", d)' = {k \in 0 .. AvailLen("tx")' - 1 : AvailView("tx")'[k] = d}
  BY DEF InAvail, AvailLen, AvailView, View, At, Window
<1>3. \A d : InAvail("tx", d)' # {} <=> d \in Ids(AvailLen("tx")', AvailView("tx")')
  BY <1>2 DEF Ids
<1> QED
  BY <1>1, <1>3 DEF SendingIds, Sending

\* A packet is answered in a slot that is not on its way.
LEMMA AnswerSends ==
  ASSUME OwnInv, NEW next, NEW busy, busy = in_flight \/ busy = in_flight \ CompletedTx,
         AnswerOr(next, busy), UNCHANGED <<size, fetched, held>>
  PROVE  \/ txbuf' = txbuf /\ SendingIds' \subseteq SendingIds
         \/ /\ pc' = "kick_tx"
            /\ \E s \in Pool("tx") \ SendingIds :
                 /\ SendingIds' \subseteq SendingIds \cup {s}
                 /\ txbuf' = [txbuf EXCEPT ![s] = rxbuf[RxEntryId].n]
<1>q. "tx" \in Queues
  BY DEF Queues
<1>1. CASE avail' = avail /\ availIdx' = availIdx /\ txbuf' = txbuf
  <2>1. AvailLen("tx")' = AvailLen("tx") /\ AvailView("tx")' = AvailView("tx")
    BY <1>1 DEF AvailLen, AvailView
  <2> QED
    BY <1>1, <2>1, SendingView
<1>2. ASSUME NEW s \in Pool("tx") \ busy, MakeAvailable("tx", s), pc' = "kick_tx",
             txbuf' = [txbuf EXCEPT ![s] = rxbuf[RxEntryId].n]
      PROVE  s \notin SendingIds /\ SendingIds' \subseteq SendingIds \cup {s}
  <2>1. s \notin SendingIds
    BY <1>2, SendingBusy DEF SendingIds
  <2>2. PICK a \in Nat : a = AvailLen("tx")
    BY <1>q, QueueFacts
  <2>3. PICK A : A = AvailView("tx")
    OBVIOUS
  <2>4. PICK A2 : A2 = AvailView("tx")'
    OBVIOUS
  <2>5. AvailLen("tx")' = a + 1 /\ (\A k \in 0 .. a - 1 : A2[k] = A[k]) /\ A2[a] = s
    BY <1>q, <1>2, <2>2, <2>3, <2>4, AnswerRoom, MadeAvailable
  <2>6. \A k \in 0 .. (a + 1) - 1 : k = a \/ k \in 0 .. a - 1
    OBVIOUS
  <2>7. Ids(a + 1, A2) \subseteq Ids(a, A) \cup {s}
    BY <2>5, <2>6 DEF Ids
  <2>8. /\ SendingIds = {d \in Pool("tx") : d \in held["tx"] \/ d \in Ids(a, A)}
        /\ SendingIds' = {d \in Pool("tx") : d \in held["tx"] \/ d \in Ids(a + 1, A2)}
    BY <2>2, <2>3, <2>4, <2>5, SendingView
  <2> QED
    BY <2>1, <2>7, <2>8
<1> QED
  BY <1>1, <1>2, AnswerFacts

\* Only answers join those on their way, and what the device has sent is no longer there.
LEMMA SendingSteps ==
  ASSUME OwnInv, [Next]_vars
  PROVE  \/ UNCHANGED <<txbuf, wire>> /\ SendingIds' \subseteq SendingIds
         \/ \E d \in SendingIds : Transmit(d) /\ SendingIds' \subseteq SendingIds \ {d}
         \/ /\ pc' = "kick_tx" /\ UNCHANGED <<rxbuf, arrived, wire>>
            /\ \/ pc = "rx_entry" /\ i < RxCount /\ RxEntryId \in Pool("rx") /\ rxid' = RxEntryId
               \/ pc = "tx_wait" /\ rxid' = rxid
            /\ \E s \in Pool("tx") \ SendingIds :
                 /\ SendingIds' \subseteq SendingIds \cup {s}
                 /\ txbuf' = [txbuf EXCEPT ![s] = rxbuf[RxEntryId].n]
<1>q. "rx" \in Queues /\ "tx" \in Queues /\ "rx" # "tx" /\ \A q \in Queues : q = "rx" \/ q = "tx"
  BY DEF Queues
<1>t. /\ availIdx \in [Queues -> Idx] /\ fetched \in [Queues -> Idx]
      /\ DOMAIN avail = Queues /\ DOMAIN held = Queues
  BY DEF OwnInv, TypeOK, PerQueue
<1>1. ASSUME UNCHANGED <<size, txbuf, wire>>, avail'["tx"] = avail["tx"], availIdx'["tx"] = availIdx["tx"],
             fetched'["tx"] = fetched["tx"], held'["tx"] = held["tx"]
      PROVE  UNCHANGED <<txbuf, wire>> /\ SendingIds' \subseteq SendingIds
  <2>1. AvailLen("tx")' = AvailLen("tx") /\ AvailView("tx")' = AvailView("tx")
    BY <1>1 DEF AvailLen, AvailView
  <2> QED
    BY <1>1, <2>1, SendingView
<1>2. CASE EchoPacket \/ EchoOrWait \/ (AwaitTxSlot /\ ~late)
  <2>1. /\ UNCHANGED <<size, fetched, held, rxbuf, arrived, wire>>
        /\ \/ pc = "rx_entry" /\ i < RxCount /\ RxEntryId \in Pool("rx") /\ rxid' = RxEntryId
           \/ pc = "tx_wait" /\ rxid' = rxid
    BY <1>2 DEF EchoPacket, EchoOrWait, AwaitTxSlot, Matches, fixed, device
  <2>2. \E next, busy : AnswerOr(next, busy) /\ (busy = in_flight \/ busy = in_flight \ CompletedTx)
    BY <1>2 DEF EchoPacket, EchoOrWait, AwaitTxSlot
  <2>3. \/ txbuf' = txbuf /\ SendingIds' \subseteq SendingIds
        \/ /\ pc' = "kick_tx"
           /\ \E s \in Pool("tx") \ SendingIds :
                /\ SendingIds' \subseteq SendingIds \cup {s}
                /\ txbuf' = [txbuf EXCEPT ![s] = rxbuf[RxEntryId].n]
    BY <2>1, <2>2, AnswerSends
  <2> QED
    BY <2>1, <2>3
<1>3. CASE AwaitTxSlot /\ late
  <2>1. UNCHANGED <<size, txbuf, wire, avail, availIdx, fetched, held>>
    BY <1>3 DEF AwaitTxSlot, fixed, device
  <2> QED
    BY <1>1, <2>1
<1>4. CASE Recycle
  <2>1. UNCHANGED <<size, txbuf, wire, fetched, held>> /\ MakeAvailable("rx", rxid)
    BY <1>4 DEF Recycle, fixed, device
  <2>2. avail'["tx"] = avail["tx"] /\ availIdx'["tx"] = availIdx["tx"]
    BY <1>q, <1>t, <2>1 DEF MakeAvailable
  <2> QED
    BY <1>1, <2>1, <2>2
<1>5. CASE DriverStep /\ ~(EchoPacket \/ EchoOrWait \/ AwaitTxSlot \/ Recycle)
  <2>1. UNCHANGED <<size, txbuf, wire, avail, availIdx, fetched, held>>
    BY <1>5 DEF DriverStep, WaitForAck, ReadAck, LoopTop, ReadRxIdx, SkipOutsideId, SkipPacket,
           CountPacket, KickTx, KickRx, EndRx, Poll, PollTimeout, TxDrain, TxPoll, TxPollTimeout,
           rings, fixed, sizes, device
  <2> QED
    BY <1>1, <2>1
<1>6. CASE \E q \in Queues : Fetch(q)
  <2>1. PICK q \in Queues : Fetch(q)
    BY <1>6
  <2>2. UNCHANGED <<size, txbuf, wire, last, in_flight, avail, availIdx, used, usedIdx>>
    BY <2>1 DEF Fetch, rings, fixed, driver
  <2>3. /\ fetched[q] # availIdx[q] /\ fetched' = [fetched EXCEPT ![q] = Succ(@)]
        /\ held' = [held EXCEPT ![q] = @ \cup {avail[q][fetched[q] % size[q]]}]
    BY <2>1 DEF Fetch
  <2>4. CASE q = "rx"
    BY <1>q, <1>t, <1>1, <2>2, <2>3, <2>4
  <2>5. CASE q = "tx"
    <3>1. /\ fetched'["tx"] = Succ(fetched["tx"])
          /\ held'["tx"] = held["tx"] \cup {avail["tx"][fetched["tx"] % size["tx"]]}
      BY <1>q, <1>t, <2>3, <2>5
    <3>2. NextUsed("tx")' = NextUsed("tx") /\ Busy("tx")' = Busy("tx") /\ Hand("tx")' = Hand("tx")
      <4>1. Handled("tx")' = 0 /\ Handled("tx") = 0
        BY DEF Handled
      <4>2. Hand("tx")' = {} /\ Hand("tx") = {}
        BY DEF Hand, InHand
      <4> QED
        BY <2>2, <4>1, <4>2 DEF NextUsed, Busy
    <3>3. Fetches("tx")
      BY <1>q, <2>2, <2>3, <2>5, <3>1, <3>2, FetchOwned
    <3>4. PICK a \in Nat : a = AvailLen("tx")
      BY <1>q, QueueFacts
    <3>5. PICK A : A = AvailView("tx")
      OBVIOUS
    <3>6. PICK A2 : A2 = AvailView("tx")'
      OBVIOUS
    <3>7. /\ a > 0 /\ AvailLen("tx")' = a - 1 /\ held'["tx"] = held["tx"] \cup {A[0]}
          /\ \A k \in 0 .. a - 2 : A2[k] = A[k + 1]
      BY <3>3, <3>4, <3>5, <3>6 DEF Fetches
    <3>8. \A k \in 0 .. (a - 1) - 1 : k + 1 \in 0 .. a - 1 /\ A2[k] = A[k + 1]
      BY <3>7
    <3>9. Ids(a - 1, A2) \subseteq Ids(a, A) /\ A[0] \in Ids(a, A)
      BY <3>7, <3>8 DEF Ids
    <3>10. /\ SendingIds = {d \in Pool("tx") : d \in held["tx"] \/ d \in Ids(a, A)}
           /\ SendingIds' = {d \in Pool("tx") : d \in held'["tx"] \/ d \in Ids(a - 1, A2)}
      BY <3>4, <3>5, <3>6, <3>7, SendingView
    <3>11. SendingIds' \subseteq SendingIds
      BY <3>7, <3>9, <3>10
    <3> QED
      BY <2>2, <3>11
  <2> QED
    BY <1>q, <2>4, <2>5
<1>7. CASE \E d \in Pool("tx") : Transmit(d)
  <2>1. PICK d \in Pool("tx") : Transmit(d)
    BY <1>7
  <2>2. /\ UNCHANGED <<size, avail, availIdx, fetched>> /\ d \in held["tx"]
        /\ held' = [held EXCEPT !["tx"] = @ \ {d}]
    BY <2>1 DEF Transmit, ReturnUsed, fixed
  <2>3. held'["tx"] = held["tx"] \ {d}
    BY <1>q, <1>t, <2>2
  <2>4. PICK a : a = AvailLen("tx") /\ a = AvailLen("tx")'
    BY <2>2 DEF AvailLen
  <2>5. PICK A : A = AvailView("tx") /\ A = AvailView("tx")'
    BY <2>2 DEF AvailView
  <2>6. d \notin Ids(a, A)
    <3>1. \E P, F, u, U, H : Owned(P, F, a, A, u, U, H, held["tx"])
      BY <1>q, <2>4, <2>5 DEF OwnInv, OwnedIn
    <3>2. \A j \in 0 .. a - 1 : A[j] \notin held["tx"]
      BY <3>1 DEF Owned
    <3> QED
      BY <2>2, <3>2 DEF Ids
  <2>7. /\ SendingIds = {e \in Pool("tx") : e \in held["tx"] \/ e \in Ids(a, A)}
        /\ SendingIds' = {e \in Pool("tx") : e \in held'["tx"] \/ e \in Ids(a, A)}
    BY <2>4, <2>5, SendingView
  <2>8. d \in SendingIds /\ SendingIds' \subseteq SendingIds \ {d}
    BY <2>2, <2>3, <2>6, <2>7
  <2> QED
    BY <2>1, <2>8
<1>8. CASE \E d \in Pool("rx") : Receive(d)
  <2>1. PICK d \in Pool("rx") : Receive(d)
    BY <1>8
  <2>2. UNCHANGED <<size, txbuf, wire, avail, availIdx, fetched>> /\ held' = [held EXCEPT !["rx"] = @ \ {d}]
    BY <2>1 DEF Receive, ReturnUsed, fixed
  <2>3. held'["tx"] = held["tx"]
    BY <1>q, <1>t, <2>2
  <2> QED
    BY <1>1, <2>2, <2>3
<1>9. CASE \/ DeadlinePasses \/ AnswerCommand \/ ReturnCommand
           \/ \E q \in Queues : Sleep(q) \/ DeliverMsi(q)
           \/ UNCHANGED vars
  <2>1. UNCHANGED <<size, txbuf, wire, avail, availIdx, fetched, held>>
    BY <1>9 DEF DeadlinePasses, AnswerCommand, ReturnCommand, Sleep, DeliverMsi, vars, rings, fixed, sizes,
           device
  <2> QED
    BY <1>1, <2>1
<1> QED
  BY <1>2, <1>3, <1>4, <1>5, <1>6, <1>7, <1>8, <1>9 DEF Next, DriverStep

\* Every step leaves the packets that wait, are on their way and have gone out different.
LEMMA NextEchoInv == ASSUME OwnInv, Buffers, EchoInv, [Next]_vars PROVE EchoInv'
<1>1. PICK n \in Nat : n = arrived
  BY BoundAssumption DEF OwnInv, TypeOK
<1>2. PICK W : W = WaitingIds
  OBVIOUS
<1>3. PICK W2 : W2 = WaitingIds'
  OBVIOUS
<1>4. PICK R : R = SendingIds
  OBVIOUS
<1>5. PICK R2 : R2 = SendingIds'
  OBVIOUS
<1>6. PICK X : X = rxbuf /\ DOMAIN X = Pool("rx")
  BY DEF Buffers
<1>7. PICK X2 : X2 = rxbuf'
  OBVIOUS
<1>8. PICK Y : Y = txbuf /\ DOMAIN Y = Pool("tx")
  BY DEF Buffers
<1>9. PICK Y2 : Y2 = txbuf'
  OBVIOUS
<1>10. PICK T : T = wire
  OBVIOUS
<1>11. Different(n, W, X, R, Y, T) /\ W \subseteq Pool("rx") /\ W2 \subseteq Pool("rx")
       /\ R \subseteq Pool("tx") /\ R2 \subseteq Pool("tx")
  BY <1>1, <1>2, <1>3, <1>4, <1>5, <1>6, <1>8, <1>10 DEF EchoInv, WaitingIds, SendingIds
<1>12. Different(arrived', W2, X2, R2, Y2, wire')
  <2>1. CASE \E d \in Pool("rx") : Receive(d)
    <3>1. PICK d \in Pool("rx") : Receive(d) /\ W2 \subseteq W \cup {d}
      BY <1>2, <1>3, <2>1, WaitingSteps
    <3>2. PICK m : X2 = [X EXCEPT ![d] = [n |-> n + 1, match |-> m]]
      BY <1>1, <1>6, <1>7, <3>1 DEF Receive
    <3>3. /\ \A e \in W2 : e # d => X2[e] = X[e]
          /\ X2[d].n = n + 1
      BY <1>6, <1>11, <3>1, <3>2
    <3>4. arrived' = n + 1 /\ arrived' # arrived /\ Y2 = Y /\ wire' = T
      BY <1>1, <1>8, <1>9, <1>10, <3>1 DEF Receive
    <3>5. \A e : ~Transmit(e)
      BY <3>4 DEF Transmit
    <3>6. R2 \subseteq R
      BY <1>4, <1>5, <3>4, <3>5, SendingSteps
    <3>7. Different(n + 1, W2, X2, R, Y, T)
      BY <1>11, <3>1, <3>3, DifferentArrived
    <3>8. n + 1 \in Nat /\ W2 \subseteq W2
      OBVIOUS
    <3>9. Different(n + 1, W2, X2, R2, Y, T)
      BY <3>6, <3>7, <3>8, DifferentFewer
    <3> QED
      BY <3>4, <3>9
  <2>2. CASE ~(\E d \in Pool("rx") : Receive(d))
    <3>1. W2 \subseteq W
      BY <1>2, <1>3, <2>2, WaitingSteps
    <3>2. rxbuf' = rxbuf /\ arrived' = arrived
      <4>1. CASE DriverStep
        BY <4>1 DEF DriverStep, WaitForAck, ReadAck, LoopTop, ReadRxIdx, SkipOutsideId, SkipPacket,
               EchoPacket, EchoOrWait, AwaitTxSlot, CountPacket, KickTx, Recycle, KickRx, EndRx, Poll, PollTimeout,
               TxDrain, TxPoll, TxPollTimeout, device
      <4>2. CASE ~DriverStep
        BY <2>2, <4>2 DEF Next, DeadlinePasses, AnswerCommand, ReturnCommand, Fetch, Sleep,
               DeliverMsi, Transmit, vars, device
      <4> QED
        BY <4>1, <4>2
    <3>3. X2 = X /\ arrived' = n
      BY <1>1, <1>6, <1>7, <3>2
    <3>4. CASE UNCHANGED <<txbuf, wire>> /\ SendingIds' \subseteq SendingIds
      <4>1. Y2 = Y /\ wire' = T /\ R2 \subseteq R
        BY <1>4, <1>5, <1>8, <1>9, <1>10, <3>4
      <4>2. Different(n, W2, X, R2, Y, T)
        BY <1>11, <3>1, <4>1, DifferentFewer
      <4> QED
        BY <3>3, <4>1, <4>2
    <3>5. CASE \E d \in SendingIds : Transmit(d) /\ SendingIds' \subseteq SendingIds \ {d}
      <4>1. PICK d \in R : Transmit(d) /\ R2 \subseteq R \ {d}
        BY <1>4, <1>5, <3>5
      <4>2. Y2 = Y /\ wire' = Append(T, Y[d])
        BY <1>8, <1>9, <1>10, <4>1 DEF Transmit
      <4>3. Different(n, W2, X, R2, Y, Append(T, Y[d]))
        BY <1>11, <3>1, <4>1, DifferentSent
      <4> QED
        BY <3>3, <4>2, <4>3
    <3>6. CASE /\ pc' = "kick_tx" /\ UNCHANGED <<rxbuf, arrived, wire>>
               /\ \/ pc = "rx_entry" /\ i < RxCount /\ RxEntryId \in Pool("rx") /\ rxid' = RxEntryId
                  \/ pc = "tx_wait" /\ rxid' = rxid
               /\ \E s \in Pool("tx") \ SendingIds :
                    /\ SendingIds' \subseteq SendingIds \cup {s}
                    /\ txbuf' = [txbuf EXCEPT ![s] = rxbuf[RxEntryId].n]
      <4>1. PICK d : d = RxEntryId
        OBVIOUS
      <4>2. d \in W /\ d = rxid'
        <5>1. CASE pc = "rx_entry" /\ i < RxCount /\ RxEntryId \in Pool("rx") /\ rxid' = RxEntryId
          BY <1>2, <4>1, <5>1, EntryWaits
        <5>2. CASE pc = "tx_wait" /\ rxid' = rxid
          <6>1. rxid \in Pool("rx") /\ d = rxid
            BY <4>1, <5>2 DEF OwnInv, TypeOK, EchoInv
          <6> QED
            BY <1>2, <5>2, <6>1, WaitingView
        <5> QED
          BY <3>6, <5>1, <5>2
      <4>3. W2 \subseteq W \ {d}
        <5>1. rxid' \notin W2
          BY <1>3, <3>6, WaitingSteps
        <5> QED
          BY <3>1, <4>2, <5>1
      <4>4. PICK s \in Pool("tx") : s \notin R /\ R2 \subseteq R \cup {s} /\ Y2 = [Y EXCEPT ![s] = X[d].n]
        BY <1>4, <1>5, <1>6, <1>8, <1>9, <3>6, <4>1
      <4>5. (\A e \in R2 : e # s => Y2[e] = Y[e]) /\ (s \in R2 => Y2[s] = X[d].n)
        BY <1>8, <1>11, <4>4
      <4>6. Different(n, W2, X, R2, Y2, T)
        <5>1. s \notin R /\ R2 \subseteq R \cup {s}
          BY <4>4
        <5>2. Different(n, W, X, R, Y, T) /\ d \in W
          BY <1>11, <4>2
        <5> QED
          BY <4>3, <4>5, <5>1, <5>2, DifferentAnswered
      <4> QED
        BY <1>10, <3>3, <3>6, <4>6
    <3> QED
      BY <3>4, <3>5, <3>6, SendingSteps
  <2> QED
    BY <2>1, <2>2
<1>13. (pc = "tx_wait" => RxEntryId = rxid)'
  BY NextWait DEF EchoInv
<1> QED
  BY <1>3, <1>5, <1>7, <1>9, <1>12, <1>13 DEF EchoInv

\* What goes out on the wire are answers to packets that arrived, each at most once, whatever
\* the sizes: in the loops of 25 and 26 no answer is overwritten by a later one before the
\* device has read it, and no used entry is handled twice, late or not.
THEOREM EachEchoOnce == Spec => []EchoesOnce
<1> DEFINE Inv == OwnInv /\ Buffers /\ EchoInv
<1>1. Init => Inv
  <2> SUFFICES ASSUME Init PROVE Inv
    OBVIOUS
  <2>1. OwnInv
    BY InitOwnInv
  <2>2. Buffers
    BY DEF Init, Buffers
  <2>3. pc \in {"ctrl_wait", "top"} /\ wire = << >> /\ arrived = 0
    BY DEF Init
  <2>4. WaitingIds = {} /\ SendingIds = {}
    <3>1. UsedLen("rx") = 0 /\ AvailLen("tx") = 0 /\ held["tx"] = {}
      BY InitOwnInv
    <3>2. \A U : Ids(0, U) = {}
      BY DEF Ids
    <3> QED
      BY <2>3, <3>1, <3>2, WaitingView, SendingView
  <2>5. \A X, Y : Different(0, {}, X, {}, Y, << >>)
    BY DEF Different
  <2> QED
    BY <2>1, <2>2, <2>3, <2>4, <2>5 DEF EchoInv
<1>2. Inv /\ [Next]_vars => Inv'
  BY NextOwnInv, NextBuffers, NextEchoInv
<1>3. Inv => EchoesOnce
  <2> SUFFICES ASSUME Inv PROVE EchoesOnce
    OBVIOUS
  <2>1. PICK T : T = wire
    OBVIOUS
  <2>2. PICK n \in Nat : n = arrived
    BY BoundAssumption DEF OwnInv, TypeOK
  <2>3. T \in Seq(1 .. n) /\ \A j, k \in 1 .. Len(T) : T[j] = T[k] => j = k
    BY <2>1, <2>2 DEF EchoInv, Different
  <2>4. \A k \in 1 .. Len(T) : T[k] \in 1 .. n
    BY <2>3
  <2> QED
    BY <2>1, <2>2, <2>3, <2>4 DEF EchoesOnce
<1> HIDE DEF Inv
<1> QED
  BY <1>1, <1>2, <1>3, PTL DEF Spec
====
