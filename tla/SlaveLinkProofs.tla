--------------------------- MODULE SlaveLinkProofs --------------------------
(***************************************************************************)
(* Theorems about SlaveLink for counters of any width, any packet lengths  *)
(* and any number of failures: the flow control of both directions.        *)
(***************************************************************************)
EXTENDS SlaveLink, TLAPS

\* What ConstantsOK says of each constant.
LEMMA Constants ==
  ASSUME ConstantsOK
  PROVE  /\ TxMod \in Nat \ {0} /\ RxMod \in Nat \ {0} /\ HostMod \in Nat \ {0}
         /\ Bytes \in Nat \ {0} /\ BufSize \in Nat \ {0} /\ BlockSize \in Nat \ {0}
         /\ ByteMod \in Nat \ {0} /\ ByteMod > 1
         /\ \A i \in 0..Bytes : Weight[i] \in Nat \ {0} /\ HostMod % Weight[i] = 0
         /\ \A i \in 0..(Bytes - 1) : Weight[i + 1] = ByteMod * Weight[i]
         /\ Weight[0] = 1 /\ Weight[Bytes] = HostMod
         /\ Ahead \in 0..(TxMod - 1) /\ AheadBytes \in 0..(RxMod - 1)
         /\ Start \in 0..(HostMod - 1) /\ \A n \in Lengths : n \in Nat \ {0}
         /\ MaxSlave \in Nat /\ MaxFailures \in Nat /\ MaxResets \in Nat
<1>1. /\ {TxMod, RxMod, HostMod, Bytes, BufSize, BlockSize} \subseteq Nat \ {0}
      /\ {MaxSlave, MaxFailures, MaxResets} \subseteq Nat
  BY DEF ConstantsOK
<1>2. /\ TxMod \in Nat \ {0} /\ RxMod \in Nat \ {0} /\ HostMod \in Nat \ {0}
      /\ Bytes \in Nat \ {0} /\ BufSize \in Nat \ {0} /\ BlockSize \in Nat \ {0}
      /\ MaxSlave \in Nat /\ MaxFailures \in Nat /\ MaxResets \in Nat
  BY <1>1, Zenon
<1>3. /\ ByteMod \in Nat \ {0, 1} /\ Lengths \subseteq Nat \ {0}
      /\ Weight \in [0..Bytes -> Nat \ {0}] /\ Weight[0] = 1 /\ Weight[Bytes] = HostMod
      /\ \A i \in 0..(Bytes - 1) : Weight[i + 1] = ByteMod * Weight[i]
      /\ \A i \in 0..Bytes : HostMod % Weight[i] = 0
      /\ Start \in 0..(HostMod - 1)
      /\ Ahead \in 0..(TxMod - 1) /\ AheadBytes \in 0..(RxMod - 1)
  BY DEF ConstantsOK
<1> QED
  BY <1>2, <1>3

-----------------------------------------------------------------------------
(* Arithmetic modulo the width of a counter.                               *)

LEMMA DivMod ==
  ASSUME NEW a \in Int, NEW d \in Nat \ {0}
  PROVE  /\ a \div d \in Int /\ a % d \in 0..(d - 1)
         /\ a = d * (a \div d) + (a % d)
BY SMT

\* Quotient and remainder are unique.
LEMMA DivModUnique ==
  ASSUME NEW d \in Nat \ {0}, NEW q \in Int, NEW r \in 0..(d - 1)
  PROVE  (d * q + r) \div d = q /\ (d * q + r) % d = r
<1> DEFINE a == d * q + r
<1>1. a \in Int /\ d * q \in Int
  BY SMT
<1>2. a \div d \in Int /\ a % d \in 0..(d - 1) /\ a = d * (a \div d) + (a % d)
  BY <1>1, DivMod
<1> DEFINE p == a \div d
<1> HIDE DEF p
<1>3. ~(p < q)
  <2> SUFFICES ASSUME p <= q - 1 PROVE FALSE
    BY <1>2 DEF p
  <2>1. p \in Int
    BY <1>2 DEF p
  <2>2. d * p <= d * (q - 1)
    BY <2>1, SMT
  <2>3. d * (q - 1) = d * q - d
    BY SMT
  <2> QED
    BY <1>1, <1>2, <2>1, <2>2, <2>3 DEF p
<1>4. ~(q < p)
  <2> SUFFICES ASSUME q + 1 <= p PROVE FALSE
    BY <1>2 DEF p
  <2>1. p \in Int
    BY <1>2 DEF p
  <2>2. d * (q + 1) <= d * p
    BY <2>1, SMT
  <2>3. d * (q + 1) = d * q + d
    BY SMT
  <2> QED
    BY <1>1, <1>2, <2>1, <2>2, <2>3 DEF p
<1>5. p = q
  BY <1>2, <1>3, <1>4 DEF p
<1> QED
  BY <1>1, <1>2, <1>5 DEF p

LEMMA ModOfMultiple ==
  ASSUME NEW d \in Nat \ {0}, NEW a \in Int, NEW k \in Int
  PROVE  (a + d * k) % d = a % d /\ (a + d * k) \div d = a \div d + k
<1> DEFINE q == a \div d
           r == a % d
<1>1. q \in Int /\ r \in 0..(d - 1) /\ a = d * q + r
  BY DivMod
<1> HIDE DEF q, r
<1>2. a + d * k = d * (q + k) + r
  BY <1>1, SMT
<1>3. q + k \in Int
  BY <1>1
<1>4. (d * (q + k) + r) \div d = q + k /\ (d * (q + k) + r) % d = r
  BY <1>1, <1>3, DivModUnique
<1> QED
  BY <1>2, <1>4 DEF q, r

LEMMA SmallMod ==
  ASSUME NEW d \in Nat \ {0}, NEW a \in 0..(d - 1)
  PROVE  a % d = a /\ a \div d = 0
<1>1. d * 0 + a = a
  BY SMT
<1> QED
  BY <1>1, DivModUnique, SMT

\* What the host computes from a register and its own count, in the host's width:
\* how far the slave is ahead.
Further(v, f, W, H) == ((((v % W) + H - (f % H)) % H) % W)

LEMMA Difference ==
  ASSUME NEW W \in Nat \ {0}, NEW H \in Nat \ {0}, H % W = 0,
         NEW f \in Nat, NEW v \in f..(f + W - 1)
  PROVE  Further(v, f, W, H) = v - f
<1> DEFINE m == H \div W
           x == v \div W
           y == f \div H
           b == (v % W) + H - (f % H)
           z == b \div H
<1>1. m \in Int /\ H = W * m
  BY DivMod, SMT
<1>2. x \in Int /\ v % W \in Int /\ v = W * x + (v % W)
  BY DivMod
<1>3. y \in Int /\ f % H \in Int /\ f = H * y + (f % H)
  BY DivMod
<1>4. b \in Int
  BY <1>2, <1>3
<1>5. z \in Int /\ b % H \in Int /\ b = H * z + (b % H)
  BY <1>4, DivMod
<1> HIDE DEF m, x, y, b, z
<1> DEFINE k == m + m * y - m * z - x
<1>6. k \in Int
  BY <1>1, <1>2, <1>3, <1>5
<1>7. b % H = (v - f) + W * k
  <2>1. b = (v - W * x) + H - (f - H * y)
    BY <1>2, <1>3 DEF b
  <2>2. /\ H * y = W * (m * y) /\ H * z = W * (m * z)
        /\ W * k = W * m + W * (m * y) - W * (m * z) - W * x
    BY <1>1, <1>2, <1>3, <1>5, SMT
  <2>3. /\ W * x \in Int /\ H * y \in Int /\ H * z \in Int /\ W * m \in Int
        /\ W * (m * y) \in Int /\ W * (m * z) \in Int
    BY <1>1, <1>2, <1>3, <1>5, SMT
  <2> DEFINE wx == W * x
             hy == H * y
             hz == H * z
             wm == W * m
             wk == W * k
  <2>4. /\ b = (v - wx) + H - (f - hy) /\ wk = wm + hy - hz - wx /\ H = wm
        /\ wx \in Int /\ hy \in Int /\ hz \in Int /\ wm \in Int /\ wk \in Int
        /\ b = hz + (b % H) /\ b % H \in Int /\ v \in Int
    BY <1>1, <1>5, <1>6, <2>1, <2>2, <2>3
  <2> HIDE DEF wx, hy, hz, wm, wk
  <2>5. b % H = (v - f) + wk
    BY <2>4
  <2> QED
    BY <2>5 DEF wk
<1>8. v - f \in 0..(W - 1)
  OBVIOUS
<1>9. (v - f) % W = v - f
  BY <1>8, SmallMod
<1> HIDE DEF k
<1>10. ((v - f) + W * k) % W = (v - f) % W
  BY <1>6, <1>8, ModOfMultiple
<1> QED
  BY <1>7, <1>9, <1>10 DEF b, Further

\* Of two counters, the one with the width of its register.
LEMMA ModOfMod ==
  ASSUME NEW H \in Nat \ {0}, NEW a \in Int, NEW n \in Int
  PROVE  ((a % H) + n) % H = (a + n) % H
<1> DEFINE q == a \div H
           r == a % H
<1>1. q \in Int /\ r \in Int /\ a = H * q + r
  BY DivMod
<1> HIDE DEF q, r
<1>2. a + n = (r + n) + H * q
  BY <1>1, SMT
<1> DEFINE c == r + n
<1>3. c \in Int
  BY <1>1
<1> HIDE DEF c
<1>4. (c + H * q) % H = c % H
  BY <1>1, <1>3, ModOfMultiple
<1> QED
  BY <1>2, <1>4 DEF r, c

-----------------------------------------------------------------------------
(***************************************************************************)
(* Reading a register part by part while it grows.                         *)
(***************************************************************************)

\* The quotient by the lowest weight decides all the parts above it.
LEMMA DivOfProduct ==
  ASSUME NEW B \in Nat \ {0}, NEW W \in Nat \ {0}, NEW a \in Nat
  PROVE  a \div (B * W) = (a \div B) \div W
<1> DEFINE q == a \div B
           r == a % B
           p == q \div W
           s == q % W
<1>1. q \in Int /\ r \in 0..(B - 1) /\ a = B * q + r
  BY DivMod
<1>2. p \in Int /\ s \in 0..(W - 1) /\ q = W * p + s
  BY <1>1, DivMod
<1> HIDE DEF q, r, p, s
<1>3. a = (B * W) * p + (B * s + r)
  <2>1. B * q = B * (W * p) + B * s
    BY <1>2, SMT
  <2>2. B * (W * p) = (B * W) * p
    BY <1>2, SMT
  <2>3. B * q \in Int /\ B * s \in Int /\ (B * W) * p \in Int
    BY <1>1, <1>2, SMT
  <2> QED
    BY <1>1, <1>2, <2>1, <2>2, <2>3
<1>4. B * s + r \in 0..(B * W - 1) /\ B * W \in Nat \ {0}
  <2>1. B * s >= 0 /\ B * s <= B * (W - 1)
    BY <1>2, SMT
  <2>2. B * (W - 1) = B * W - B /\ B * W \in Nat /\ B * s \in Int
    BY <1>2, SMT
  <2>3. B * W >= B
    BY <2>2, SMT
  <2> QED
    BY <1>1, <2>1, <2>2, <2>3
<1>5. ((B * W) * p + (B * s + r)) \div (B * W) = p
  BY <1>2, <1>4, DivModUnique
<1> QED
  BY <1>3, <1>5 DEF p, q

\* A number modulo the next weight, from the one before and the part between.
LEMMA ModOfProduct ==
  ASSUME NEW B \in Nat \ {0}, NEW W \in Nat \ {0}, NEW a \in Nat
  PROVE  a % (W * B) = (a % W) + W * ((a \div W) % B)
<1> DEFINE q == a \div W
           r == a % W
           p == q \div B
           s == q % B
<1>1. q \in Int /\ r \in 0..(W - 1) /\ a = W * q + r
  BY DivMod
<1>2. p \in Int /\ s \in 0..(B - 1) /\ q = B * p + s
  BY <1>1, DivMod
<1> HIDE DEF q, r, p, s
<1>3. a = (W * B) * p + (W * s + r)
  <2>1. W * q = W * (B * p) + W * s
    BY <1>2, SMT
  <2>2. W * (B * p) = (W * B) * p
    BY <1>2, SMT
  <2>3. W * q \in Int /\ W * s \in Int /\ (W * B) * p \in Int
    BY <1>1, <1>2, SMT
  <2> QED
    BY <1>1, <1>2, <2>1, <2>2, <2>3
<1>4. W * s + r \in 0..(W * B - 1) /\ W * B \in Nat \ {0}
  <2>1. W * s >= 0 /\ W * s <= W * (B - 1)
    BY <1>2, SMT
  <2>2. W * (B - 1) = W * B - W /\ W * B \in Nat /\ W * s \in Int
    BY <1>2, SMT
  <2>3. W * B >= W
    BY <2>2, SMT
  <2> QED
    BY <1>1, <2>1, <2>2, <2>3
<1>5. ((W * B) * p + (W * s + r)) % (W * B) = W * s + r
  BY <1>2, <1>4, DivModUnique
<1>6. W * s + r = r + W * s
  <2>1. W * s \in Int
    BY <1>2, SMT
  <2> QED
    BY <1>1, <2>1
<1> QED
  BY <1>3, <1>5, <1>6 DEF r, s, q

LEMMA DivGrows ==
  ASSUME NEW B \in Nat \ {0}, NEW a \in Nat, NEW b \in Nat, a <= b
  PROVE  a \div B <= b \div B /\ a \div B \in Nat /\ b \div B \in Nat
<1> DEFINE q == a \div B
           p == b \div B
<1>1. q \in Int /\ a % B \in 0..(B - 1) /\ a = B * q + (a % B)
  BY DivMod
<1>2. p \in Int /\ b % B \in 0..(B - 1) /\ b = B * p + (b % B)
  BY DivMod
<1> HIDE DEF p, q
<1>3. ASSUME NEW n \in Int, NEW c \in Nat, NEW r \in 0..(B - 1), c = B * n + r
      PROVE  n >= 0
  <2> SUFFICES ASSUME n <= -1 PROVE FALSE
    OBVIOUS
  <2>1. B * n <= B * (-1)
    BY SMT
  <2>2. B * (-1) = -B /\ B * n \in Int
    BY SMT
  <2> QED
    BY <1>3, <2>1, <2>2
<1>4. q \in Nat /\ p \in Nat
  BY <1>1, <1>2, <1>3
<1>5. ASSUME p <= q - 1 PROVE FALSE
  <2>1. B * p <= B * (q - 1)
    BY <1>4, <1>5, SMT
  <2>2. B * (q - 1) = B * q - B /\ B * q \in Int /\ B * p \in Int
    BY <1>4, SMT
  <2> QED
    BY <1>1, <1>2, <2>1, <2>2
<1> QED
  BY <1>4, <1>5 DEF p, q

\* A part of a register is that of the counter behind it.
LEMMA PartOfRegister ==
  ASSUME ConstantsOK, NEW k \in 0..(Bytes - 1), NEW a \in Nat
  PROVE  (((a % HostMod) \div Weight[k]) % ByteMod) = ((a \div Weight[k]) % ByteMod)
<1> DEFINE W == Weight[k]
           U == Weight[k + 1]
           m == HostMod \div U
           q == a \div HostMod
<1>1. W \in Nat \ {0} /\ U \in Nat \ {0} /\ U = ByteMod * W /\ HostMod % U = 0
      /\ HostMod \in Nat \ {0} /\ ByteMod \in Nat \ {0}
  <2>1. k \in 0..Bytes /\ k + 1 \in 0..Bytes
    BY Constants
  <2> QED
    BY <2>1, Constants
<1> HIDE DEF W, U
<1>2. m \in Int /\ HostMod = U * m
  <2> HostMod \in Int /\ U \in Nat \ {0}
    BY <1>1
  <2>1. m \in Int /\ HostMod = U * m + (HostMod % U)
    BY DivMod
  <2>2. U * m \in Int
    BY <1>1, <2>1, SMT
  <2> QED
    BY <1>1, <2>1, <2>2
<1>3. q \in Int /\ a = HostMod * q + (a % HostMod) /\ a % HostMod \in Int
  BY <1>1, DivMod
<1> DEFINE c == ByteMod * (-(m * q))
<1> HIDE DEF m, q
<1>4. a % HostMod = a + W * c
  <2>1. HostMod * q = W * (ByteMod * (m * q))
    BY <1>1, <1>2, <1>3, SMT
  <2>2. W * c = -(W * (ByteMod * (m * q)))
    BY <1>1, <1>2, <1>3, SMT
  <2>3. HostMod * q \in Int
    BY <1>1, <1>3, SMT
  <2> HIDE DEF c
  <2> QED
    BY <1>3, <2>1, <2>2, <2>3
<1>5. c \in Int /\ -(m * q) \in Int
  BY <1>1, <1>2, <1>3, SMT
<1>6. (a % HostMod) \div W = (a \div W) + c
  <2> HIDE DEF c
  <2> QED
    BY <1>1, <1>4, <1>5, ModOfMultiple
<1>7. a \div W \in Int
  BY <1>1, DivMod
<1> DEFINE n == a \div W
           l == -(m * q)
<1>8. c = ByteMod * l
  OBVIOUS
<1> HIDE DEF n, l, c
<1>9. (n + ByteMod * l) % ByteMod = n % ByteMod
  BY <1>1, <1>5, <1>7, ModOfMultiple DEF n, l
<1> QED
  BY <1>6, <1>8, <1>9 DEF n, W

\* r may be what the first k parts gave of a register that grew from lo to hi
\* while they were read: its lowest part is that of a, the next that of b, and
\* if what lies above the lowest has not changed since b, r is a value of the
\* register.
Torn(k, r, lo, hi) ==
  \E a, b \in lo..hi :
    /\ a <= b /\ r \in 0..(Weight[k] - 1)
    /\ k >= 1 => r % ByteMod = a % ByteMod
    /\ k >= 2 => (r \div ByteMod) % ByteMod = (b \div ByteMod) % ByteMod
    /\ k >= 1 /\ b \div ByteMod = hi \div ByteMod =>
         r = (ByteMod * (b \div ByteMod) + (a % ByteMod)) % Weight[k]

LEMMA TornStarts ==
  ASSUME ConstantsOK, NEW lo \in Nat, NEW hi \in Nat, lo <= hi
  PROVE  Torn(0, 0, lo, hi)
<1>1. 0 \in 0..(Weight[0] - 1) /\ hi \in lo..hi
  BY Constants
<1> QED
  BY <1>1 DEF Torn

LEMMA TornGrows ==
  ASSUME ConstantsOK, NEW k \in 0..Bytes, NEW r, NEW lo \in Nat, NEW hi \in Nat,
         NEW top \in Nat, hi <= top, Torn(k, r, lo, hi)
  PROVE  Torn(k, r, lo, top)
<1>1. PICK a, b \in lo..hi :
        /\ a <= b /\ r \in 0..(Weight[k] - 1)
        /\ k >= 1 => r % ByteMod = a % ByteMod
        /\ k >= 2 => (r \div ByteMod) % ByteMod = (b \div ByteMod) % ByteMod
        /\ k >= 1 /\ b \div ByteMod = hi \div ByteMod =>
             r = (ByteMod * (b \div ByteMod) + (a % ByteMod)) % Weight[k]
  BY DEF Torn
<1>2. a \in lo..top /\ b \in lo..top
  OBVIOUS
<1>3. b \div ByteMod = top \div ByteMod => b \div ByteMod = hi \div ByteMod
  <2>1. ByteMod \in Nat \ {0} /\ b \in Nat /\ b <= hi
    BY Constants
  <2>2. /\ b \div ByteMod <= hi \div ByteMod /\ hi \div ByteMod <= top \div ByteMod
        /\ b \div ByteMod \in Nat /\ hi \div ByteMod \in Nat /\ top \div ByteMod \in Nat
    BY <2>1, DivGrows
  <2> QED
    BY <2>2
<1> QED
  BY <1>1, <1>2, <1>3 DEF Torn

\* A part above the two lowest leaves them.
LowStay(B, w, r, d) ==
  /\ (r + (B * (B * w)) * d) % B = r % B
  /\ ((r + (B * (B * w)) * d) \div B) % B = (r \div B) % B

LEMMA LowParts ==
  ASSUME NEW B \in Nat \ {0}, NEW w \in Nat \ {0}, NEW r \in Nat, NEW d \in Nat
  PROVE  LowStay(B, w, r, d)
<1> DEFINE l == w * d
           n == B * l
<1>2. l \in Int /\ n \in Int
  <2>1. l \in Int
    BY SMT
  <2> HIDE DEF l
  <2> QED
    BY <2>1, SMT
<1>4. r + (B * (B * w)) * d = r + B * n
  BY SMT
<1> DEFINE s == r + (B * (B * w)) * d
<1> HIDE DEF n, s
<1>5. s % B = r % B /\ s \div B = (r \div B) + n
  <2>1. (r + B * n) % B = r % B /\ (r + B * n) \div B = (r \div B) + n
    <3>1. n \in Int /\ r \in Int
      BY <1>2
    <3> QED
      BY <3>1, ModOfMultiple
  <2> QED
    BY <1>4, <2>1 DEF s
<1> DEFINE x == r \div B
<1>6. x \in Int
  BY DivMod
<1> HIDE DEF l, x
<1>7. (x + B * l) % B = x % B
  BY <1>2, <1>6, ModOfMultiple
<1> QED
  BY <1>5, <1>7 DEF n, x, s, LowStay

\* What lies above the lowest part decides the next.
Extends(B, V, a, b, hi) ==
  (B * (b \div B) + (a % B)) % ((B * V) * B)
    = ((B * (b \div B) + (a % B)) % (B * V)) + (B * V) * ((hi \div (B * V)) % B)

LEMMA NextPart ==
  ASSUME NEW B \in Nat \ {0}, NEW V \in Nat \ {0},
         NEW a \in Nat, NEW b \in Nat, NEW hi \in Nat, b \div B = hi \div B
  PROVE  Extends(B, V, a, b, hi)
<1> DEFINE Q == b \div B
           c == a % B
           X == B * Q + c
           W == B * V
<1>1. W \in Nat \ {0}
  BY SMT
<1>2. Q \in Nat
  BY DivGrows
<1>3. c \in 0..(B - 1)
  BY DivMod
<1> HIDE DEF Q, c
<1>4. X \div B = Q
  <2>1. Q \in Int
    BY <1>2
  <2> QED
    BY <1>3, <2>1, DivModUnique
<1>5. X \in Nat
  <2>1. B * Q \in Nat
    BY <1>2, SMT
  <2> QED
    BY <1>3, <2>1
<1> HIDE DEF X
<1>6. X \div (B * V) = (X \div B) \div V /\ hi \div (B * V) = (hi \div B) \div V
  BY <1>5, DivOfProduct
<1>7. X \div W = hi \div W
  BY <1>4, <1>6 DEF Q
<1> HIDE DEF W
<1>8. X % (W * B) = (X % W) + W * ((X \div W) % B)
  BY <1>1, <1>5, ModOfProduct
<1> QED
  BY <1>7, <1>8 DEF X, Q, c, W, Extends

LEMMA PartFits ==
  ASSUME NEW B \in Nat \ {0}, NEW W \in Nat \ {0}, NEW r \in 0..(W - 1), NEW d \in 0..(B - 1)
  PROVE  r + W * d \in 0..(B * W - 1)
<1> DEFINE x == W * d
           y == B * W
<1>1. x >= 0 /\ x <= W * (B - 1) /\ x \in Int
  BY SMT
<1>2. W * (B - 1) = y - W /\ y \in Nat
  BY SMT
<1> HIDE DEF x, y
<1>3. r + x \in 0..(y - 1)
  BY <1>1, <1>2
<1> QED
  BY <1>3 DEF x, y

\* The next part, read while the counter is hi.
LEMMA TornStep ==
  ASSUME ConstantsOK, NEW k, k \in 0..(Bytes - 1), NEW r, NEW lo \in Nat, NEW hi \in Nat,
         Torn(k, r, lo, hi)
  PROVE  Torn(k + 1, r + Weight[k] * ((hi \div Weight[k]) % ByteMod), lo, hi)
<1>0. Bytes \in Nat
  BY Constants
<1>1. k \in 0..Bytes /\ k + 1 \in 0..Bytes /\ k \in Nat
  BY <1>0
<1>2. PICK B \in Nat \ {0}, W \in Nat \ {0}, U \in Nat \ {0} :
        B = ByteMod /\ W = Weight[k] /\ U = Weight[k + 1] /\ U = B * W
  BY <1>1, Constants
<1>3. PICK a, b :
        /\ a \in lo..hi /\ b \in lo..hi /\ a <= b /\ r \in 0..(W - 1)
        /\ k >= 1 => r % B = a % B
        /\ k >= 2 => (r \div B) % B = (b \div B) % B
        /\ k >= 1 /\ b \div B = hi \div B =>
             r = (B * (b \div B) + (a % B)) % W
  BY <1>2 DEF Torn
<1>4. a \in Nat /\ b \in Nat /\ hi \in lo..hi /\ r \in Nat
  BY <1>3
<1>5. PICK d : d \in 0..(B - 1) /\ d = (hi \div W) % B
  <2>1. hi \div W \in Int
    BY DivMod
  <2> QED
    BY <2>1, DivMod
<1> DEFINE s == r + W * d
<1>6. s \in 0..(U - 1)
  <2>1. r + W * d \in 0..(B * W - 1)
    BY <1>2, <1>3, <1>5, PartFits
  <2> QED
    BY <1>2, <2>1
<1> SUFFICES \E x, y \in lo..hi :
        /\ x <= y /\ s \in 0..(U - 1)
        /\ k + 1 >= 1 => s % B = x % B
        /\ k + 1 >= 2 => (s \div B) % B = (y \div B) % B
        /\ k + 1 >= 1 /\ y \div B = hi \div B =>
             s = (B * (y \div B) + (x % B)) % U
  BY <1>2, <1>5 DEF Torn
<1>7. CASE k = 0
  <2>1. W = 1 /\ U = B
    <3>1. W = 1
      BY <1>7, Constants, <1>2
    <3> QED
      BY <1>2, <3>1
  <2>2. r = 0 /\ hi \div W = hi
    BY <1>3, <2>1
  <2>3. d = hi % B
    BY <1>5, <2>2
  <2>4. s = hi % B
    BY <1>5, <2>1, <2>2, <2>3
  <2>5. (hi % B) % B = hi % B
    <3>1. hi % B \in 0..(B - 1)
      BY <1>5, <2>3
    <3> QED
      BY <1>2, <3>1, SmallMod
  <2>6. hi = B * (hi \div B) + (hi % B)
    BY DivMod
  <2>7. s = (B * (hi \div B) + (hi % B)) % U /\ s % B = hi % B
    BY <2>1, <2>4, <2>5, <2>6
  <2> HIDE DEF s
  <2>8. /\ hi <= hi /\ s \in 0..(U - 1)
        /\ k + 1 >= 1 => s % B = hi % B
        /\ k + 1 >= 2 => (s \div B) % B = (hi \div B) % B
        /\ k + 1 >= 1 /\ hi \div B = hi \div B =>
             s = (B * (hi \div B) + (hi % B)) % U
    BY <1>6, <1>7, <2>7
  <2> QED
    BY <1>4, <2>8, Zenon
<1>8. CASE k >= 1
  <2>1. W = B \/ k >= 2
    <3>1. CASE k = 1
      <4>1. Weight[0] = 1 /\ Weight[0 + 1] = ByteMod * Weight[0]
        BY <1>0, <1>1, <3>1, Constants
      <4> QED
        BY <1>2, <3>1, <4>1
    <3> QED
      BY <1>1, <1>8, <3>1
  <2>2. CASE k = 1
    <3>1. W = B
      BY <2>1, <2>2
    <3>2. r = a % B /\ r % B = r
      <4>1. r % B = r
        BY <1>2, <1>3, <3>1, SmallMod
      <4> QED
        BY <1>3, <1>8, <4>1
    <3>3. s = B * d + r
      <4>1. B * d \in Int
        BY <1>2, <1>5, SMT
      <4> QED
        BY <1>4, <3>1, <4>1
    <3>4. s \div B = d /\ s % B = r
      <4>1. d \in Int /\ r \in 0..(B - 1)
        BY <1>3, <1>5, <3>1
      <4>2. (B * d + r) \div B = d /\ (B * d + r) % B = r
        BY <1>2, <4>1, DivModUnique
      <4> HIDE DEF s
      <4> QED
        BY <3>3, <4>2
    <3>5. d = (hi \div B) % B /\ d % B = d
      <4>1. d % B = d
        BY <1>2, <1>5, SmallMod
      <4> QED
        BY <1>5, <3>1, <4>1
    <3> DEFINE Q == hi \div B
               X == B * Q + r
    <3>6. Q \in Nat
      BY <1>2, DivGrows
    <3>7. r \in 0..(B - 1)
      BY <1>3, <3>1
    <3>8. X \div B = Q /\ X % B = r
      <4> HIDE DEF Q
      <4>1. Q \in Int
        BY <3>6
      <4> QED
        BY <1>2, <3>7, <4>1, DivModUnique
    <3>9. X \in Nat
      <4> HIDE DEF Q
      <4>1. B * Q \in Nat
        BY <1>2, <3>6, SMT
      <4> QED
        BY <3>7, <4>1
    <3>10. X % (B * B) = (X % B) + B * ((X \div B) % B)
      <4> HIDE DEF X
      <4> QED
        BY <1>2, <3>9, ModOfProduct
    <3>11. X % (B * B) = r + B * d
      BY <3>5, <3>8, <3>10
    <3>12. s = (B * (hi \div B) + (a % B)) % U
      BY <1>2, <3>1, <3>2, <3>11
    <3> HIDE DEF s, X, Q
    <3>13. /\ a <= hi /\ s \in 0..(U - 1)
           /\ k + 1 >= 1 => s % B = a % B
           /\ k + 1 >= 2 => (s \div B) % B = (hi \div B) % B
           /\ k + 1 >= 1 /\ hi \div B = hi \div B =>
                s = (B * (hi \div B) + (a % B)) % U
      BY <1>3, <1>6, <3>2, <3>4, <3>5, <3>12
    <3> QED
      BY <1>3, <1>4, <3>13, Zenon
  <2>3. CASE k >= 2
    <3>1. k - 2 \in 0..(Bytes - 1) /\ k - 1 \in 0..(Bytes - 1) /\ (k - 2) + 1 = k - 1
          /\ (k - 1) + 1 = k /\ k - 2 \in 0..Bytes
          /\ k - 1 \in 0..Bytes
      BY <1>0, <1>1, <2>3
    <3>2. PICK w \in Nat \ {0}, V \in Nat \ {0} : V = B * w /\ W = B * V
      <4>1. Weight[k - 2] \in Nat \ {0} /\ Weight[k - 1] \in Nat \ {0}
        BY <3>1, Constants
      <4>2. Weight[(k - 2) + 1] = ByteMod * Weight[k - 2]
            /\ Weight[(k - 1) + 1] = ByteMod * Weight[k - 1]
        BY <3>1, Constants
      <4> QED
        BY <3>1, <4>1, <4>2, <1>2
    <3>3. a \in Nat /\ b \in Nat /\ r \in Nat /\ d \in Nat
      BY <1>4, <1>5
    <3>4. /\ (r + W * d) % B = r % B
          /\ ((r + W * d) \div B) % B = (r \div B) % B
          /\ b \div B = hi \div B /\ r = (B * (b \div B) + (a % B)) % W =>
               r + W * d = (B * (b \div B) + (a % B)) % (W * B)
      <4> HIDE DEF s
      <4>1. LowStay(B, w, r, d)
        BY <3>3, LowParts
      <4>2. b \div B = hi \div B => Extends(B, V, a, b, hi)
        BY <3>3, NextPart
      <4> QED
        BY <1>5, <3>2, <4>1, <4>2, Zenon DEF LowStay, Extends
    <3>5. W * B = U
      BY <1>2, SMT
    <3>6. /\ s % B = r % B
          /\ (s \div B) % B = (r \div B) % B
          /\ b \div B = hi \div B /\ r = (B * (b \div B) + (a % B)) % W =>
               s = (B * (b \div B) + (a % B)) % U
      BY <3>4, <3>5, Zenon
    <3> HIDE DEF s
    <3>7. /\ a <= b /\ s \in 0..(U - 1)
          /\ k + 1 >= 1 => s % B = a % B
          /\ k + 1 >= 2 => (s \div B) % B = (b \div B) % B
          /\ k + 1 >= 1 /\ b \div B = hi \div B =>
               s = (B * (b \div B) + (a % B)) % U
      <4>1. r % B = a % B /\ (r \div B) % B = (b \div B) % B
        BY <1>3, <2>3, <1>1
      <4>2. b \div B = hi \div B => r = (B * (b \div B) + (a % B)) % W
        BY <1>3, <2>3, <1>1
      <4> QED
        BY <1>3, <1>6, <3>6, <4>1, <4>2, Zenon
    <3> QED
      BY <1>3, <3>7, Zenon
  <2> QED
    BY <1>1, <1>8, <2>2, <2>3
<1> QED
  BY <1>1, <1>7, <1>8, <1>2, <1>5 DEF s

\* A counter that passes fewer than B - 1 times B values shows in the part above
\* the lowest whether it went on to the next.
LEMMA SameQuotient ==
  ASSUME NEW B \in Nat \ {0}, NEW b \in Nat, NEW d \in Nat, b <= d,
         d - b <= B * (B - 1), (b \div B) % B = (d \div B) % B
  PROVE  b \div B = d \div B
<1> DEFINE q == b \div B
           e == d \div B
           i == q \div B
           j == e \div B
           x == q % B
<1>1. q <= e /\ q \in Nat /\ e \in Nat
  BY DivGrows
<1>2. b = B * q + (b % B) /\ b % B \in 0..(B - 1)
  <2>1. b \in Int
    OBVIOUS
  <2> QED
    BY <2>1, DivMod
<1>3. d = B * e + (d % B) /\ d % B \in 0..(B - 1)
  <2>1. d \in Int
    OBVIOUS
  <2> QED
    BY <2>1, DivMod
<1>4. e % B = x
  OBVIOUS
<1> HIDE DEF q, e
<1>5. q = B * i + x /\ i \in Int /\ x \in 0..(B - 1)
  <2>1. q \in Int
    BY <1>1
  <2> QED
    BY <2>1, DivMod
<1>6. e = B * j + x /\ j \in Int
  <2>1. e \in Int
    BY <1>1
  <2>2. e = B * (e \div B) + (e % B) /\ e \div B \in Int
    BY <2>1, DivMod
  <2> QED
    BY <1>4, <2>2
<1> HIDE DEF i, j, x
<1>7. SUFFICES ASSUME q < e PROVE FALSE
  BY <1>1 DEF q, e
<1>8. i < j
  <2> SUFFICES ASSUME j <= i PROVE FALSE
    BY <1>5, <1>6
  <2>1. B * j <= B * i /\ B * i \in Int /\ B * j \in Int
    BY <1>5, <1>6, SMT
  <2> QED
    BY <1>5, <1>6, <1>7, <2>1
<1>9. e >= q + B
  <2>1. i + 1 <= j
    BY <1>5, <1>6, <1>8
  <2>2. B * (i + 1) <= B * j
    BY <1>5, <1>6, <2>1, SMT
  <2>3. B * (i + 1) = B * i + B /\ B * i \in Int /\ B * j \in Int
    BY <1>5, <1>6, SMT
  <2> QED
    BY <1>5, <1>6, <2>2, <2>3
<1> DEFINE bq == B * q
           be == B * e
           bb == B * B
<1>10. bq + bb <= be /\ bq \in Int /\ be \in Int /\ bb \in Int /\ B * (B - 1) = bb - B
  <2>1. B * (q + B) <= B * e
    BY <1>1, <1>9, SMT
  <2>2. B * (q + B) = B * q + B * B
    BY <1>1, SMT
  <2>3. B * (B - 1) = B * B - B /\ bq \in Int /\ be \in Int /\ bb \in Int
    BY <1>1, SMT
  <2> QED
    BY <2>1, <2>2, <2>3
<1>11. b = bq + (b % B) /\ d = be + (d % B)
  BY <1>2, <1>3
<1> HIDE DEF bq, be, bb
<1>12. d - b <= bb - B
  BY <1>10
<1> QED
  BY <1>2, <1>3, <1>10, <1>11, <1>12

\* Two readings, one after the other, that agree are a value the register had, if
\* it does not run through most of the values of two parts meanwhile.
LEMMA TwoReadings ==
  ASSUME ConstantsOK, NEW p, NEW lo \in Nat, NEW mid \in Nat, NEW hi \in Nat,
         Torn(Bytes, p, lo, mid), Torn(Bytes, p, mid, hi),
         lo <= mid, mid <= hi, hi - lo <= ByteMod * (ByteMod - 1)
  PROVE  \E v \in lo..hi : p = v % HostMod
<1> DEFINE B == ByteMod
<1>0. Bytes \in Nat \ {0} /\ Weight[Bytes] = HostMod
  BY Constants
<1>1. B \in Nat \ {0} /\ B > 1
  BY Constants
<1>2. PICK a, b \in lo..mid :
        /\ a <= b /\ p \in 0..(HostMod - 1)
        /\ Bytes >= 1 => p % B = a % B
        /\ Bytes >= 2 => (p \div B) % B = (b \div B) % B
        /\ Bytes >= 1 /\ b \div B = mid \div B =>
             p = (B * (b \div B) + (a % B)) % HostMod
  BY <1>0 DEF Torn
<1>3. PICK c, d \in mid..hi :
        /\ c <= d
        /\ Bytes >= 1 => p % B = c % B
        /\ Bytes >= 2 => (p \div B) % B = (d \div B) % B
  BY <1>0 DEF Torn
<1>4. a \in Nat /\ b \in Nat /\ c \in Nat /\ d \in Nat /\ c \in lo..hi
  OBVIOUS
<1>5. CASE Bytes = 1
  <2>1. HostMod = B
    <3>1. Weight[0 + 1] = ByteMod * Weight[0] /\ Weight[0] = 1
      BY <1>5, Constants
    <3> QED
      BY <1>0, <1>1, <1>5, <3>1
  <2>2. p % B = p
    BY <1>1, <1>2, <2>1, SmallMod
  <2>3. p = c % HostMod
    BY <1>3, <1>5, <2>1, <2>2
  <2> QED
    BY <1>4, <2>3
<1>6. CASE Bytes >= 2
  <2>0. b <= mid /\ mid <= c /\ c <= d /\ d - b <= B * (B - 1)
    <3> DEFINE bb == B * (B - 1)
    <3>1. bb \in Int /\ hi - lo <= bb
      BY <1>1, SMT
    <3> HIDE DEF bb
    <3>2. d - b <= bb
      BY <3>1
    <3> QED
      BY <1>3, <3>2 DEF bb
  <2>1. (b \div B) % B = (d \div B) % B
    BY <1>0, <1>2, <1>3, <1>6
  <2>2. b \div B = d \div B
    <3> HIDE DEF B
    <3>1. b <= d
      BY <2>0, <1>4
    <3> QED
      BY <1>1, <1>4, <2>0, <2>1, <3>1, SameQuotient
  <2>3. b \div B = mid \div B /\ c \div B = b \div B
    <3> HIDE DEF B
    <3>1. b \div B <= mid \div B /\ b \div B \in Nat /\ mid \div B \in Nat
      BY <1>1, <1>4, <2>0, DivGrows
    <3>2. mid \div B <= c \div B /\ c \div B \in Nat
      BY <1>1, <1>4, <2>0, DivGrows
    <3>3. c \div B <= d \div B /\ d \div B \in Nat
      BY <1>1, <1>4, <2>0, DivGrows
    <3> QED
      BY <2>2, <3>1, <3>2, <3>3
  <2>4. p = (B * (b \div B) + (a % B)) % HostMod
    BY <1>0, <1>2, <1>6, <2>3
  <2>5. c = B * (c \div B) + (c % B)
    <3> HIDE DEF B
    <3>1. c \in Int
      BY <1>4
    <3> QED
      BY <1>1, <3>1, DivMod
  <2>6. c % B = a % B
    BY <1>0, <1>2, <1>3, <1>6
  <2>7. p = c % HostMod
    BY <2>3, <2>4, <2>5, <2>6, Zenon
  <2> QED
    BY <1>4, <2>7
<1> QED
  BY <1>0, <1>5, <1>6

-----------------------------------------------------------------------------
(***************************************************************************)
(* The inductive invariant.                                                *)
(***************************************************************************)

Pcs == {"idle", "send", "tx register", "tx updated", "write", "written",
        "get", "rx register", "rx updated", "read"}

\* The call, and a reading that has its parts so far.
CallOK ==
  /\ call \in [pc : Pcs, length : Nat, rest : Nat, last : BOOLEAN,
               part : 0..(Bytes - 1), reading : Nat, previous : Int]
  /\ call.rest <= call.length
  /\ InRegister => call.reading \in 0..(Weight[call.part] - 1)

\* What a call will use: it found that much before it began.
TxPledged == IF call.pc = "write" THEN BuffersFor(call.length) ELSE 0
RxPledged == IF call.pc = "read" THEN call.rest ELSE 0

\* The latest reading of a register is one of the values from lo to hi.
Latest(latest, width, lo, hi) == \E v \in lo..hi : latest = v % width

\* The reading of an SPI register that is under way, and the one before it, are
\* made of parts of the values from lo to hi, and one was over before the other.
Halves(c, lo, hi) ==
  \/ c.previous = -1 /\ Torn(c.part, c.reading, lo, hi)
  \/ \E e \in lo..hi : Torn(Bytes, c.previous, lo, e) /\ Torn(c.part, c.reading, e, hi)

TxCounts == loaded \in Nat /\ filled \in Nat /\ loaded <= filled + Ahead
RxCounts == produced \in Nat /\ taken \in Nat /\ produced <= taken + AheadBytes

\* Host and slave count the same, and unless the register has not been read since
\* reset_cnt() its latest reading covers what the call has pledged to use.
TxAgrees ==
  "tx" \notin adrift =>
    /\ filled <= loaded /\ sent = filled % HostMod
    /\ "tx" \notin stale => Latest(sentLatest, TxWidth, filled + TxPledged, loaded)

RxAgrees ==
  "rx" \notin adrift =>
    /\ taken <= produced /\ got = taken % HostMod
    /\ "rx" \notin stale => Latest(gotLatest, RxWidth, taken + RxPledged, produced)

TxReads ==
  bus = "SPI" /\ call.pc = "tx register" /\ "tx" \notin adrift => Halves(call, filled, loaded)

RxReads ==
  bus = "SPI" /\ call.pc = "rx register" /\ "rx" \notin adrift => Halves(call, taken, produced)

\* The types, which hold without the rest of it.
Typed == TypeOK /\ bus \in Buses /\ CallOK /\ TxCounts /\ RxCounts

IInv == Typed /\ TxAgrees /\ TxReads /\ RxAgrees /\ RxReads

-----------------------------------------------------------------------------
(* What the operators of the model return.                                 *)

LEMMA Buffers ==
  ASSUME ConstantsOK, NEW n \in Nat
  PROVE  BuffersFor(n) \in Nat
<1> DEFINE m == n + BufSize - 1
<1>1. BufSize \in Nat \ {0}
  BY Constants
<1>2. m \in Nat
  BY <1>1
<1> HIDE DEF m
<1>3. m \div BufSize \in Nat
  BY <1>1, <1>2, DivGrows
<1> QED
  BY <1>3 DEF BuffersFor, m

LEMMA Chunks ==
  ASSUME ConstantsOK, NEW n \in Nat
  PROVE  Chunk(n) \in 0..n
<1>1. PICK b \in Nat \ {0} : b = BlockSize
  BY Constants
<1>2. PICK q : q = n \div b /\ q \in Nat
  BY DivGrows
<1>3. n = b * q + (n % b) /\ n % b \in 0..(b - 1)
  BY <1>2, DivMod
<1>4. q * b = b * q /\ b * q \in Nat
  BY <1>2, SMT
<1>5. (n \div b) * b \in 0..n
  <2>1. PICK x \in Nat : x = b * q
    BY <1>4
  <2>2. x \in 0..n
    BY <1>3, <2>1
  <2> QED
    BY <1>2, <1>4, <2>1, <2>2
<1> QED
  BY <1>1, <1>5 DEF Chunk

LEMMA Multiple ==
  ASSUME NEW H \in Nat \ {0}, NEW W \in Nat \ {0}, H % W = 0
  PROVE  W <= H
<1>1. PICK m : m \in Int /\ H = W * m
  <2>1. H = W * (H \div W) + (H % W) /\ H \div W \in Int
    BY DivMod
  <2>2. W * (H \div W) \in Int
    BY <2>1, SMT
  <2>3. H = W * (H \div W)
    BY <2>1, <2>2
  <2> QED
    BY <2>1, <2>3, Zenon
<1>2. m >= 1
  <2> SUFFICES ASSUME m <= 0 PROVE FALSE
    BY <1>1
  <2>1. W * m <= 0
    BY <1>1, SMT
  <2> QED
    BY <1>1, <2>1
<1>3. W * m >= W
  BY <1>1, <1>2, SMT
<1> QED
  BY <1>1, <1>3

LEMMA Widths ==
  ASSUME ConstantsOK
  PROVE  /\ TxWidth \in Nat \ {0} /\ RxWidth \in Nat \ {0}
         /\ HostMod % TxWidth = 0 /\ HostMod % RxWidth = 0
         /\ TxMod <= TxWidth /\ TxWidth <= HostMod
         /\ RxMod <= RxWidth /\ RxWidth <= HostMod
         /\ bus # "SPI" => TxWidth = TxMod /\ RxWidth = RxMod
<1>1. /\ HostMod \in Nat \ {0} /\ TxMod \in Nat \ {0} /\ RxMod \in Nat \ {0}
  BY Constants
<1>2. HostMod % TxMod = 0 /\ HostMod % RxMod = 0
  BY DEF ConstantsOK
<1>3. HostMod % HostMod = 0
  <2>1. HostMod * 1 + 0 = HostMod
    BY <1>1
  <2>2. (HostMod * 1 + 0) % HostMod = 0
    BY <1>1, DivModUnique
  <2> QED
    BY <2>1, <2>2
<1>4. TxMod <= HostMod /\ RxMod <= HostMod
  BY <1>1, <1>2, Multiple
<1> QED
  BY <1>1, <1>2, <1>3, <1>4 DEF TxWidth, RxWidth

LEMMA Registers ==
  ASSUME ConstantsOK, Typed
  PROVE  /\ TxRegister \in 0..(TxWidth - 1) /\ RxRegister \in 0..(RxWidth - 1)
         /\ Register \in 0..(HostMod - 1)
         /\ bus = "SPI" => TxRegister = loaded % HostMod /\ RxRegister = produced % HostMod
<1>1. /\ TxWidth \in Nat \ {0} /\ TxWidth <= HostMod
      /\ RxWidth \in Nat \ {0} /\ RxWidth <= HostMod /\ HostMod \in Nat
  BY Widths, Constants
<1>2. loaded \in Int /\ produced \in Int
  BY DEF Typed, TxCounts, RxCounts
<1>3. loaded % TxWidth \in 0..(TxWidth - 1) /\ produced % RxWidth \in 0..(RxWidth - 1)
  BY <1>1, <1>2, DivMod
<1>4. TxRegister \in 0..(TxWidth - 1) /\ RxRegister \in 0..(RxWidth - 1)
  BY <1>3 DEF TxRegister, RxRegister
<1>5. TxRegister \in 0..(HostMod - 1) /\ RxRegister \in 0..(HostMod - 1)
  BY <1>1, <1>4
<1>6. bus = "SPI" => TxRegister = loaded % HostMod /\ RxRegister = produced % HostMod
  BY DEF TxRegister, RxRegister, TxWidth, RxWidth
<1> QED
  BY <1>4, <1>5, <1>6 DEF Register

\* Bits of a register read so far, and the next part of it.
LEMMA Readings ==
  ASSUME ConstantsOK, Typed, InRegister
  PROVE  /\ Reading \in 0..(Weight[call.part + 1] - 1)
         /\ call.part < Bytes - 1 => call.part + 1 \in 0..(Bytes - 1)
         /\ call.part = Bytes - 1 => Reading \in 0..(HostMod - 1)
<1>0. Bytes \in Nat \ {0} /\ Weight[Bytes] = HostMod
  BY Constants
<1>1. call.part \in 0..(Bytes - 1) /\ call.reading \in 0..(Weight[call.part] - 1)
  BY DEF Typed, CallOK
<1>2. PICK k : k = call.part
  OBVIOUS
<1>3. k \in 0..Bytes /\ k + 1 \in 0..Bytes /\ k \in 0..(Bytes - 1)
  BY <1>0, <1>1, <1>2
<1>4. PICK B \in Nat \ {0}, W \in Nat \ {0} :
        B = ByteMod /\ W = Weight[k] /\ Weight[k + 1] = B * W
  BY <1>3, Constants
<1>5. PICK d : d \in 0..(B - 1) /\ d = (Register \div W) % B
  <2>1. Register \in Int
    BY Registers, Constants
  <2>2. Register \div W \in Int
    BY <2>1, DivMod
  <2> QED
    BY <2>2, DivMod
<1>6. PICK r : r = call.reading /\ r \in 0..(W - 1)
  BY <1>1, <1>2, <1>4
<1>7. r + W * d \in 0..(B * W - 1)
  BY <1>5, <1>6, PartFits
<1>8. Reading = r + W * d
  BY <1>2, <1>4, <1>5, <1>6 DEF Reading
<1>9. Reading \in 0..(Weight[k + 1] - 1)
  BY <1>4, <1>7, <1>8
<1> QED
  BY <1>0, <1>1, <1>2, <1>9

LEMMA SizesTyped ==
  ASSUME ConstantsOK, Typed
  PROVE  TxFree \in Nat /\ RxSize \in Nat
<1>1. HostMod \in Nat \ {0} /\ TxWidth \in Nat \ {0} /\ RxWidth \in Nat \ {0}
  BY Constants, Widths
<1>2. sent \in Int /\ sentLatest \in Int /\ got \in Int /\ gotLatest \in Int
  <2>1. {sent, sentLatest, got, gotLatest} \subseteq 0..(HostMod - 1)
    BY DEF Typed, TypeOK
  <2> QED
    BY <1>1, <2>1
<1>3. ASSUME NEW a \in Int, NEW b \in Int, NEW W, W \in Nat \ {0}
      PROVE  ((a + HostMod - b) % HostMod) % W \in Nat
  <2>1. a + HostMod - b \in Int
    BY <1>1
  <2>2. (a + HostMod - b) % HostMod \in Int
    BY <1>1, <2>1, DivMod
  <2>3. ((a + HostMod - b) % HostMod) % W \in 0..(W - 1)
    BY <1>3, <2>2, DivMod
  <2> QED
    BY <1>3, <2>3
<1> QED
  BY <1>1, <1>2, <1>3 DEF TxFree, RxSize

-----------------------------------------------------------------------------
(* The types.                                                              *)

LEMMA CallFields ==
  ASSUME ConstantsOK, Typed
  PROVE  /\ call \in [pc : Pcs, length : Nat, rest : Nat, last : BOOLEAN,
                      part : 0..(Bytes - 1), reading : Nat, previous : Int]
         /\ call.pc \in Pcs /\ call.length \in Nat /\ call.rest \in Nat
         /\ call.last \in BOOLEAN /\ call.part \in 0..(Bytes - 1)
         /\ call.reading \in Nat /\ call.previous \in Int /\ call.rest <= call.length
         /\ Bytes \in Nat \ {0} /\ Weight[0] = 1
BY Constants DEF Typed, CallOK

\* A call that reads no register, and one that begins to.
LEMMA IdleOK ==
  ASSUME ConstantsOK
  PROVE  /\ Idle \in [pc : Pcs, length : Nat, rest : Nat, last : BOOLEAN,
                      part : 0..(Bytes - 1), reading : Nat, previous : Int]
         /\ Idle.pc = "idle" /\ Idle.rest <= Idle.length
<1>1. Bytes \in Nat \ {0}
  BY Constants
<1> QED
  BY <1>1 DEF Idle, Pcs

LEMMA CallStep ==
  ASSUME ConstantsOK, Typed, [Next]_vars
  PROVE  CallOK'
<1> DEFINE C == [pc : Pcs, length : Nat, rest : Nat, last : BOOLEAN,
                 part : 0..(Bytes - 1), reading : Nat, previous : Int]
<1>0. /\ call \in C /\ call.rest <= call.length
      /\ call.pc \in Pcs /\ call.length \in Nat /\ call.rest \in Nat
      /\ call.last \in BOOLEAN /\ call.part \in 0..(Bytes - 1)
      /\ call.reading \in Nat /\ call.previous \in Int
      /\ Bytes \in Nat \ {0} /\ Weight[0] = 1 /\ late \in BOOLEAN
  BY CallFields DEF Typed, TypeOK
<1> HIDE DEF C
<1>a. 0 \in 0..(Bytes - 1) /\ -1 \in Int
  BY <1>0
<1>1. ASSUME UNCHANGED call PROVE CallOK'
  BY <1>1 DEF Typed, CallOK, InRegister
<1>2. ASSUME Return PROVE CallOK'
  BY <1>2, IdleOK DEF Return, CallOK, InRegister
<1>3. ASSUME NEW pc \in Pcs, call' = [call EXCEPT !.pc = pc],
             pc \notin {"tx register", "rx register"}
      PROVE  CallOK'
  BY <1>0, <1>3 DEF CallOK, InRegister, C
<1>4. ASSUME NEW pc \in Pcs, call' = Round(pc) PROVE CallOK'
  <2>1. call' \in C
    BY <1>0, <1>4, <1>a, Zenon DEF Round, C
  <2>2. /\ call'.rest = call.rest /\ call'.length = call.length
        /\ call'.reading = 0 /\ call'.part = 0
    BY <1>0, <1>4 DEF Round, C
  <2>3. 0 \in 0..(Weight[call'.part] - 1)
    BY <1>0, <2>2
  <2> QED
    BY <1>0, <2>1, <2>2, <2>3 DEF CallOK, InRegister, C
<1>5. ASSUME NEW n \in Lengths, SendPacket(n) \/ GetPacket(n) PROVE CallOK'
  <2>1. n \in Nat
    BY Constants
  <2>2. PICK pc \in Pcs : pc \in {"send", "get", "read"}
                          /\ call' = [Idle EXCEPT !.pc = pc, !.length = n, !.rest = n]
    BY <1>5 DEF SendPacket, GetPacket, Pcs
  <2>3. call' \in C
    BY <2>1, <2>2, IdleOK DEF C
  <2>4. call'.rest = n /\ call'.length = n /\ call'.pc = pc
    BY <2>2, IdleOK
  <2>5. n <= n
    BY <2>1
  <2>6. call'.rest <= call'.length
    BY <2>4, <2>5, Zenon
  <2>7. ~InRegister'
    BY <2>2, <2>4 DEF InRegister
  <2> QED
    BY <2>3, <2>6, <2>7 DEF CallOK, C
<1>6. ASSUME SendChecks PROVE CallOK'
  BY <1>4, <1>6 DEF SendChecks, Pcs
<1>7. ASSUME SendRechecks PROVE CallOK'
  BY <1>2, <1>3, <1>7 DEF SendRechecks, Goto, Pcs
<1>8. ASSUME Write PROVE CallOK'
  <2>1. PICK n : n \in 0..call.rest
                 /\ call' = [call EXCEPT !.rest = @ - n, !.pc = IF call.rest = n THEN "written" ELSE @]
    BY <1>0, <1>8, Chunks DEF Write
  <2>2. call.pc = "write"
    BY <1>8 DEF Write
  <2>3. call.rest - n \in Nat /\ call.rest - n <= call.length
    BY <1>0, <2>1
  <2>4. call' \in C
    BY <1>0, <2>1, <2>2, <2>3 DEF C, Pcs
  <2>5. call'.rest = call.rest - n /\ call'.length = call.length
        /\ call'.pc \in {"write", "written"}
    BY <1>0, <2>1, <2>2 DEF C
  <2> QED
    BY <2>3, <2>4, <2>5 DEF CallOK, InRegister, C
<1>9. ASSUME WriteFails \/ Written \/ ReadFails \/ Refreshed \/ ReadRegisterFails
      PROVE  CallOK'
  BY <1>2, <1>9 DEF WriteFails, Written, ReadFails, Refreshed, ReadRegisterFails
<1>10. ASSUME GetUpdates \/ Refresh PROVE CallOK'
  BY <1>4, <1>10 DEF GetUpdates, Refresh, Pcs
<1>11. ASSUME GetRechecks PROVE CallOK'
  <2>1. CASE RxSize > 0
    <3>1. PICK n \in Nat : n <= call.length
                           /\ call' = [call EXCEPT !.pc = "read", !.length = n, !.rest = n]
      <4>1. RxSize \in Nat
        BY SizesTyped
      <4> DEFINE m == IF RxSize < call.length THEN RxSize ELSE call.length
      <4>2. m \in Nat /\ m <= call.length
        BY <1>0, <4>1
      <4>3. call' = [call EXCEPT !.pc = "read", !.length = m, !.rest = m]
        <5>1. RxSize # 0
          BY <2>1, <4>1
        <5> QED
          BY <1>11, <5>1 DEF GetRechecks
      <4> HIDE DEF m
      <4> QED
        BY <4>2, <4>3, Zenon
    <3>2. call' \in C
      BY <1>0, <3>1 DEF C, Pcs
    <3>3. call'.pc = "read" /\ call'.length = n /\ call'.rest = n
      BY <1>0, <3>1 DEF C
    <3> QED
      BY <3>1, <3>2, <3>3 DEF CallOK, InRegister, C
  <2>2. CASE ~(RxSize > 0)
    BY <1>2, <1>3, <1>11, <2>2 DEF GetRechecks, Goto, Pcs
  <2> QED
    BY <2>1, <2>2
<1>12. ASSUME Read PROVE CallOK'
  <2>1. CASE Return
    BY <1>2, <2>1
  <2>2. CASE ~Return
    <3>1. PICK n : n \in 0..call.rest /\ call' = [call EXCEPT !.rest = @ - n]
      BY <1>0, <1>12, <2>2, Chunks DEF Read
    <3>2. call.pc = "read"
      BY <1>12 DEF Read
    <3>3. call.rest - n \in Nat /\ call.rest - n <= call.length
      BY <1>0, <3>1
    <3>4. call' \in C
      BY <1>0, <3>1, <3>3 DEF C
    <3>5. call'.rest = call.rest - n /\ call'.length = call.length /\ call'.pc = "read"
      BY <1>0, <3>1, <3>2 DEF C
    <3> QED
      BY <3>3, <3>4, <3>5 DEF CallOK, InRegister, C
  <2> QED
    BY <2>1, <2>2
<1>13. ASSUME NEW value, Update(value) PROVE CallOK'
  BY <1>3, <1>13 DEF Update, Goto, Pcs
<1>14. ASSUME ReadRegister PROVE CallOK'
  BY <1>13, <1>14 DEF ReadRegister
<1>15. ASSUME ReadRegisterPart PROVE CallOK'
  <2>1. call' = [call EXCEPT !.reading = Reading, !.part = @ + 1] /\ InRegister
        /\ call.part < Bytes - 1
    BY <1>15 DEF ReadRegisterPart
  <2>2. Reading \in 0..(Weight[call.part + 1] - 1) /\ call.part + 1 \in 0..(Bytes - 1)
    BY <2>1, Readings
  <2>3. Weight[call.part + 1] \in Nat
    <3>1. call.part + 1 \in 0..Bytes
      BY <1>0
    <3> QED
      BY <3>1, Constants
  <2>4. Reading \in Nat
    BY <2>2, <2>3
  <2>5. call' \in C /\ call'.rest <= call'.length /\ call'.part = call.part + 1
        /\ call'.reading = Reading
    BY <1>0, <2>1, <2>2, <2>4 DEF C
  <2> QED
    BY <2>2, <2>5 DEF CallOK, C
<1>16. ASSUME ReadRegisterEnd PROVE CallOK'
  <2>1. CASE Reading = call.previous
    BY <1>13, <1>16, <2>1 DEF ReadRegisterEnd
  <2>2. CASE Reading # call.previous
    <3>1. call' = [call EXCEPT !.previous = Reading, !.reading = 0, !.part = 0]
          /\ InRegister /\ call.part = Bytes - 1
      BY <1>16, <2>2 DEF ReadRegisterEnd
    <3>2. Reading \in Int
      BY <3>1, Readings, Constants
    <3>3. call' \in C
      BY <1>0, <3>1, <3>2, <1>a DEF C
    <3>4. /\ call'.rest = call.rest /\ call'.length = call.length
          /\ call'.reading = 0 /\ call'.part = 0
      BY <1>0, <3>1 DEF C
    <3>5. 0 \in 0..(Weight[call'.part] - 1)
      BY <1>0, <3>4
    <3> QED
      BY <1>0, <3>3, <3>4, <3>5 DEF CallOK, InRegister, C
  <2> QED
    BY <2>1, <2>2
<1>17. ASSUME SlaveLoads \/ SlaveProduces \/ TimeIsOver \/ ResetCnt PROVE CallOK'
  BY <1>1, <1>17 DEF SlaveLoads, SlaveProduces, TimeIsOver, ResetCnt
<1>18. CASE Next
  BY <1>5, <1>6, <1>7, <1>8, <1>9, <1>10, <1>11, <1>12, <1>14, <1>15, <1>16, <1>17,
     <1>18 DEF Next
<1>19. CASE UNCHANGED vars
  BY <1>1, <1>19 DEF vars
<1> QED
  BY <1>18, <1>19

\* The counters of the host, apart from the call and the slave.
HostOK ==
  /\ bus \in {"SDIO", "SPI"}
  /\ sent \in 0..(HostMod - 1) /\ sentLatest \in 0..(TxWidth - 1)
  /\ got \in 0..(HostMod - 1) /\ gotLatest \in 0..(RxWidth - 1)
  /\ late \in BOOLEAN
  /\ stale \subseteq {"tx", "rx"} /\ adrift \subseteq {"tx", "rx"}

LEMMA TypeOKIs ==
  ASSUME ConstantsOK
  PROVE  /\ CallOK /\ HostOK => TypeOK
         /\ TypeOK => HostOK
<1>1. /\ HostMod \in Nat \ {0} /\ TxWidth \in Nat \ {0} /\ RxWidth \in Nat \ {0}
      /\ TxMod \in Nat \ {0} /\ RxMod \in Nat \ {0}
      /\ TxWidth <= HostMod /\ RxWidth <= HostMod
      /\ bus = "SPI" => TxWidth = HostMod /\ RxWidth = HostMod
      /\ bus # "SPI" => TxWidth = TxMod /\ RxWidth = RxMod
  BY Constants, Widths DEF TxWidth, RxWidth
<1>2. ASSUME CallOK, HostOK PROVE TypeOK
  <2>1. sentLatest \in 0..(HostMod - 1) /\ gotLatest \in 0..(HostMod - 1)
    BY <1>1, <1>2 DEF HostOK
  <2>2. bus = "SDIO" => sentLatest < TxMod /\ gotLatest < RxMod
    BY <1>1, <1>2 DEF HostOK
  <2>3. {sent, sentLatest, got, gotLatest} \subseteq 0..(HostMod - 1)
    BY <1>2, <2>1, Zenon DEF HostOK
  <2>4. /\ call.last \in BOOLEAN /\ 0 <= call.rest /\ call.rest <= call.length
        /\ call.part \in 0..(Bytes - 1)
    BY <1>2 DEF CallOK
  <2> QED
    BY <1>2, <2>2, <2>3, <2>4 DEF TypeOK, HostOK
<1>3. ASSUME TypeOK PROVE HostOK
  <2>1. /\ sent \in 0..(HostMod - 1) /\ sentLatest \in 0..(HostMod - 1)
        /\ got \in 0..(HostMod - 1) /\ gotLatest \in 0..(HostMod - 1)
    BY <1>3, Zenon DEF TypeOK
  <2>2. bus = "SPI" \/ (sentLatest < TxMod /\ gotLatest < RxMod)
    BY <1>3 DEF TypeOK
  <2>3. sentLatest \in 0..(TxWidth - 1) /\ gotLatest \in 0..(RxWidth - 1)
    BY <1>1, <2>1, <2>2
  <2> QED
    BY <1>3, <2>1, <2>3 DEF TypeOK, HostOK
<1> QED
  BY <1>2, <1>3

LEMMA HostStep ==
  ASSUME ConstantsOK, Typed, [Next]_vars
  PROVE  HostOK' /\ bus' = bus
<1>0. HostOK /\ bus' = bus
  <2>1. HostOK
    BY TypeOKIs DEF Typed
  <2>2. bus' = bus
    BY DEF Next, vars, SendPacket, GetPacket, SendChecks, SendRechecks, Write, WriteFails,
           Written, GetUpdates, GetRechecks, Read, ReadFails, Refresh, Refreshed,
           ReadRegister, ReadRegisterPart, ReadRegisterEnd, ReadRegisterFails,
           SlaveLoads, SlaveProduces, TimeIsOver, ResetCnt
  <2> QED
    BY <2>1, <2>2
<1> DEFINE T == TxWidth
           R == RxWidth
<1>a. TxWidth' = TxWidth /\ RxWidth' = RxWidth
  BY <1>0 DEF TxWidth, RxWidth
<1>b. HostMod \in Nat \ {0} /\ 0 \in 0..(HostMod - 1)
  BY Constants
<1>1. ASSUME UNCHANGED host, UNCHANGED <<stale, late>>,
             adrift' \subseteq adrift \cup {"tx", "rx"}
      PROVE  HostOK'
  BY <1>0, <1>1, <1>a DEF HostOK, host
<1>2. ASSUME UNCHANGED host, late' \in BOOLEAN, UNCHANGED <<stale, adrift>>
      PROVE  HostOK'
  BY <1>0, <1>2, <1>a DEF HostOK, host
<1>3. ASSUME NEW value, Update(value), UNCHANGED <<sent, got, late, adrift>>,
             call.pc = "tx register" => value \in 0..(TxWidth - 1),
             call.pc # "tx register" => value \in 0..(RxWidth - 1)
      PROVE  HostOK'
  BY <1>0, <1>3, <1>a DEF HostOK, Update
<1>4. ASSUME Write PROVE HostOK'
  <2>1. sent' \in 0..(HostMod - 1)
    <3>1. PICK b \in Nat : b = BuffersFor(call.length)
      BY Buffers, CallFields
    <3>2. sent + b \in Int
      BY <1>0, <1>b DEF HostOK
    <3>3. (sent + b) % HostMod \in 0..(HostMod - 1)
      BY <1>b, <3>2, DivMod
    <3> QED
      BY <1>0, <1>4, <3>1, <3>3 DEF Write, HostOK
  <2>2. adrift' \subseteq {"tx", "rx"}
    BY <1>0, <1>4 DEF Write, HostOK
  <2> QED
    BY <1>0, <1>4, <1>a, <2>1, <2>2 DEF Write, HostOK
<1>5. ASSUME Read PROVE HostOK'
  <2>1. got' \in 0..(HostMod - 1)
    <3>1. PICK n \in Int : n = Chunk(call.rest)
      BY Chunks, CallFields
    <3>2. got + n \in Int
      BY <1>0, <1>b DEF HostOK
    <3>3. (got + n) % HostMod \in 0..(HostMod - 1)
      BY <1>b, <3>2, DivMod
    <3> QED
      BY <1>5, <3>1, <3>3 DEF Read
  <2>2. adrift' \subseteq {"tx", "rx"}
    BY <1>0, <1>5 DEF Read, HostOK
  <2>3. late' \in BOOLEAN
    BY <1>0, <1>5 DEF Read, HostOK, Return
  <2> QED
    BY <1>0, <1>5, <1>a, <2>1, <2>2, <2>3 DEF Read, HostOK
<1>6. ASSUME ReadRegister PROVE HostOK'
  <2>1. Update(Register) /\ InRegister /\ UNCHANGED <<sent, got, late, adrift>>
    BY <1>6 DEF ReadRegister
  <2>2. PICK value : value = Register
    OBVIOUS
  <2>3. /\ call.pc = "tx register" => value \in 0..(TxWidth - 1)
        /\ call.pc # "tx register" => value \in 0..(RxWidth - 1)
    BY <2>2, Registers DEF Register
  <2>4. Update(value)
    BY <2>1, <2>2
  <2> QED
    BY <1>3, <2>1, <2>3, <2>4
<1>7. ASSUME ReadRegisterEnd PROVE HostOK'
  <2>1. CASE Reading = call.previous
    <3>1. /\ Update(Reading) /\ InRegister /\ UNCHANGED <<sent, got, late, adrift>>
          /\ bus = "SPI" /\ call.part = Bytes - 1
      BY <1>7, <2>1 DEF ReadRegisterEnd
    <3>2. PICK value : value = Reading
      OBVIOUS
    <3>3. value \in 0..(TxWidth - 1) /\ value \in 0..(RxWidth - 1)
      BY <3>1, <3>2, Readings DEF TxWidth, RxWidth
    <3>4. Update(value)
      BY <3>1, <3>2
    <3> QED
      BY <1>3, <3>1, <3>3, <3>4
  <2>2. CASE Reading # call.previous
    BY <1>2, <1>0, <1>7, <2>2 DEF ReadRegisterEnd, host, HostOK
  <2> QED
    BY <2>1, <2>2
<1>8. ASSUME ResetCnt PROVE HostOK'
  BY <1>0, <1>8, <1>a, <1>b DEF ResetCnt, HostOK
<1>9. ASSUME WriteFails PROVE HostOK'
  <2>1. adrift' \subseteq {"tx", "rx"} /\ late' = FALSE
    BY <1>0, <1>9 DEF WriteFails, HostOK, Return
  <2> QED
    BY <1>0, <1>9, <1>a, <2>1 DEF WriteFails, HostOK, host
<1>10. ASSUME \/ \E n \in Lengths : SendPacket(n) \/ GetPacket(n)
              \/ SendChecks \/ SendRechecks \/ Written \/ GetUpdates \/ GetRechecks
              \/ ReadFails \/ Refresh \/ Refreshed \/ ReadRegisterPart
              \/ ReadRegisterFails \/ SlaveLoads \/ SlaveProduces \/ TimeIsOver
       PROVE  HostOK'
  <2>1. UNCHANGED host /\ UNCHANGED <<stale, adrift>> /\ late' \in {late, TRUE, FALSE}
    BY <1>10 DEF SendPacket, GetPacket, SendChecks, SendRechecks, Written, GetUpdates,
       GetRechecks, ReadFails, Refresh, Refreshed, ReadRegisterPart, ReadRegisterFails,
       SlaveLoads, SlaveProduces, TimeIsOver, Return, trust
  <2> QED
    BY <1>0, <1>2, <2>1 DEF HostOK
<1>11. CASE Next
  BY <1>0, <1>4, <1>5, <1>6, <1>7, <1>8, <1>9, <1>10, <1>11 DEF Next
<1>12. CASE UNCHANGED vars
  BY <1>0, <1>2, <1>12 DEF vars, trust, HostOK
<1> QED
  BY <1>0, <1>11, <1>12

LEMMA CountsStep ==
  ASSUME ConstantsOK, Typed, [Next]_vars
  PROVE  TxCounts' /\ RxCounts'
<1>0. /\ loaded \in Nat /\ filled \in Nat /\ loaded <= filled + Ahead
      /\ produced \in Nat /\ taken \in Nat /\ produced <= taken + AheadBytes
      /\ Ahead \in Nat /\ AheadBytes \in Nat
  BY Constants DEF Typed, TxCounts, RxCounts
<1>1. ASSUME UNCHANGED slave PROVE TxCounts' /\ RxCounts'
  BY <1>0, <1>1 DEF slave, TxCounts, RxCounts
<1>2. ASSUME Write PROVE TxCounts' /\ RxCounts'
  <2>1. PICK b \in Nat : b = BuffersFor(call.length)
    BY Buffers, CallFields
  <2>2. filled' \in {filled, filled + b} /\ UNCHANGED <<loaded, produced, taken>>
    BY <1>2, <2>1 DEF Write
  <2>3. filled' \in Nat /\ loaded <= filled' + Ahead
    <3>1. CASE filled' = filled
      BY <1>0, <3>1
    <3>2. CASE filled' = filled + b
      BY <1>0, <3>2
    <3> QED
      BY <2>2, <3>1, <3>2
  <2> QED
    BY <1>0, <2>2, <2>3 DEF TxCounts, RxCounts
<1>3. ASSUME WriteFails PROVE TxCounts' /\ RxCounts'
  <2>1. call.length - call.rest \in Nat
    BY CallFields
  <2>2. PICK b \in Nat : b = BuffersFor(call.length - call.rest)
    BY <2>1, Buffers
  <2>3. PICK n \in 0..b : filled' = filled + n
    BY <1>3, <2>2 DEF WriteFails
  <2> QED
    BY <1>0, <1>3, <2>3 DEF WriteFails, TxCounts, RxCounts
<1>4. ASSUME Read PROVE TxCounts' /\ RxCounts'
  <2>1. PICK n \in Nat : n = Chunk(call.rest)
    BY Chunks, CallFields
  <2> QED
    BY <1>0, <1>4, <2>1 DEF Read, TxCounts, RxCounts
<1>5. ASSUME SlaveLoads PROVE TxCounts' /\ RxCounts'
  BY <1>0, <1>5 DEF SlaveLoads, TxCounts, RxCounts
<1>6. ASSUME SlaveProduces PROVE TxCounts' /\ RxCounts'
  <2>1. PICK n \in Lengths : produced + n - taken <= AheadBytes /\ produced' = produced + n
    BY <1>6 DEF SlaveProduces
  <2>2. n \in Nat
    BY Constants
  <2>3. produced' \in Nat /\ produced' <= taken + AheadBytes
    BY <1>0, <2>1, <2>2
  <2> QED
    BY <1>0, <1>6, <2>3 DEF SlaveProduces, TxCounts, RxCounts
<1>7. ASSUME ResetCnt PROVE TxCounts' /\ RxCounts'
  BY <1>0, <1>7 DEF ResetCnt, TxCounts, RxCounts
<1>8. CASE Next
  BY <1>1, <1>2, <1>3, <1>4, <1>5, <1>6, <1>7, <1>8 DEF Next,
     SendPacket, GetPacket, SendChecks, SendRechecks, Written, GetUpdates, GetRechecks,
     ReadFails, Refresh, Refreshed, ReadRegister, ReadRegisterPart, ReadRegisterEnd,
     ReadRegisterFails, TimeIsOver
<1>9. CASE UNCHANGED vars
  BY <1>1, <1>9 DEF vars
<1> QED
  BY <1>8, <1>9

LEMMA TypedStep ==
  ASSUME ConstantsOK, Typed, [Next]_vars
  PROVE  Typed'
<1>1. CallOK' /\ HostOK' /\ bus' = bus /\ TxCounts' /\ RxCounts'
  BY CallStep, HostStep, CountsStep
<1>2. CallOK' /\ HostOK' => TypeOK'
  BY TypeOKIs, PTL
<1> QED
  BY <1>1, <1>2 DEF Typed

-----------------------------------------------------------------------------
(* Reading an SPI register, whichever it is.                               *)

LEMMA HalvesStart ==
  ASSUME ConstantsOK, NEW lo \in Nat, NEW hi \in Nat, lo <= hi,
         NEW c, c.previous = -1, c.part = 0, c.reading = 0
  PROVE  Halves(c, lo, hi)
BY TornStarts DEF Halves

LEMMA HalvesGrow ==
  ASSUME ConstantsOK, NEW lo \in Nat, NEW hi \in Nat, NEW top \in Nat, hi <= top,
         NEW c, c.part \in 0..(Bytes - 1), Halves(c, lo, hi)
  PROVE  Halves(c, lo, top)
<1>0. c.part \in 0..Bytes
  BY Constants
<1>1. CASE c.previous = -1 /\ Torn(c.part, c.reading, lo, hi)
  BY <1>0, <1>1, TornGrows DEF Halves
<1>2. ASSUME NEW e \in lo..hi, Torn(Bytes, c.previous, lo, e), Torn(c.part, c.reading, e, hi)
      PROVE  Halves(c, lo, top)
  <2>1. e \in Nat /\ e \in lo..top
    OBVIOUS
  <2>2. Torn(c.part, c.reading, e, top)
    BY <1>0, <1>2, <2>1, TornGrows
  <2> QED
    BY <1>2, <2>1, <2>2 DEF Halves
<1> QED
  BY <1>1, <1>2 DEF Halves

\* One part of the register, whose counter is hi.
NextReading(c, hi) ==
  c.reading + Weight[c.part] * (((hi % HostMod) \div Weight[c.part]) % ByteMod)

LEMMA TornRegister ==
  ASSUME ConstantsOK, NEW lo \in Nat, NEW hi \in Nat, NEW c,
         c.part \in 0..(Bytes - 1), Torn(c.part, c.reading, lo, hi)
  PROVE  Torn(c.part + 1, NextReading(c, hi), lo, hi)
<1>1. (((hi % HostMod) \div Weight[c.part]) % ByteMod) = ((hi \div Weight[c.part]) % ByteMod)
  BY PartOfRegister
<1>2. Torn(c.part + 1, c.reading + Weight[c.part] * ((hi \div Weight[c.part]) % ByteMod), lo, hi)
  BY TornStep
<1> QED
  BY <1>1, <1>2, Zenon DEF NextReading

LEMMA HalvesPart ==
  ASSUME ConstantsOK, NEW lo \in Nat, NEW hi \in Nat, NEW c, NEW d,
         c.part \in 0..(Bytes - 1), Halves(c, lo, hi),
         d.part = c.part + 1, d.reading = NextReading(c, hi), d.previous = c.previous
  PROVE  Halves(d, lo, hi)
<1>1. CASE c.previous = -1 /\ Torn(c.part, c.reading, lo, hi)
  BY <1>1, TornRegister DEF Halves
<1>2. ASSUME NEW e \in lo..hi, Torn(Bytes, c.previous, lo, e), Torn(c.part, c.reading, e, hi)
      PROVE  Halves(d, lo, hi)
  <2>1. e \in Nat
    OBVIOUS
  <2>2. Torn(d.part, d.reading, e, hi)
    BY <1>2, <2>1, TornRegister
  <2> QED
    BY <1>2, <2>2 DEF Halves
<1> QED
  BY <1>1, <1>2 DEF Halves

\* The last part, of a reading that is then compared with the next.
LEMMA HalvesEnd ==
  ASSUME ConstantsOK, NEW lo \in Nat, NEW hi \in Nat, lo <= hi, NEW c, NEW d,
         c.part = Bytes - 1, Halves(c, lo, hi),
         d.part = 0, d.reading = 0, d.previous = NextReading(c, hi)
  PROVE  Halves(d, lo, hi)
<1>0. c.part \in 0..(Bytes - 1) /\ c.part + 1 = Bytes
  BY Constants
<1>1. ASSUME NEW e \in lo..hi, Torn(c.part, c.reading, e, hi), Torn(Bytes, d.previous, lo, hi)
      PROVE  Halves(d, lo, hi)
  <2>1. Torn(0, 0, hi, hi) /\ hi \in lo..hi
    BY TornStarts
  <2> QED
    BY <1>1, <2>1 DEF Halves
<1>2. CASE c.previous = -1 /\ Torn(c.part, c.reading, lo, hi)
  <2>1. Torn(Bytes, d.previous, lo, hi)
    BY <1>0, <1>2, TornRegister
  <2>2. lo \in lo..hi
    OBVIOUS
  <2> QED
    BY <1>1, <1>2, <2>1, <2>2
<1>3. ASSUME NEW e \in lo..hi, Torn(Bytes, c.previous, lo, e), Torn(c.part, c.reading, e, hi)
      PROVE  Halves(d, lo, hi)
  <2>1. e \in Nat
    OBVIOUS
  <2>2. Torn(Bytes, d.previous, e, hi)
    BY <1>0, <1>3, <2>1, TornRegister
  <2>3. Torn(Bytes, d.previous, lo, hi)
    <3>1. \A x \in e..hi : x \in lo..hi
      OBVIOUS
    <3> QED
      BY <2>2, <3>1 DEF Torn
  <2> QED
    BY <1>1, <1>3, <2>3
<1> QED
  BY <1>2, <1>3 DEF Halves

\* The last part, of a reading that is the one before it.
LEMMA HalvesAgree ==
  ASSUME ConstantsOK, NEW lo \in Nat, NEW hi \in Nat, lo <= hi, NEW c,
         hi - lo <= ByteMod * (ByteMod - 1),
         c.part = Bytes - 1, Halves(c, lo, hi), c.previous = NextReading(c, hi)
  PROVE  \E v \in lo..hi : c.previous = v % HostMod
<1>0. c.part \in 0..(Bytes - 1) /\ c.part + 1 = Bytes
  BY Constants
<1>1. CASE c.previous = -1 /\ Torn(c.part, c.reading, lo, hi)
  <2>1. Torn(Bytes, c.previous, lo, hi)
    BY <1>0, <1>1, TornRegister
  <2>2. c.previous \in 0..(Weight[Bytes] - 1)
    BY <2>1 DEF Torn
  <2> QED
    BY <1>1, <2>2
<1>2. ASSUME NEW e \in lo..hi, Torn(Bytes, c.previous, lo, e), Torn(c.part, c.reading, e, hi)
      PROVE  \E v \in lo..hi : c.previous = v % HostMod
  <2>1. e \in Nat /\ lo <= e /\ e <= hi
    OBVIOUS
  <2>2. Torn(Bytes, c.previous, e, hi)
    BY <1>0, <1>2, <2>1, TornRegister
  <2> QED
    BY <1>2, <2>1, <2>2, TwoReadings
<1> QED
  BY <1>1, <1>2 DEF Halves

-----------------------------------------------------------------------------
(* The way out.                                                            *)

\* What the host takes for the free buffers is how far the slave was ahead when
\* the register was read.
LEMMA TxFreeIs ==
  ASSUME ConstantsOK, Typed, TxAgrees, "tx" \notin adrift, "tx" \notin stale
  PROVE  \E v \in (filled + TxPledged)..loaded :
           sentLatest = v % TxWidth /\ TxFree = v - filled
<1>0. /\ loaded \in Nat /\ filled \in Nat /\ loaded <= filled + Ahead
      /\ TxPledged \in Nat /\ Ahead \in 0..(TxMod - 1) /\ TxMod \in Nat
  BY Constants, CallFields, Buffers DEF Typed, TxCounts, TxPledged
<1>1. PICK v : v \in (filled + TxPledged)..loaded /\ sentLatest = v % TxWidth
  BY DEF TxAgrees, Latest
<1>2. sent = filled % HostMod
  BY DEF TxAgrees
<1>3. PICK W \in Nat \ {0}, H \in Nat \ {0} :
        W = TxWidth /\ H = HostMod /\ H % W = 0 /\ TxMod <= W
  BY Widths, Constants
<1>4. v \in Nat /\ filled <= v /\ v <= filled + W - 1
  BY <1>0, <1>1, <1>3
<1>5. PICK f \in Nat : f = filled /\ v \in f..(f + W - 1)
  BY <1>0, <1>4
<1>6. Further(v, f, W, H) = v - f
  BY <1>3, <1>5, Difference
<1> QED
  BY <1>1, <1>2, <1>3, <1>5, <1>6, Zenon DEF TxFree, Further

LEMMA PlusZero == \A x \in Nat : x + 0 = x /\ x <= x
OBVIOUS

LEMMA LastIsIn == \A f, l \in Nat : f <= l => l \in f..l
OBVIOUS

LEMMA Slowly ==
  ASSUME ConstantsOK, Gradual, "SPI" \in Buses, NEW lo \in Nat, NEW hi \in Nat
  PROVE  /\ hi <= lo + Ahead => hi - lo <= ByteMod * (ByteMod - 1)
         /\ hi <= lo + AheadBytes => hi - lo <= ByteMod * (ByteMod - 1)
<1>1. PICK x : x = ByteMod * (ByteMod - 1)
  OBVIOUS
<1>2. x \in Int
  <2>1. PICK b \in Nat : b = ByteMod
    BY Constants
  <2>2. b * (b - 1) \in Int
    BY SMT
  <2> QED
    BY <1>1, <2>1, <2>2
<1>3. Ahead <= x /\ AheadBytes <= x
  BY <1>1 DEF Gradual
<1>4. Ahead \in Nat /\ AheadBytes \in Nat
  BY Constants
<1>5. /\ hi <= lo + Ahead => hi - lo <= x
      /\ hi <= lo + AheadBytes => hi - lo <= x
  BY <1>2, <1>3, <1>4
<1> QED
  BY <1>1, <1>5

LEMMA Within ==
  ASSUME NEW f \in Nat, NEW p \in Nat, NEW q \in Nat, NEW l \in Nat, NEW m \in Nat,
         q <= p, l <= m, NEW v \in (f + p)..l
  PROVE  v \in (f + q)..m
OBVIOUS

\* A step that leaves the counters to the slave, the registers unread, and pledges
\* no more.
TxKeeps ==
  /\ UNCHANGED <<bus, sent, sentLatest, filled>> /\ loaded' \in {loaded, loaded + 1}
  /\ "tx" \in adrift => "tx" \in adrift'
  /\ "tx" \in stale => "tx" \in stale'
  /\ call'.pc = "write" => call.pc = "write" /\ call'.length = call.length
  /\ \/ call'.pc # "tx register"
     \/ call' = call
     \/ call'.part = 0 /\ call'.reading = 0 /\ call'.previous = -1

LEMMA TxKept ==
  ASSUME ConstantsOK, Typed, Typed', TxAgrees, TxReads, TxKeeps
  PROVE  TxAgrees' /\ TxReads'
<1>0. PICK l \in Nat, f \in Nat, m \in Nat :
        l = loaded /\ f = filled /\ m = loaded' /\ l <= m /\ f = filled'
  <2>1. loaded \in Nat /\ filled \in Nat /\ loaded' \in Nat
    BY DEF Typed, TxCounts
  <2>2. loaded' \in {loaded, loaded + 1} /\ filled' = filled
    BY DEF TxKeeps
  <2>3. \A x \in Nat : x <= x /\ x <= x + 1
    OBVIOUS
  <2>4. loaded <= loaded'
    BY <2>1, <2>2, <2>3, Zenon
  <2> QED
    BY <2>1, <2>2, <2>4, Zenon
<1>1. PICK p \in Nat, q \in Nat : p = TxPledged /\ q = TxPledged' /\ q <= p
  <2>1. PICK b : b = BuffersFor(call.length) /\ b \in Nat
    BY CallFields, Buffers
  <2>2. TxPledged = IF call.pc = "write" THEN b ELSE 0
    BY <2>1 DEF TxPledged
  <2>3. TxPledged' = IF call'.pc = "write" THEN b ELSE 0
    BY <2>1 DEF TxPledged, TxKeeps, BuffersFor
  <2>4. call'.pc = "write" => call.pc = "write"
    BY DEF TxKeeps
  <2> QED
    BY <2>1, <2>2, <2>3, <2>4
<1>2. "tx" \notin adrift' => "tx" \notin adrift
  BY DEF TxKeeps
<1>3. TxAgrees'
  <2>1. SUFFICES ASSUME "tx" \notin adrift'
                 PROVE  /\ filled' <= loaded' /\ sent' = filled' % HostMod
                        /\ "tx" \notin stale' =>
                             Latest(sentLatest', TxWidth', filled' + TxPledged', loaded')
    BY DEF TxAgrees
  <2>2. /\ f <= l /\ sent = filled % HostMod
        /\ "tx" \notin stale => Latest(sentLatest, TxWidth, f + p, l)
    BY <1>0, <1>1, <1>2, <2>1 DEF TxAgrees
  <2>3. ASSUME "tx" \notin stale' PROVE Latest(sentLatest', TxWidth', f + q, m)
    <3>1. PICK v : v \in (f + p)..l /\ sentLatest = v % TxWidth
      BY <2>2, <2>3 DEF Latest, TxKeeps
    <3>2. v \in (f + q)..m
      BY <1>0, <1>1, <3>1, Within
    <3>3. TxWidth' = TxWidth /\ sentLatest' = sentLatest
      BY DEF TxWidth, TxKeeps
    <3> QED
      BY <3>1, <3>2, <3>3 DEF Latest
  <2>4. f <= m
    BY <1>0, <2>2
  <2>5. sent' = filled' % HostMod
    BY <2>2 DEF TxKeeps
  <2> QED
    BY <1>0, <1>1, <2>3, <2>4, <2>5
<1>4. TxReads'
  <2>1. SUFFICES ASSUME bus' = "SPI", call'.pc = "tx register", "tx" \notin adrift'
                 PROVE  Halves(call', f, m)
    BY <1>0 DEF TxReads
  <2>2. f <= l
    BY <1>0, <1>2, <2>1 DEF TxAgrees
  <2>3. CASE call'.part = 0 /\ call'.reading = 0 /\ call'.previous = -1
    <3>1. f <= m
      BY <1>0, <2>2
    <3>2. PICK c : c = call'
      OBVIOUS
    <3> QED
      BY <2>3, <3>1, <3>2, HalvesStart
  <2>4. CASE call' = call
    <3>1. Halves(call, f, l)
      BY <1>0, <1>2, <2>1, <2>4 DEF TxReads, TxKeeps
    <3>2. call.part \in 0..(Bytes - 1)
      BY CallFields
    <3>3. Halves(call, f, m)
      BY <1>0, <3>1, <3>2, HalvesGrow
    <3> QED
      BY <2>4, <3>3
  <2> QED
    BY <2>1, <2>3, <2>4 DEF TxKeeps
<1> QED
  BY <1>3, <1>4

\* A packet is let through.
LEMMA TxPledges ==
  ASSUME ConstantsOK, Typed, TxAgrees, UNCHANGED <<bus, host, slave, trust>>,
         call'.pc = "write", call'.length = call.length,
         call.pc # "write", TxFree >= BuffersFor(call.length)
  PROVE  TxAgrees' /\ TxReads'
<1>0. loaded \in Nat /\ filled \in Nat /\ BuffersFor(call.length) \in Nat /\ TxPledged = 0
  BY CallFields, Buffers DEF Typed, TxCounts, TxPledged
<1>1. TxPledged' = BuffersFor(call.length) /\ TxWidth' = TxWidth
  BY DEF TxPledged, TxWidth, BuffersFor
<1>2. TxReads'
  BY DEF TxReads
<1>3. TxAgrees'
  <2>1. SUFFICES ASSUME "tx" \notin adrift, "tx" \notin stale
                 PROVE  Latest(sentLatest, TxWidth, filled + BuffersFor(call.length), loaded)
    BY <1>1 DEF TxAgrees, host, slave, trust
  <2>2. PICK v : v \in (filled + TxPledged)..loaded
                 /\ sentLatest = v % TxWidth /\ TxFree = v - filled
    BY <2>1, TxFreeIs
  <2>3. v \in (filled + BuffersFor(call.length))..loaded
    BY <1>0, <2>2
  <2> QED
    BY <2>2, <2>3 DEF Latest
<1> QED
  BY <1>2, <1>3

LEMMA TxWrites ==
  ASSUME ConstantsOK, Typed, TxAgrees, Write
  PROVE  TxAgrees' /\ TxReads'
<1>1. /\ call.pc = "write" /\ bus' = bus /\ sentLatest' = sentLatest /\ loaded' = loaded
      /\ stale' = stale /\ adrift' = adrift \cup (stale \cap {"tx"})
  BY DEF Write
<1>2. PICK b \in Nat : b = BuffersFor(call.length)
  BY CallFields, Buffers
<1>3. PICK done \in BOOLEAN :
        /\ filled' = IF done THEN filled + b ELSE filled
        /\ sent' = IF done THEN (sent + b) % HostMod ELSE sent
        /\ call' = [call EXCEPT !.rest = @ - Chunk(call.rest),
                                !.pc = IF done THEN "written" ELSE @]
  <2>1. PICK done \in BOOLEAN : done = (call.rest = Chunk(call.rest))
    OBVIOUS
  <2> QED
    BY <1>2, <2>1 DEF Write
<1>4. /\ call'.pc = IF done THEN "written" ELSE "write"
      /\ call'.length = call.length
  BY <1>1, <1>3, CallFields
<1>5. TxPledged = b /\ TxPledged' = IF done THEN 0 ELSE b
  BY <1>1, <1>2, <1>4 DEF TxPledged, BuffersFor
<1>6. TxReads'
  BY <1>4 DEF TxReads
<1>7. TxAgrees'
  <2>1. SUFFICES ASSUME "tx" \notin adrift'
                 PROVE  /\ filled' <= loaded' /\ sent' = filled' % HostMod
                        /\ Latest(sentLatest', TxWidth', filled' + TxPledged', loaded')
    BY DEF TxAgrees
  <2>2. "tx" \notin adrift /\ "tx" \notin stale
    BY <1>1, <2>1
  <2>3. sent = filled % HostMod
    BY <2>2 DEF TxAgrees
  <2>4. PICK v : v \in (filled + b)..loaded /\ sentLatest = v % TxWidth
    BY <1>5, <2>2 DEF TxAgrees, Latest
  <2>5. loaded \in Nat /\ filled \in Nat /\ HostMod \in Nat \ {0}
    BY Constants DEF Typed, TxCounts
  <2>6. filled' + TxPledged' = filled + b /\ filled' <= loaded
    <3>1. filled + b <= loaded
      BY <2>4, <2>5
    <3> QED
      BY <1>3, <1>5, <2>5, <3>1
  <2>7. sent' = filled' % HostMod
    <3>1. ((filled % HostMod) + b) % HostMod = (filled + b) % HostMod
      <4>1. filled \in Int /\ b \in Int
        BY <2>5
      <4> QED
        BY <2>5, <4>1, ModOfMod
    <3> QED
      BY <1>3, <2>3, <3>1
  <2>8. TxWidth' = TxWidth
    BY <1>1 DEF TxWidth
  <2> QED
    BY <1>1, <2>4, <2>6, <2>7, <2>8 DEF Latest
<1> QED
  BY <1>6, <1>7

\* The register is taken over.
LEMMA TxUpdates ==
  ASSUME ConstantsOK, Typed, TxAgrees, NEW value, call.pc = "tx register", Update(value),
         "tx" \notin adrift => Latest(value, TxWidth, filled, loaded),
         UNCHANGED <<bus, sent, slave, adrift>>
  PROVE  TxAgrees' /\ TxReads'
<1>1. call'.pc = "tx updated" /\ sentLatest' = value
  BY CallFields DEF Update, Goto
<1>2. TxPledged' = 0 /\ TxWidth' = TxWidth
  BY <1>1 DEF TxPledged, TxWidth
<1>3. TxReads'
  BY <1>1 DEF TxReads
<1>4. TxAgrees'
  <2>1. filled + 0 = filled
    <3>1. filled \in Nat
      BY DEF Typed, TxCounts
    <3> QED
      BY <3>1, PlusZero, Zenon
  <2>2. "tx" \notin adrift => Latest(value, TxWidth, filled + 0, loaded)
    BY <2>1
  <2> QED
    BY <1>1, <1>2, <2>2, Zenon DEF TxAgrees, slave
<1> QED
  BY <1>3, <1>4

LEMMA TxReadsSDIO ==
  ASSUME ConstantsOK, Typed, TxAgrees, ReadRegister, call.pc = "tx register"
  PROVE  TxAgrees' /\ TxReads'
<1>1. /\ Update(Register) /\ Register = loaded % TxWidth
      /\ UNCHANGED <<bus, sent, slave, adrift>>
  BY DEF ReadRegister, Register, TxRegister
<1>2. "tx" \notin adrift => Latest(loaded % TxWidth, TxWidth, filled, loaded)
  <2>1. SUFFICES ASSUME "tx" \notin adrift PROVE loaded \in filled..loaded
    BY DEF Latest
  <2>2. filled <= loaded /\ filled \in Nat /\ loaded \in Nat
    BY <2>1 DEF TxAgrees, Typed, TxCounts
  <2> QED
    BY <2>2, LastIsIn, Zenon
<1>3. PICK value : value = loaded % TxWidth
  OBVIOUS
<1> QED
  BY <1>1, <1>2, <1>3, TxUpdates, Zenon

LEMMA TxReadsPart ==
  ASSUME ConstantsOK, Typed, TxAgrees, TxReads, ReadRegisterPart, call.pc = "tx register"
  PROVE  TxAgrees' /\ TxReads'
<1>1. /\ bus = "SPI" /\ call.part < Bytes - 1
      /\ call' = [call EXCEPT !.reading = Reading, !.part = @ + 1]
      /\ UNCHANGED <<bus, host, slave, trust>>
  BY DEF ReadRegisterPart
<1>2. /\ call'.pc = "tx register" /\ call'.part = call.part + 1
      /\ call'.reading = Reading /\ call'.previous = call.previous
  BY <1>1, CallFields
<1>3. TxPledged = 0 /\ TxPledged' = 0 /\ TxWidth' = TxWidth
  BY <1>1, <1>2 DEF TxPledged, TxWidth
<1>4. TxAgrees'
  BY <1>1, <1>3 DEF TxAgrees, host, slave, trust
<1>5. ASSUME "tx" \notin adrift PROVE Halves(call', filled, loaded)
  <2>1. Reading = NextReading(call, loaded)
    BY <1>1, Registers DEF Reading, NextReading, Register
  <2>2. Halves(call, filled, loaded)
    BY <1>1, <1>5 DEF TxReads
  <2>3. PICK lo \in Nat, hi \in Nat : lo = filled /\ hi = loaded
    BY DEF Typed, TxCounts
  <2>4. PICK c : c = call'
    OBVIOUS
  <2>5. Halves(c, lo, hi)
    BY <1>2, <2>1, <2>2, <2>3, <2>4, CallFields, HalvesPart
  <2> QED
    BY <2>3, <2>4, <2>5
<1>6. TxReads'
  BY <1>1, <1>5 DEF TxReads, slave, trust
<1> QED
  BY <1>4, <1>6

LEMMA TxReadsEnd ==
  ASSUME ConstantsOK, Gradual, Typed, TxAgrees, TxReads, ReadRegisterEnd,
         call.pc = "tx register"
  PROVE  TxAgrees' /\ TxReads'
<1>1. /\ bus = "SPI" /\ call.part = Bytes - 1
      /\ UNCHANGED <<bus, sent, slave, adrift>>
  BY DEF ReadRegisterEnd
<1>2. PICK lo \in Nat, hi \in Nat : lo = filled /\ hi = loaded /\ hi <= lo + Ahead
  BY DEF Typed, TxCounts
<1>3. Reading = NextReading(call, loaded)
  BY <1>1, Registers DEF Reading, NextReading, Register
<1>4. ASSUME "tx" \notin adrift PROVE lo <= hi /\ Halves(call, lo, hi)
  BY <1>1, <1>2, <1>4 DEF TxAgrees, TxReads
<1>5. CASE Reading = call.previous
  <2>1. Update(Reading)
    BY <1>5 DEF ReadRegisterEnd
  <2>2. "tx" \notin adrift => Latest(Reading, TxWidth, filled, loaded)
    <3>1. SUFFICES ASSUME "tx" \notin adrift
                   PROVE  \E v \in lo..hi : call.previous = v % HostMod
      BY <1>1, <1>2, <1>5 DEF Latest, TxWidth
    <3>2. hi - lo <= ByteMod * (ByteMod - 1)
      <4>1. "SPI" \in Buses
        BY <1>1 DEF Typed
      <4> QED
        BY <1>2, <4>1, Slowly
    <3>3. lo <= hi /\ Halves(call, lo, hi)
      BY <1>4, <3>1
    <3>4. call.previous = NextReading(call, hi)
      BY <1>2, <1>3, <1>5
    <3> QED
      BY <1>1, <3>2, <3>3, <3>4, HalvesAgree
  <2>3. PICK value : value = Reading
    OBVIOUS
  <2> QED
    BY <1>1, <2>1, <2>2, <2>3, TxUpdates, Zenon
<1>6. CASE Reading # call.previous
  <2>1. /\ call' = [call EXCEPT !.previous = Reading, !.reading = 0, !.part = 0]
        /\ UNCHANGED <<sentLatest, stale>>
    BY <1>6 DEF ReadRegisterEnd
  <2>2. /\ call'.pc = "tx register" /\ call'.part = 0
        /\ call'.reading = 0 /\ call'.previous = Reading
    BY <2>1, CallFields
  <2>3. TxPledged = 0 /\ TxPledged' = 0 /\ TxWidth' = TxWidth
    BY <1>1, <2>2 DEF TxPledged, TxWidth
  <2>4. TxAgrees'
    BY <1>1, <2>1, <2>3 DEF TxAgrees, slave
  <2>5. ASSUME "tx" \notin adrift PROVE Halves(call', filled, loaded)
    <3>1. PICK c : c = call'
      OBVIOUS
    <3>2. lo <= hi /\ Halves(call, lo, hi)
      BY <1>4, <2>5
    <3>3. c.previous = NextReading(call, hi)
      BY <1>2, <1>3, <2>2, <3>1
    <3>4. Halves(c, lo, hi)
      BY <1>1, <2>2, <3>1, <3>2, <3>3, HalvesEnd
    <3> QED
      BY <1>2, <3>1, <3>4
  <2>6. TxReads'
    BY <1>1, <2>5 DEF TxReads, slave
  <2> QED
    BY <2>4, <2>6
<1> QED
  BY <1>5, <1>6

LEMMA TxStep ==
  ASSUME ConstantsOK, Gradual, Typed, Typed', TxAgrees, TxReads, [Next]_vars
  PROVE  TxAgrees' /\ TxReads'
<1>1. ASSUME TxKeeps PROVE TxAgrees' /\ TxReads'
  BY <1>1, TxKept
<1>2. ASSUME NEW n \in Lengths, SendPacket(n) \/ GetPacket(n) PROVE TxKeeps
  <2>1. PICK pc \in {"send", "get", "read"} :
          call' = [Idle EXCEPT !.pc = pc, !.length = n, !.rest = n]
    BY <1>2 DEF SendPacket, GetPacket
  <2>2. call'.pc = pc
    BY <2>1, IdleOK
  <2> QED
    BY <1>2, <2>1, <2>2 DEF SendPacket, GetPacket, host, slave, trust, TxKeeps
<1>3. ASSUME NEW pc, call' = Round(pc)
      PROVE  /\ call'.pc = pc /\ call'.length = call.length
             /\ call'.part = 0 /\ call'.reading = 0 /\ call'.previous = -1
  BY <1>3, CallFields DEF Round
<1>4. ASSUME Return PROVE call'.pc = "idle"
  BY <1>4, IdleOK DEF Return
<1>5. ASSUME NEW pc, Goto(pc) PROVE call'.pc = pc /\ call'.length = call.length
  BY <1>5, CallFields DEF Goto
<1>6. ASSUME SendChecks PROVE TxAgrees' /\ TxReads'
  <2>1. UNCHANGED <<bus, host, slave, trust>> /\ call.pc # "write"
    BY <1>6 DEF SendChecks
  <2>2. CASE TxFree < BuffersFor(call.length)
    <3>1. call' = Round("tx register")
      BY <1>6, <2>2 DEF SendChecks
    <3>2. /\ call'.pc = "tx register"
          /\ call'.part = 0 /\ call'.reading = 0 /\ call'.previous = -1
      BY <1>3, <3>1
    <3> QED
      BY <1>1, <2>1, <3>2 DEF host, slave, trust, TxKeeps
  <2>3. CASE ~(TxFree < BuffersFor(call.length))
    <3>1. call' = Round("write")
      BY <1>6, <2>3 DEF SendChecks
    <3>2. TxFree >= BuffersFor(call.length)
      BY <2>3, SizesTyped, CallFields, Buffers
    <3> QED
      BY <1>3, <2>1, <3>1, <3>2, TxPledges
  <2> QED
    BY <2>2, <2>3
<1>7. ASSUME SendRechecks PROVE TxAgrees' /\ TxReads'
  <2>1. UNCHANGED <<bus, host, slave, trust>> /\ call.pc # "write"
    BY <1>7 DEF SendRechecks
  <2>2. CASE TxFree >= BuffersFor(call.length) /\ Goto("write")
    BY <1>5, <2>1, <2>2, TxPledges
  <2>3. CASE Goto("send") \/ Return
    <3>1. call'.pc \in {"send", "idle"}
      <4>1. CASE Goto("send")
        BY <1>5, <4>1
      <4>2. CASE Return
        BY <1>4, <4>2
      <4> QED
        BY <2>3, <4>1, <4>2
    <3> QED
      BY <1>1, <2>1, <3>1 DEF host, slave, trust, TxKeeps
  <2> QED
    BY <1>7, <2>2, <2>3 DEF SendRechecks
<1>8. ASSUME Write PROVE TxAgrees' /\ TxReads'
  BY <1>8, TxWrites
<1>9. ASSUME WriteFails PROVE TxAgrees' /\ TxReads'
  <2>1. call'.pc = "idle" /\ UNCHANGED <<bus, host, loaded, stale>>
    BY <1>4, <1>9 DEF WriteFails
  <2>2. "tx" \notin adrift' => filled' = filled /\ "tx" \notin adrift
    <3>1. PICK n : /\ n \in 0..BuffersFor(call.length - call.rest) /\ filled' = filled + n
                   /\ adrift' = IF n > 0 THEN adrift \cup {"tx"} ELSE adrift
      BY <1>9 DEF WriteFails
    <3>2. n \in Nat
      <4>1. call.length - call.rest \in Nat
        BY CallFields
      <4> QED
        BY <3>1, <4>1, Buffers
    <3>3. CASE n > 0
      BY <3>1, <3>3
    <3>4. CASE n = 0
      <4>1. filled' = filled
        BY <3>1, <3>4, PlusZero, Zenon DEF Typed, TxCounts
      <4>2. adrift' = adrift
        BY <3>1, <3>4
      <4> QED
        BY <4>1, <4>2
    <3> QED
      BY <3>2, <3>3, <3>4
  <2>3. CASE "tx" \in adrift'
    BY <2>1, <2>3 DEF TxAgrees, TxReads
  <2>4. CASE "tx" \notin adrift'
    BY <1>1, <2>1, <2>2, <2>4 DEF TxKeeps, host
  <2> QED
    BY <2>3, <2>4
<1>10. ASSUME Written \/ ReadFails \/ Refreshed \/ ReadRegisterFails PROVE TxKeeps
  BY <1>4, <1>10 DEF Written, ReadFails, Refreshed, ReadRegisterFails, host, slave, trust,
     TxKeeps
<1>11. ASSUME GetUpdates \/ Refresh PROVE TxKeeps
  <2>1. PICK pc \in {"tx register", "rx register"} : call' = Round(pc)
    BY <1>11 DEF GetUpdates, Refresh
  <2> QED
    BY <1>3, <1>11, <2>1 DEF GetUpdates, Refresh, host, slave, trust, TxKeeps
<1>12. ASSUME GetRechecks PROVE TxKeeps
  <2>1. call'.pc \in {"read", "get", "idle"}
    <3>1. CASE RxSize > 0 /\ RxSize # 0
      <4>1. PICK n : call' = [call EXCEPT !.pc = "read", !.length = n, !.rest = n]
        BY <1>12, <3>1 DEF GetRechecks
      <4> QED
        BY <4>1, CallFields
    <3>2. CASE RxSize = 0
      <4>1. ~(RxSize > 0)
        BY <3>2
      <4>2. Goto("get") \/ Return
        BY <1>12, <4>1 DEF GetRechecks
      <4>3. CASE Goto("get")
        BY <1>5, <4>3
      <4>4. CASE Return
        BY <1>4, <4>4
      <4> QED
        BY <4>2, <4>3, <4>4
    <3> QED
      BY <3>1, <3>2, SizesTyped
  <2> QED
    BY <1>12, <2>1 DEF GetRechecks, host, slave, trust, TxKeeps
<1>13. ASSUME Read PROVE TxKeeps
  <2>1. call'.pc \in {"read", "idle"}
    <3>1. CASE Return
      BY <1>4, <3>1
    <3>2. CASE ~Return
      <4>1. PICK n : call' = [call EXCEPT !.rest = @ - n] /\ call.pc = "read"
        BY <1>13, <3>2 DEF Read
      <4> QED
        BY <4>1, CallFields
    <3> QED
      BY <3>1, <3>2
  <2> QED
    BY <1>13, <2>1 DEF Read, TxKeeps
<1>14. ASSUME NEW value, Update(value), call.pc = "rx register",
              UNCHANGED <<bus, sent, slave, adrift>>
       PROVE  TxKeeps
  <2>1. Goto("rx updated") /\ stale' = stale \ {"rx"} /\ UNCHANGED sentLatest
    BY <1>14 DEF Update
  <2>2. call'.pc = "rx updated"
    BY <1>5, <2>1
  <2> QED
    BY <1>14, <2>1, <2>2 DEF slave, TxKeeps
<1>15. ASSUME ReadRegister PROVE TxAgrees' /\ TxReads'
  <2>1. CASE call.pc = "tx register"
    BY <1>15, <2>1, TxReadsSDIO
  <2>2. CASE call.pc = "rx register"
    <3>1. PICK value : Update(value)
      BY <1>15 DEF ReadRegister
    <3>2. UNCHANGED <<bus, sent, slave, adrift>>
      BY <1>15 DEF ReadRegister
    <3> QED
      BY <1>1, <1>14, <2>2, <3>1, <3>2
  <2> QED
    BY <1>15, <2>1, <2>2 DEF ReadRegister, InRegister
<1>16. ASSUME ReadRegisterPart PROVE TxAgrees' /\ TxReads'
  <2>1. CASE call.pc = "tx register"
    BY <1>16, <2>1, TxReadsPart
  <2>2. CASE call.pc = "rx register"
    <3>1. call'.pc = "rx register"
      BY <1>16, <2>2, CallFields DEF ReadRegisterPart
    <3> QED
      BY <1>1, <1>16, <3>1 DEF ReadRegisterPart, host, slave, trust, TxKeeps
  <2> QED
    BY <1>16, <2>1, <2>2 DEF ReadRegisterPart, InRegister
<1>17. ASSUME ReadRegisterEnd PROVE TxAgrees' /\ TxReads'
  <2>1. CASE call.pc = "tx register"
    BY <1>17, <2>1, TxReadsEnd
  <2>2. CASE call.pc = "rx register"
    <3>1. UNCHANGED <<bus, sent, slave, adrift>>
      BY <1>17 DEF ReadRegisterEnd
    <3>2. CASE Reading = call.previous
      <4>1. PICK value : Update(value)
        BY <1>17, <3>2 DEF ReadRegisterEnd
      <4> QED
        BY <1>1, <1>14, <2>2, <3>1, <4>1
    <3>3. CASE Reading # call.previous
      <4>1. call'.pc = "rx register" /\ UNCHANGED <<sentLatest, stale>>
        BY <1>17, <2>2, <3>3, CallFields DEF ReadRegisterEnd
      <4> QED
        BY <1>1, <3>1, <4>1 DEF slave, TxKeeps
    <3> QED
      BY <3>2, <3>3
  <2> QED
    BY <1>17, <2>1, <2>2 DEF ReadRegisterEnd, InRegister
<1>18. ASSUME SlaveLoads \/ SlaveProduces \/ TimeIsOver PROVE TxKeeps
  BY <1>18 DEF SlaveLoads, SlaveProduces, TimeIsOver, host, slave, trust, TxKeeps
<1>19. ASSUME ResetCnt PROVE TxAgrees' /\ TxReads'
  <2>1. /\ sent' = 0 /\ filled' = 0 /\ loaded' = 0 /\ "tx" \in stale'
        /\ call'.pc = "idle"
    BY <1>19, IdleOK DEF ResetCnt
  <2>2. 0 % HostMod = 0
    <3>1. HostMod \in Nat \ {0} /\ 0 \in 0..(HostMod - 1)
      BY Constants
    <3> QED
      BY <3>1, SmallMod
  <2>3. 0 <= 0
    BY PlusZero
  <2> QED
    BY <2>1, <2>2, <2>3, Zenon DEF TxAgrees, TxReads
<1>20. CASE Next
  BY <1>1, <1>2, <1>6, <1>7, <1>8, <1>9, <1>10, <1>11, <1>12, <1>13, <1>15, <1>16, <1>17,
     <1>18, <1>19, <1>20 DEF Next
<1>21. CASE UNCHANGED vars
  BY <1>1, <1>21 DEF vars, host, slave, trust, TxKeeps
<1> QED
  BY <1>20, <1>21

-----------------------------------------------------------------------------
(* The way back.                                                           *)

\* What the host takes for the bytes to get is how far the slave was ahead when the
\* register was read.
LEMMA RxSizeIs ==
  ASSUME ConstantsOK, Typed, RxAgrees, "rx" \notin adrift, "rx" \notin stale
  PROVE  \E v \in (taken + RxPledged)..produced :
           gotLatest = v % RxWidth /\ RxSize = v - taken
<1>0. /\ produced \in Nat /\ taken \in Nat /\ produced <= taken + AheadBytes
      /\ RxPledged \in Nat /\ AheadBytes \in 0..(RxMod - 1) /\ RxMod \in Nat
  BY Constants, CallFields DEF Typed, RxCounts, RxPledged
<1>1. PICK v : v \in (taken + RxPledged)..produced /\ gotLatest = v % RxWidth
  BY DEF RxAgrees, Latest
<1>2. got = taken % HostMod
  BY DEF RxAgrees
<1>3. PICK W \in Nat \ {0}, H \in Nat \ {0} :
        W = RxWidth /\ H = HostMod /\ H % W = 0 /\ RxMod <= W
  BY Widths, Constants
<1>4. v \in Nat /\ taken <= v /\ v <= taken + W - 1
  BY <1>0, <1>1, <1>3
<1>5. PICK f \in Nat : f = taken /\ v \in f..(f + W - 1)
  BY <1>0, <1>4
<1>6. Further(v, f, W, H) = v - f
  BY <1>3, <1>5, Difference
<1> QED
  BY <1>1, <1>2, <1>3, <1>5, <1>6, Zenon DEF RxSize, Further

\* A step that leaves the counters to the slave, the registers unread, and pledges
\* no more.
RxKeeps ==
  /\ UNCHANGED <<bus, got, gotLatest, taken>>
  /\ produced' = produced \/ \E n \in Nat : produced' = produced + n
  /\ "rx" \in adrift => "rx" \in adrift'
  /\ "rx" \in stale => "rx" \in stale'
  /\ call'.pc = "read" => call.pc = "read" /\ call'.rest = call.rest
  /\ \/ call'.pc # "rx register"
     \/ call' = call
     \/ call'.part = 0 /\ call'.reading = 0 /\ call'.previous = -1

LEMMA RxKept ==
  ASSUME ConstantsOK, Typed, Typed', RxAgrees, RxReads, RxKeeps
  PROVE  RxAgrees' /\ RxReads'
<1>0. PICK l \in Nat, f \in Nat, m \in Nat :
        l = produced /\ f = taken /\ m = produced' /\ l <= m /\ f = taken'
  <2>1. produced \in Nat /\ taken \in Nat /\ produced' \in Nat
    BY DEF Typed, RxCounts
  <2>2. /\ produced' = produced \/ \E n \in Nat : produced' = produced + n
        /\ taken' = taken
    BY DEF RxKeeps
  <2>3. \A x, n \in Nat : x <= x /\ x <= x + n
    OBVIOUS
  <2>4. produced <= produced'
    BY <2>1, <2>2, <2>3, Zenon
  <2> QED
    BY <2>1, <2>2, <2>4, Zenon
<1>1. PICK p \in Nat, q \in Nat : p = RxPledged /\ q = RxPledged' /\ q <= p
  <2>1. PICK b : b = call.rest /\ b \in Nat
    BY CallFields
  <2>2. RxPledged = IF call.pc = "read" THEN b ELSE 0
    BY <2>1 DEF RxPledged
  <2>3. RxPledged' = IF call'.pc = "read" THEN b ELSE 0
    BY <2>1 DEF RxPledged, RxKeeps
  <2>4. call'.pc = "read" => call.pc = "read"
    BY DEF RxKeeps
  <2> QED
    BY <2>1, <2>2, <2>3, <2>4
<1>2. "rx" \notin adrift' => "rx" \notin adrift
  BY DEF RxKeeps
<1>3. RxAgrees'
  <2>1. SUFFICES ASSUME "rx" \notin adrift'
                 PROVE  /\ taken' <= produced' /\ got' = taken' % HostMod
                        /\ "rx" \notin stale' =>
                             Latest(gotLatest', RxWidth', taken' + RxPledged', produced')
    BY DEF RxAgrees
  <2>2. /\ f <= l /\ got = taken % HostMod
        /\ "rx" \notin stale => Latest(gotLatest, RxWidth, f + p, l)
    BY <1>0, <1>1, <1>2, <2>1 DEF RxAgrees
  <2>3. ASSUME "rx" \notin stale' PROVE Latest(gotLatest', RxWidth', f + q, m)
    <3>1. PICK v : v \in (f + p)..l /\ gotLatest = v % RxWidth
      BY <2>2, <2>3 DEF Latest, RxKeeps
    <3>2. v \in (f + q)..m
      BY <1>0, <1>1, <3>1, Within
    <3>3. RxWidth' = RxWidth /\ gotLatest' = gotLatest
      BY DEF RxWidth, RxKeeps
    <3> QED
      BY <3>1, <3>2, <3>3 DEF Latest
  <2>4. f <= m
    BY <1>0, <2>2
  <2>5. got' = taken' % HostMod
    BY <2>2 DEF RxKeeps
  <2> QED
    BY <1>0, <1>1, <2>3, <2>4, <2>5
<1>4. RxReads'
  <2>1. SUFFICES ASSUME bus' = "SPI", call'.pc = "rx register", "rx" \notin adrift'
                 PROVE  Halves(call', f, m)
    BY <1>0 DEF RxReads
  <2>2. f <= l
    BY <1>0, <1>2, <2>1 DEF RxAgrees
  <2>3. CASE call'.part = 0 /\ call'.reading = 0 /\ call'.previous = -1
    <3>1. f <= m
      BY <1>0, <2>2
    <3>2. PICK c : c = call'
      OBVIOUS
    <3> QED
      BY <2>3, <3>1, <3>2, HalvesStart
  <2>4. CASE call' = call
    <3>1. Halves(call, f, l)
      BY <1>0, <1>2, <2>1, <2>4 DEF RxReads, RxKeeps
    <3>2. call.part \in 0..(Bytes - 1)
      BY CallFields
    <3>3. Halves(call, f, m)
      BY <1>0, <3>1, <3>2, HalvesGrow
    <3> QED
      BY <2>4, <3>3
  <2> QED
    BY <2>1, <2>3, <2>4 DEF RxKeeps
<1> QED
  BY <1>3, <1>4

\* A call is told what to read.
LEMMA RxPledges ==
  ASSUME ConstantsOK, Typed, RxAgrees, UNCHANGED <<bus, host, slave, trust>>,
         NEW n \in Nat, n <= RxSize,
         call'.pc = "read", call'.rest = n, call.pc # "read"
  PROVE  RxAgrees' /\ RxReads'
<1>0. produced \in Nat /\ taken \in Nat /\ RxPledged = 0
  BY DEF Typed, RxCounts, RxPledged
<1>1. RxPledged' = n /\ RxWidth' = RxWidth
  BY DEF RxPledged, RxWidth
<1>2. RxReads'
  BY DEF RxReads
<1>3. RxAgrees'
  <2>1. SUFFICES ASSUME "rx" \notin adrift, "rx" \notin stale
                 PROVE  Latest(gotLatest, RxWidth, taken + n, produced)
    BY <1>1 DEF RxAgrees, host, slave, trust
  <2>2. PICK v : v \in (taken + RxPledged)..produced
                 /\ gotLatest = v % RxWidth /\ RxSize = v - taken
    BY <2>1, RxSizeIs
  <2>3. v \in (taken + n)..produced
    BY <1>0, <2>2
  <2> QED
    BY <2>2, <2>3 DEF Latest
<1> QED
  BY <1>2, <1>3

LEMMA RxTakes ==
  ASSUME ConstantsOK, Typed, RxAgrees, Read
  PROVE  RxAgrees' /\ RxReads'
<1>1. /\ call.pc = "read" /\ bus' = bus /\ gotLatest' = gotLatest /\ produced' = produced
      /\ stale' = stale /\ adrift' = adrift \cup (stale \cap {"rx"})
  BY DEF Read
<1>2. PICK r \in Nat : r = call.rest
  BY CallFields
<1>3. PICK n : n \in 0..r /\ n = Chunk(call.rest)
  BY <1>2, Chunks
<1>4. /\ got' = (got + n) % HostMod /\ taken' = taken + n
      /\ IF r = n THEN Return ELSE call' = [call EXCEPT !.rest = @ - n]
  BY <1>2, <1>3 DEF Read
<1>5. /\ call'.pc = IF r = n THEN "idle" ELSE "read"
      /\ r # n => call'.rest = r - n
  <2>1. CASE r = n
    BY <1>4, <2>1, IdleOK DEF Return
  <2>2. CASE r # n
    BY <1>1, <1>2, <1>4, <2>2, CallFields
  <2> QED
    BY <2>1, <2>2
<1>6. RxPledged = r /\ RxPledged' = r - n
  BY <1>1, <1>2, <1>3, <1>5 DEF RxPledged
<1>7. RxReads'
  BY <1>5 DEF RxReads
<1>8. RxAgrees'
  <2>1. SUFFICES ASSUME "rx" \notin adrift'
                 PROVE  /\ taken' <= produced' /\ got' = taken' % HostMod
                        /\ Latest(gotLatest', RxWidth', taken' + RxPledged', produced')
    BY DEF RxAgrees
  <2>2. "rx" \notin adrift /\ "rx" \notin stale
    BY <1>1, <2>1
  <2>3. got = taken % HostMod
    BY <2>2 DEF RxAgrees
  <2>4. PICK v : v \in (taken + r)..produced /\ gotLatest = v % RxWidth
    BY <1>6, <2>2 DEF RxAgrees, Latest
  <2>5. produced \in Nat /\ taken \in Nat /\ HostMod \in Nat \ {0}
    BY Constants DEF Typed, RxCounts
  <2>6. taken' + RxPledged' = taken + r /\ taken' <= produced
    <3>1. taken + r <= produced
      BY <2>4, <2>5
    <3> QED
      BY <1>3, <1>4, <1>6, <2>5, <3>1
  <2>7. got' = taken' % HostMod
    <3>1. ((taken % HostMod) + n) % HostMod = (taken + n) % HostMod
      <4>1. taken \in Int /\ n \in Int
        BY <1>3, <2>5
      <4> QED
        BY <2>5, <4>1, ModOfMod
    <3> QED
      BY <1>4, <2>3, <3>1
  <2>8. RxWidth' = RxWidth
    BY <1>1 DEF RxWidth
  <2> QED
    BY <1>1, <2>4, <2>6, <2>7, <2>8 DEF Latest
<1> QED
  BY <1>7, <1>8

\* The register is taken over.
LEMMA RxUpdates ==
  ASSUME ConstantsOK, Typed, RxAgrees, NEW value, call.pc = "rx register", Update(value),
         "rx" \notin adrift => Latest(value, RxWidth, taken, produced),
         UNCHANGED <<bus, got, slave, adrift>>
  PROVE  RxAgrees' /\ RxReads'
<1>1. call'.pc = "rx updated" /\ gotLatest' = value
  BY CallFields DEF Update, Goto
<1>2. RxPledged' = 0 /\ RxWidth' = RxWidth
  BY <1>1 DEF RxPledged, RxWidth
<1>3. RxReads'
  BY <1>1 DEF RxReads
<1>4. RxAgrees'
  <2>1. taken + 0 = taken
    <3>1. taken \in Nat
      BY DEF Typed, RxCounts
    <3> QED
      BY <3>1, PlusZero, Zenon
  <2>2. "rx" \notin adrift => Latest(value, RxWidth, taken + 0, produced)
    BY <2>1
  <2> QED
    BY <1>1, <1>2, <2>2, Zenon DEF RxAgrees, slave
<1> QED
  BY <1>3, <1>4

LEMMA RxReadsSDIO ==
  ASSUME ConstantsOK, Typed, RxAgrees, ReadRegister, call.pc = "rx register"
  PROVE  RxAgrees' /\ RxReads'
<1>1. /\ Update(Register) /\ Register = produced % RxWidth
      /\ UNCHANGED <<bus, got, slave, adrift>>
  BY DEF ReadRegister, Register, RxRegister
<1>2. "rx" \notin adrift => Latest(produced % RxWidth, RxWidth, taken, produced)
  <2>1. SUFFICES ASSUME "rx" \notin adrift PROVE produced \in taken..produced
    BY DEF Latest
  <2>2. taken <= produced /\ taken \in Nat /\ produced \in Nat
    BY <2>1 DEF RxAgrees, Typed, RxCounts
  <2> QED
    BY <2>2, LastIsIn, Zenon
<1>3. PICK value : value = produced % RxWidth
  OBVIOUS
<1> QED
  BY <1>1, <1>2, <1>3, RxUpdates, Zenon

LEMMA RxReadsPart ==
  ASSUME ConstantsOK, Typed, RxAgrees, RxReads, ReadRegisterPart, call.pc = "rx register"
  PROVE  RxAgrees' /\ RxReads'
<1>1. /\ bus = "SPI" /\ call.part < Bytes - 1
      /\ call' = [call EXCEPT !.reading = Reading, !.part = @ + 1]
      /\ UNCHANGED <<bus, host, slave, trust>>
  BY DEF ReadRegisterPart
<1>2. /\ call'.pc = "rx register" /\ call'.part = call.part + 1
      /\ call'.reading = Reading /\ call'.previous = call.previous
  BY <1>1, CallFields
<1>3. RxPledged = 0 /\ RxPledged' = 0 /\ RxWidth' = RxWidth
  BY <1>1, <1>2 DEF RxPledged, RxWidth
<1>4. RxAgrees'
  BY <1>1, <1>3 DEF RxAgrees, host, slave, trust
<1>5. ASSUME "rx" \notin adrift PROVE Halves(call', taken, produced)
  <2>1. Reading = NextReading(call, produced)
    BY <1>1, Registers DEF Reading, NextReading, Register
  <2>2. Halves(call, taken, produced)
    BY <1>1, <1>5 DEF RxReads
  <2>3. PICK lo \in Nat, hi \in Nat : lo = taken /\ hi = produced
    BY DEF Typed, RxCounts
  <2>4. PICK c : c = call'
    OBVIOUS
  <2>5. Halves(c, lo, hi)
    BY <1>2, <2>1, <2>2, <2>3, <2>4, CallFields, HalvesPart
  <2> QED
    BY <2>3, <2>4, <2>5
<1>6. RxReads'
  BY <1>1, <1>5 DEF RxReads, slave, trust
<1> QED
  BY <1>4, <1>6

LEMMA RxReadsEnd ==
  ASSUME ConstantsOK, Gradual, Typed, RxAgrees, RxReads, ReadRegisterEnd,
         call.pc = "rx register"
  PROVE  RxAgrees' /\ RxReads'
<1>1. /\ bus = "SPI" /\ call.part = Bytes - 1
      /\ UNCHANGED <<bus, got, slave, adrift>>
  BY DEF ReadRegisterEnd
<1>2. PICK lo \in Nat, hi \in Nat : lo = taken /\ hi = produced /\ hi <= lo + AheadBytes
  BY DEF Typed, RxCounts
<1>3. Reading = NextReading(call, produced)
  BY <1>1, Registers DEF Reading, NextReading, Register
<1>4. ASSUME "rx" \notin adrift PROVE lo <= hi /\ Halves(call, lo, hi)
  BY <1>1, <1>2, <1>4 DEF RxAgrees, RxReads
<1>5. CASE Reading = call.previous
  <2>1. Update(Reading)
    BY <1>5 DEF ReadRegisterEnd
  <2>2. "rx" \notin adrift => Latest(Reading, RxWidth, taken, produced)
    <3>1. SUFFICES ASSUME "rx" \notin adrift
                   PROVE  \E v \in lo..hi : call.previous = v % HostMod
      BY <1>1, <1>2, <1>5 DEF Latest, RxWidth
    <3>2. hi - lo <= ByteMod * (ByteMod - 1)
      <4>1. "SPI" \in Buses
        BY <1>1 DEF Typed
      <4> QED
        BY <1>2, <4>1, Slowly
    <3>3. lo <= hi /\ Halves(call, lo, hi)
      BY <1>4, <3>1
    <3>4. call.previous = NextReading(call, hi)
      BY <1>2, <1>3, <1>5
    <3> QED
      BY <1>1, <3>2, <3>3, <3>4, HalvesAgree
  <2>3. PICK value : value = Reading
    OBVIOUS
  <2> QED
    BY <1>1, <2>1, <2>2, <2>3, RxUpdates, Zenon
<1>6. CASE Reading # call.previous
  <2>1. /\ call' = [call EXCEPT !.previous = Reading, !.reading = 0, !.part = 0]
        /\ UNCHANGED <<gotLatest, stale>>
    BY <1>6 DEF ReadRegisterEnd
  <2>2. /\ call'.pc = "rx register" /\ call'.part = 0
        /\ call'.reading = 0 /\ call'.previous = Reading
    BY <2>1, CallFields
  <2>3. RxPledged = 0 /\ RxPledged' = 0 /\ RxWidth' = RxWidth
    BY <1>1, <2>2 DEF RxPledged, RxWidth
  <2>4. RxAgrees'
    BY <1>1, <2>1, <2>3 DEF RxAgrees, slave
  <2>5. ASSUME "rx" \notin adrift PROVE Halves(call', taken, produced)
    <3>1. PICK c : c = call'
      OBVIOUS
    <3>2. lo <= hi /\ Halves(call, lo, hi)
      BY <1>4, <2>5
    <3>3. c.previous = NextReading(call, hi)
      BY <1>2, <1>3, <2>2, <3>1
    <3>4. Halves(c, lo, hi)
      BY <1>1, <2>2, <3>1, <3>2, <3>3, HalvesEnd
    <3> QED
      BY <1>2, <3>1, <3>4
  <2>6. RxReads'
    BY <1>1, <2>5 DEF RxReads, slave
  <2> QED
    BY <2>4, <2>6
<1> QED
  BY <1>5, <1>6

LEMMA RxStep ==
  ASSUME ConstantsOK, Gradual, Typed, Typed', RxAgrees, RxReads, [Next]_vars
  PROVE  RxAgrees' /\ RxReads'
<1>1. ASSUME RxKeeps PROVE RxAgrees' /\ RxReads'
  BY <1>1, RxKept
<1>2. ASSUME NEW n \in Lengths, SendPacket(n) PROVE RxKeeps
  <2>1. call' = [Idle EXCEPT !.pc = "send", !.length = n, !.rest = n]
    BY <1>2 DEF SendPacket
  <2>2. call'.pc = "send"
    BY <2>1, IdleOK
  <2> QED
    BY <1>2, <2>2 DEF SendPacket, host, slave, trust, RxKeeps
<1>3. ASSUME NEW pc, call' = Round(pc)
      PROVE  /\ call'.pc = pc /\ call'.length = call.length
             /\ call'.part = 0 /\ call'.reading = 0 /\ call'.previous = -1
  BY <1>3, CallFields DEF Round
<1>4. ASSUME Return PROVE call'.pc = "idle"
  BY <1>4, IdleOK DEF Return
<1>5. ASSUME NEW pc, Goto(pc) PROVE call'.pc = pc /\ call'.length = call.length
  BY <1>5, CallFields DEF Goto
<1>6. ASSUME NEW n \in Lengths, GetPacket(n) PROVE RxAgrees' /\ RxReads'
  <2>1. UNCHANGED <<bus, host, slave, trust>> /\ call.pc # "read"
    BY <1>6, IdleOK DEF GetPacket
  <2>2. n \in Nat /\ RxSize \in Nat
    BY Constants, SizesTyped
  <2>3. CASE RxSize < n
    <3>1. call' = [Idle EXCEPT !.pc = "get", !.length = n, !.rest = n]
      BY <1>6, <2>3 DEF GetPacket
    <3>2. call'.pc = "get"
      BY <3>1, IdleOK
    <3> QED
      BY <1>1, <2>1, <3>2 DEF host, slave, trust, RxKeeps
  <2>4. CASE ~(RxSize < n)
    <3>1. call' = [Idle EXCEPT !.pc = "read", !.length = n, !.rest = n]
      BY <1>6, <2>4 DEF GetPacket
    <3>2. call'.pc = "read" /\ call'.rest = n
      BY <3>1, IdleOK
    <3>3. n <= RxSize
      BY <2>2, <2>4
    <3> QED
      BY <2>1, <2>2, <3>2, <3>3, RxPledges
  <2> QED
    BY <2>3, <2>4
<1>7. ASSUME SendChecks PROVE RxKeeps
  <2>1. PICK pc \in {"tx register", "write"} : call' = Round(pc)
    BY <1>7 DEF SendChecks
  <2> QED
    BY <1>3, <1>7, <2>1 DEF SendChecks, host, slave, trust, RxKeeps
<1>8. ASSUME SendRechecks PROVE RxKeeps
  <2>1. call'.pc \in {"write", "send", "idle"}
    <3>1. CASE Return
      BY <1>4, <3>1
    <3>2. CASE \E pc \in {"write", "send"} : Goto(pc)
      BY <1>5, <3>2
    <3> QED
      BY <1>8, <3>1, <3>2 DEF SendRechecks
  <2> QED
    BY <1>8, <2>1 DEF SendRechecks, host, slave, trust, RxKeeps
<1>9. ASSUME Write PROVE RxKeeps
  <2>1. call'.pc \in {"write", "written"}
    <3>1. PICK n, pc : /\ call' = [call EXCEPT !.rest = @ - n, !.pc = pc]
                       /\ pc \in {"write", "written"}
      BY <1>9 DEF Write
    <3> QED
      BY <3>1, CallFields
  <2> QED
    BY <1>9, <2>1 DEF Write, RxKeeps
<1>10. ASSUME WriteFails \/ Written \/ ReadFails \/ Refreshed \/ ReadRegisterFails
       PROVE  RxKeeps
  <2>1. Return
    BY <1>10 DEF WriteFails, Written, ReadFails, Refreshed, ReadRegisterFails
  <2>2. call'.pc = "idle"
    BY <1>4, <2>1
  <2> QED
    BY <1>10, <2>2 DEF WriteFails, Written, ReadFails, Refreshed, ReadRegisterFails, host,
       slave, trust, RxKeeps
<1>11. ASSUME GetUpdates \/ Refresh PROVE RxKeeps
  <2>1. PICK pc \in {"rx register", "tx register"} : call' = Round(pc)
    BY <1>11 DEF GetUpdates, Refresh
  <2> QED
    BY <1>3, <1>11, <2>1 DEF GetUpdates, Refresh, host, slave, trust, RxKeeps
<1>12. ASSUME GetRechecks PROVE RxAgrees' /\ RxReads'
  <2>1. UNCHANGED <<bus, host, slave, trust>> /\ call.pc # "read"
    BY <1>12 DEF GetRechecks
  <2>2. RxSize \in Nat /\ call.length \in Nat
    BY SizesTyped, CallFields
  <2>3. CASE RxSize = 0
    <3>1. ~(RxSize > 0)
      BY <2>3
    <3>2. Goto("get") \/ Return
      BY <1>12, <3>1 DEF GetRechecks
    <3>3. call'.pc \in {"get", "idle"}
      BY <1>4, <1>5, <3>2
    <3> QED
      BY <1>1, <2>1, <3>3 DEF host, slave, trust, RxKeeps
  <2>4. CASE RxSize # 0
    <3>1. PICK n : /\ n = IF RxSize < call.length THEN RxSize ELSE call.length
                   /\ call' = [call EXCEPT !.pc = "read", !.length = n, !.rest = n]
      BY <1>12, <2>4 DEF GetRechecks
    <3>2. call'.pc = "read" /\ call'.rest = n
      BY <3>1, CallFields
    <3>3. n \in Nat /\ n <= RxSize
      BY <2>2, <3>1
    <3> QED
      BY <2>1, <3>2, <3>3, RxPledges
  <2> QED
    BY <2>3, <2>4
<1>13. ASSUME Read PROVE RxAgrees' /\ RxReads'
  BY <1>13, RxTakes
<1>14. ASSUME NEW value, Update(value), call.pc = "tx register",
              UNCHANGED <<bus, got, slave, adrift>>
       PROVE  RxKeeps
  <2>1. Goto("tx updated") /\ stale' = stale \ {"tx"} /\ UNCHANGED gotLatest
    BY <1>14 DEF Update
  <2>2. call'.pc = "tx updated"
    BY <1>5, <2>1
  <2> QED
    BY <1>14, <2>1, <2>2 DEF slave, RxKeeps
<1>15. ASSUME ReadRegister PROVE RxAgrees' /\ RxReads'
  <2>1. CASE call.pc = "rx register"
    BY <1>15, <2>1, RxReadsSDIO
  <2>2. CASE call.pc = "tx register"
    <3>1. PICK value : Update(value)
      BY <1>15 DEF ReadRegister
    <3>2. UNCHANGED <<bus, got, slave, adrift>>
      BY <1>15 DEF ReadRegister
    <3> QED
      BY <1>1, <1>14, <2>2, <3>1, <3>2
  <2> QED
    BY <1>15, <2>1, <2>2 DEF ReadRegister, InRegister
<1>16. ASSUME ReadRegisterPart PROVE RxAgrees' /\ RxReads'
  <2>1. CASE call.pc = "rx register"
    BY <1>16, <2>1, RxReadsPart
  <2>2. CASE call.pc = "tx register"
    <3>1. call'.pc = "tx register"
      BY <1>16, <2>2, CallFields DEF ReadRegisterPart
    <3> QED
      BY <1>1, <1>16, <3>1 DEF ReadRegisterPart, host, slave, trust, RxKeeps
  <2> QED
    BY <1>16, <2>1, <2>2 DEF ReadRegisterPart, InRegister
<1>17. ASSUME ReadRegisterEnd PROVE RxAgrees' /\ RxReads'
  <2>1. CASE call.pc = "rx register"
    BY <1>17, <2>1, RxReadsEnd
  <2>2. CASE call.pc = "tx register"
    <3>1. UNCHANGED <<bus, got, slave, adrift>>
      BY <1>17 DEF ReadRegisterEnd
    <3>2. CASE Reading = call.previous
      <4>1. PICK value : Update(value)
        BY <1>17, <3>2 DEF ReadRegisterEnd
      <4> QED
        BY <1>1, <1>14, <2>2, <3>1, <4>1
    <3>3. CASE Reading # call.previous
      <4>1. call'.pc = "tx register" /\ UNCHANGED <<gotLatest, stale>>
        BY <1>17, <2>2, <3>3, CallFields DEF ReadRegisterEnd
      <4> QED
        BY <1>1, <3>1, <4>1 DEF slave, RxKeeps
    <3> QED
      BY <3>2, <3>3
  <2> QED
    BY <1>17, <2>1, <2>2 DEF ReadRegisterEnd, InRegister
<1>18. ASSUME SlaveLoads \/ SlaveProduces \/ TimeIsOver PROVE RxKeeps
  <2>1. Lengths \subseteq Nat
    BY Constants
  <2> QED
    BY <1>18, <2>1 DEF SlaveLoads, SlaveProduces, TimeIsOver, host, slave, trust, RxKeeps
<1>19. ASSUME ResetCnt PROVE RxAgrees' /\ RxReads'
  <2>1. /\ got' = 0 /\ taken' = 0 /\ produced' = 0 /\ "rx" \in stale'
        /\ call'.pc = "idle"
    BY <1>19, IdleOK DEF ResetCnt
  <2>2. 0 % HostMod = 0
    <3>1. HostMod \in Nat \ {0} /\ 0 \in 0..(HostMod - 1)
      BY Constants
    <3> QED
      BY <3>1, SmallMod
  <2>3. 0 <= 0
    BY PlusZero
  <2> QED
    BY <2>1, <2>2, <2>3, Zenon DEF RxAgrees, RxReads
<1>20. CASE Next
  BY <1>1, <1>2, <1>6, <1>7, <1>8, <1>9, <1>10, <1>11, <1>12, <1>13, <1>15, <1>16, <1>17,
     <1>18, <1>19, <1>20 DEF Next
<1>21. CASE UNCHANGED vars
  BY <1>1, <1>21 DEF vars, host, slave, trust, RxKeeps
<1> QED
  BY <1>20, <1>21

-----------------------------------------------------------------------------
(* The theorems.                                                           *)

LEMMA TypedInit ==
  ASSUME ConstantsOK, Init
  PROVE  Typed
<1>1. /\ HostMod \in Nat \ {0} /\ Bytes \in Nat \ {0} /\ Start \in 0..(HostMod - 1)
      /\ Ahead \in Nat /\ AheadBytes \in Nat /\ Buses \subseteq {"SDIO", "SPI"}
  BY Constants DEF ConstantsOK
<1>2. /\ TxWidth \in Nat \ {0} /\ RxWidth \in Nat \ {0}
      /\ TxWidth <= HostMod /\ RxWidth <= HostMod
      /\ bus # "SPI" => TxWidth = TxMod /\ RxWidth = RxMod
  BY Widths
<1>3. Start % TxWidth \in 0..(TxWidth - 1) /\ Start % RxWidth \in 0..(RxWidth - 1)
  BY <1>1, <1>2, DivMod
<1>4. CallOK
  BY <1>1, IdleOK DEF Init, CallOK, InRegister, Idle, Pcs
<1>5. TypeOK
  <2>1. {sent, sentLatest, got, gotLatest} \subseteq 0..(HostMod - 1)
    BY <1>1, <1>2, <1>3 DEF Init
  <2>2. bus = "SDIO" => sentLatest < TxMod /\ gotLatest < RxMod
    BY <1>2, <1>3 DEF Init
  <2>3. bus \in {"SDIO", "SPI"} /\ late \in BOOLEAN /\ stale = {} /\ adrift = {}
    BY <1>1 DEF Init
  <2>4. /\ call.last \in BOOLEAN /\ 0 <= call.rest /\ call.rest <= call.length
        /\ call.part \in 0..(Bytes - 1)
    BY <1>1, <1>4 DEF CallOK
  <2> QED
    BY <2>1, <2>2, <2>3, <2>4 DEF TypeOK
<1>6. TxCounts /\ RxCounts
  BY <1>1 DEF Init, TxCounts, RxCounts
<1> QED
  BY <1>4, <1>5, <1>6 DEF Init, Typed

LEMMA AgreesInit ==
  ASSUME ConstantsOK, Init
  PROVE  TxAgrees /\ TxReads /\ RxAgrees /\ RxReads
<1>1. HostMod \in Nat \ {0} /\ Start \in Nat /\ Start \in 0..(HostMod - 1)
  BY Constants DEF ConstantsOK
<1>2. call.pc = "idle"
  BY DEF Init, Idle
<1>3. TxPledged = 0 /\ RxPledged = 0
  BY <1>2 DEF TxPledged, RxPledged
<1>4. Start % HostMod = Start
  BY <1>1, SmallMod
<1>5. Start <= Start /\ Start \in (Start + 0)..Start
  BY <1>1
<1>6. TxAgrees /\ RxAgrees
  BY <1>3, <1>4, <1>5 DEF Init, TxAgrees, RxAgrees, Latest
<1>7. TxReads /\ RxReads
  BY <1>2 DEF TxReads, RxReads
<1> QED
  BY <1>6, <1>7

\* The counters, the readings and the call keep their types and widths, and the
\* slave never has more loaded or produced than it may be ahead
\* (essl_sdio.c, essl_spi.c: what the host adds and takes over).
THEOREM TypeCorrect ==
  ASSUME ConstantsOK
  PROVE  Spec => []TypeOK
<1>1. Init => Typed
  BY TypedInit
<1>2. Typed /\ [Next]_vars => Typed'
  BY TypedStep
<1>3. Typed => TypeOK
  BY DEF Typed
<1> QED
  BY <1>1, <1>2, <1>3, PTL DEF Spec

\* Host and slave keep the same count of buffers and bytes, and the latest
\* reading of a register covers what the call in progress still uses.
THEOREM CountsAgree ==
  ASSUME ConstantsOK, Gradual
  PROVE  Spec => []IInv
<1>1. Init => IInv
  BY TypedInit, AgreesInit DEF IInv
<1>2. IInv /\ [Next]_vars => IInv'
  <2> SUFFICES ASSUME IInv, [Next]_vars PROVE IInv'
    OBVIOUS
  <2>1. Typed /\ TxAgrees /\ TxReads /\ RxAgrees /\ RxReads
    BY DEF IInv
  <2>2. Typed'
    BY <2>1, TypedStep
  <2>3. TxAgrees' /\ TxReads' /\ RxAgrees' /\ RxReads'
    BY <2>1, <2>2, TxStep, RxStep
  <2> QED
    BY <2>2, <2>3 DEF IInv
<1> QED
  BY <1>1, <1>2, PTL DEF Spec

\* Flow control of the way out, for every width, buffer size and slave that is
\* ahead by at most what the registers tell apart: the host never fills a buffer
\* the slave has not loaded.
THEOREM NoOverrun ==
  ASSUME ConstantsOK, Gradual
  PROVE  Spec => []NeverOverrun
<1>1. IInv => NeverOverrun
  BY DEF IInv, TxAgrees, NeverOverrun
<1> QED
  BY <1>1, CountsAgree, PTL

\* Flow control of the way back: the host never reads bytes the slave has not
\* produced.
THEOREM NoUnderrun ==
  ASSUME ConstantsOK, Gradual
  PROVE  Spec => []NeverUnderrun
<1>1. IInv => NeverUnderrun
  BY DEF IInv, RxAgrees, NeverUnderrun
<1> QED
  BY <1>1, CountsAgree, PTL

=============================================================================
