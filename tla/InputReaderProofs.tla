-------------------------- MODULE InputReaderProofs --------------------------
(***************************************************************************)
(* Proofs about InputReader, for every width of the integers, every        *)
(* calibration report and every measurement.                               *)
(***************************************************************************)
EXTENDS InputReader, TLAPS

(* A reader that has its calibration has a scale for every axis.           *)
ScaleInv ==
  /\ calibrated => gyro.denom # 0 /\ accel.denom # 0
  /\ step = "crashed" => ~calibrated

(* The sanity checks leave no axis with a denominator of zero.             *)
LEMMA SaneScales ==
  /\ \A plus, minus, bias, sp, sm \in CalValues :
       GyroScale(plus, minus, bias, sp, sm).denom # 0
  /\ \A plus, minus \in CalValues : AccelScale(plus, minus).denom # 0
<1>1. Int16Max # 0
  BY ReaderAssumption
<1>2. ASSUME NEW n, NEW d, NEW range
      PROVE  Sane([numer |-> n, denom |-> d], range).denom # 0
  BY <1>1 DEF Sane
<1> QED
  BY <1>2 DEF GyroScale, AccelScale

(* Whatever calibration a DualSense reports, printing its state divides by *)
(* no zero (input_reader.cc, the sanity checks of                          *)
(* GetControllerCalibrationData and the divisions of mult_frac).           *)
THEOREM ReaderDividesOnceCalibrated == Spec => []DividesOnceCalibrated
<1>1. Init => ScaleInv
  BY DEF Init, ScaleInv
<1>2. ScaleInv /\ [Next]_vars => ScaleInv'
  <2> SUFFICES ASSUME ScaleInv, [Next]_vars
               PROVE  ScaleInv'
    OBVIOUS
  <2>1. CASE open_and_init
    <3>1. step' # "crashed"
      BY <2>1 DEF open_and_init, AfterCall
    <3> QED
      BY <2>1, <3>1 DEF open_and_init, ScaleInv
  <2>2. CASE GetControllerCalibrationData
    <3>1. step' # "crashed"
      BY <2>2 DEF GetControllerCalibrationData
    <3>2. CASE UNCHANGED <<gyro, accel, calibrated>>
      BY <3>1, <3>2 DEF ScaleInv
    <3>3. CASE /\ \E plus, minus, bias, sp, sm \in CalValues :
                    gyro' = GyroScale(plus, minus, bias, sp, sm)
               /\ \E plus, minus \in CalValues : accel' = AccelScale(plus, minus)
      BY <3>1, <3>3, SaneScales DEF ScaleInv
    <3> QED
      BY <2>2, <3>2, <3>3 DEF GetControllerCalibrationData
  <2>3. CASE GetControllerMacAll \/ GetControllerVersion
    BY <2>3 DEF GetControllerMacAll, GetControllerVersion, ScaleInv
  <2>4. CASE dispatch
    <3>1. UNCHANGED <<gyro, accel, calibrated>> /\ step = "valid"
      BY <2>4 DEF dispatch
    <3>2. step' = step \/ gyro.denom = 0 \/ accel.denom = 0
      BY <2>4 DEF dispatch, DualSenseReport, XboxReport, HoripadReport,
         PrintControllerStateUsb
    <3> QED
      BY <3>1, <3>2 DEF ScaleInv
  <2>5. CASE UNCHANGED vars
    BY <2>5 DEF vars, ScaleInv
  <2> QED
    BY <2>1, <2>2, <2>3, <2>4, <2>5 DEF Next
<1>3. ScaleInv => DividesOnceCalibrated
  BY DEF ScaleInv, DividesOnceCalibrated
<1> QED
  BY <1>1, <1>2, <1>3, PTL DEF Spec
-----------------------------------------------------------------------------
(* Products of naturals are monotone.                                      *)
LEMMA ProductGrows ==
  ASSUME NEW a \in Nat, NEW b \in Nat, NEW c \in Nat, a <= b
  PROVE  a * c <= b * c /\ c * a <= c * b /\ a * c \in Nat
OBVIOUS

(* The remainder of what lies one modulus outside.                         *)
LEMMA ModOutside ==
  ASSUME NEW b \in Nat \ {0}, NEW a \in 0..b - 1
  PROVE  (a + b) % b = a /\ (a - b) % b = a
OBVIOUS

(* What division of naturals returns, and that nothing else does.          *)
LEMMA DivisionMeans ==
  ASSUME NEW a \in Nat, NEW d \in Nat \ {0}
  PROVE  /\ a \div d \in Nat
         /\ \E u \in 0..d - 1 : a = d * (a \div d) + u
OBVIOUS

LEMMA DivisionIs ==
  ASSUME NEW d \in Nat \ {0}, NEW k \in Nat, NEW u \in 0..d - 1
  PROVE  (d * k + u) \div d = k
OBVIOUS

(* The remainder of what is smaller than the modulus, and of anything      *)
(* else.                                                                   *)
LEMMA ModIs ==
  ASSUME NEW b \in Nat \ {0}, NEW a \in 0..b - 1
  PROVE  a % b = a
OBVIOUS

LEMMA ModIn ==
  ASSUME NEW b \in Nat \ {0}, NEW a \in Int
  PROVE  a % b \in 0..b - 1
OBVIOUS

(* x * n / d can be computed from the quotient and the remainder of x.     *)
LEMMA DivisionSplits ==
  ASSUME NEW x \in Nat, NEW n \in Nat, NEW d \in Nat \ {0}
  PROVE  /\ x - d * (x \div d) \in 0..d - 1
         /\ (x * n) \div d = (x \div d) * n + ((x - d * (x \div d)) * n) \div d
<1>1. PICK u \in 0..d - 1 : x = d * (x \div d) + u
  BY DivisionMeans
<1>2. PICK q \in Nat : q = x \div d
  BY DivisionMeans
<1>3. u \in Nat /\ x = d * q + u /\ x - d * q = u
  BY <1>1, <1>2
<1>4. u * n \in Nat
  BY <1>3
<1>5. PICK t \in Nat : t = (u * n) \div d
  BY <1>4, DivisionMeans
<1>6. PICK w \in 0..d - 1 : u * n = d * t + w
  BY <1>4, <1>5, DivisionMeans
<1>7. x * n = d * (q * n + t) + w
  <2>1. x * n = d * (q * n) + u * n
    BY <1>3
  <2>2. d * (q * n + t) = d * (q * n) + d * t
    OBVIOUS
  <2>3. d * (q * n) \in Int /\ d * t \in Int /\ u * n \in Int
    OBVIOUS
  <2> QED
    BY <1>6, <2>1, <2>2, <2>3
<1>8. q * n + t \in Nat
  OBVIOUS
<1>9. (x * n) \div d = q * n + t
  BY <1>7, <1>8, DivisionIs
<1> QED
  BY <1>2, <1>3, <1>5, <1>9

(* What fits into 32 bits: any field, and the product of a remainder and a *)
(* measurement.                                                            *)
LEMMA Widths ==
  /\ Int16Max \in Nat /\ Int32Max \in Nat
  /\ (2 * Int16Max + 1) * (Int16Max + 1) <= Int32Max
  /\ 2 * Int16Max + 1 <= Int32Max /\ Int16Max + 1 <= Int32Max
<1> DEFINE m == Int16Max + 1
<1>1. Int16Max \in Nat \ {0} /\ m \in Nat /\ m >= 2
  BY ReaderAssumption
<1>2. m * m \in Nat /\ 2 * m <= m * m
  BY <1>1, ProductGrows
<1>3. Int32Max = 2 * (m * m) - 1
  BY <1>1 DEF Int32Max
<1>4. (2 * Int16Max + 1) * (Int16Max + 1) = 2 * (m * m) - m
  BY <1>1
<1> QED
  BY <1>1, <1>2, <1>3, <1>4

(* Twice as wide a denominator still leaves the product below 2^32.        *)
LEMMA WideWidths ==
  /\ (4 * Int16Max + 1) * (Int16Max + 1) <= 2 * Int32Max + 1
  /\ 4 * Int16Max + 2 <= Int32Max + 1
<1> DEFINE m == Int16Max + 1
<1>1. Int16Max \in Nat \ {0} /\ m \in Nat /\ m >= 2
  BY ReaderAssumption
<1>2. m * m \in Nat /\ 2 * m <= m * m
  BY <1>1, ProductGrows
<1>3. Int32Max = 2 * (m * m) - 1
  BY <1>1 DEF Int32Max
<1>4. (4 * Int16Max + 1) * (Int16Max + 1) = 4 * (m * m) - 3 * m
  BY <1>1
<1> QED
  BY <1>1, <1>2, <1>3, <1>4

(* Wrapping around keeps what fits.                                        *)
LEMMA WrapIn ==
  ASSUME NEW i \in Int
  PROVE  Wrap(i) \in Int32 /\ (i \in Int32 => Wrap(i) = i)
<1> DEFINE b == 2 * Int32Max + 2
           a == i + Int32Max + 1
<1>1. Int32Max \in Nat /\ b \in Nat \ {0} /\ a \in Int
  BY Widths
<1>2. Wrap(i) = (a % b) - (Int32Max + 1) /\ (i \in Int32 <=> i \in -Int32Max - 1 .. Int32Max)
  BY DEF Wrap, Int32
<1>3. a % b \in 0..b - 1
  BY <1>1, ModIn
<1>4. a \in 0..b - 1 => a % b = a
  BY <1>1, ModIs
<1>5. (a % b) - (Int32Max + 1) \in -Int32Max - 1 .. Int32Max
  BY <1>1, <1>3
<1>6. i \in -Int32Max - 1 .. Int32Max => a \in 0..b - 1 /\ a - (Int32Max + 1) = i
  BY <1>1
<1> QED
  BY <1>2, <1>4, <1>5, <1>6 DEF Int32

(* What is less than 2^32 too large or too small comes out 2^32 away.      *)
LEMMA WrapOut ==
  ASSUME NEW z \in Int32Max + 1 .. 2 * Int32Max + 1
  PROVE  /\ Wrap(z) = z - (2 * Int32Max + 2)
         /\ z # Int32Max + 1 => Wrap(-z) = (2 * Int32Max + 2) - z
<1>1. Int32Max \in Nat
  BY Widths
<1>2. PICK b \in Nat \ {0} : b = 2 * Int32Max + 2
  BY <1>1
<1>3. PICK u \in 0..b - 1 : u = z - Int32Max - 1
  BY <1>1, <1>2
<1>4. (u + b) % b = u
  BY ModOutside
<1>5. z + Int32Max + 1 = u + b
  BY <1>1, <1>2, <1>3
<1>6. Wrap(z) = u - (Int32Max + 1)
  BY <1>2, <1>4, <1>5 DEF Wrap
<1>7. Wrap(z) = z - (2 * Int32Max + 2)
  BY <1>1, <1>3, <1>6
<1>8. ASSUME z # Int32Max + 1 PROVE Wrap(-z) = (2 * Int32Max + 2) - z
  <2>1. PICK w \in 0..b - 1 : w = b - z + Int32Max + 1
    BY <1>1, <1>2, <1>8
  <2>2. (w - b) % b = w
    BY ModOutside
  <2>3. -z + Int32Max + 1 = w - b
    BY <1>1, <1>2, <2>1
  <2>4. Wrap(-z) = w - (Int32Max + 1)
    BY <1>2, <2>2, <2>3 DEF Wrap
  <2> QED
    BY <1>1, <1>2, <2>1, <2>4
<1> QED
  BY <1>7, <1>8

(* x * n / d by absolute values.                                           *)
Signed(x, n, d) ==
  IF (n < 0) = (d < 0) THEN (x * Abs(n)) \div Abs(d) ELSE -((x * Abs(n)) \div Abs(d))

(* Division towards zero divides the absolute values; the sign is          *)
(* separate.                                                               *)
LEMMA SignedQuotient ==
  ASSUME NEW x \in Nat, NEW n \in Int, NEW d \in Int \ {0}
  PROVE  Quotient(x * n, d) = Signed(x, n, d)
<1>1. Abs(n) \in Nat /\ Abs(d) \in Nat \ {0}
  BY DEF Abs
<1>2. x * n \in Int /\ Abs(x * n) = x * Abs(n)
  BY DEF Abs
<1>3. CASE x = 0
  <2>1. x * n = 0 /\ x * Abs(n) = 0 /\ Abs(0) = 0
    BY <1>1, <1>3 DEF Abs
  <2>2. 0 \div Abs(d) = 0
    BY <1>1
  <2> QED
    BY <1>1, <2>1, <2>2 DEF Quotient, Signed
<1>4. CASE x # 0
  <2>1. (x * n < 0) = (n < 0)
    BY <1>4
  <2> QED
    BY <1>1, <1>2, <2>1 DEF Quotient, Signed
<1> QED
  BY <1>3, <1>4

(* Where the exact quotient fits into 32 bits, mult_frac() returns it if   *)
(* and only if the product of the remainder and the measurement fits too:  *)
(* the other intermediate results never overflow, rounding twice rounds no *)
(* further than rounding once, and an overflowing product has the wrong    *)
(* sign.  The denominator may be as wide as two distances of 16-bit fields *)
(* (input_reader.cc, mult_frac and GetControllerCalibrationData).          *)
THEOREM MultFracExact ==
  ASSUME NEW x \in Nat, NEW n \in Int, NEW d \in Int \ {0},
         Abs(n) <= Int16Max + 1, Abs(d) <= 4 * Int16Max + 2, Quotient(x * n, d) \in Int32
  PROVE  mult_frac(x, n, d) = Quotient(x * n, d) <=> Remainder(x, d) * n \in Int32
<1> DEFINE S == (n < 0) = (d < 0)
<1>1. PICK N \in Nat : N = Abs(n)
  BY DEF Abs
<1>2. PICK D \in Nat \ {0} : D = Abs(d)
  BY DEF Abs
<1>3. PICK Q \in Nat : Q = x \div D
  BY DivisionMeans
<1>4. PICK R \in 0..D - 1 : R = x - D * Q
  BY <1>3, DivisionSplits
<1>5. R * N \in Nat
  BY <1>4
<1>6. PICK T \in Nat : T = (R * N) \div D
  BY <1>5, DivisionMeans
<1>7. (x * N) \div D = Q * N + T
  <2>1. (x * N) \div D = (x \div D) * N + ((x - D * (x \div D)) * N) \div D
    BY DivisionSplits
  <2> QED
    BY <1>3, <1>4, <1>6, <2>1, Zenon
<1>8. Quotient(x, d) = (IF d < 0 THEN -Q ELSE Q) /\ Remainder(x, d) = R
  <2>1. Quotient(x, d) = IF d < 0 THEN -Q ELSE Q
    BY <1>2, <1>3 DEF Quotient, Abs
  <2>2. d * Quotient(x, d) = D * Q
    BY <1>2, <2>1 DEF Abs
  <2> QED
    BY <1>4, <2>1, <2>2 DEF Remainder
<1>9. Quotient(x * n, d) = IF S THEN Q * N + T ELSE -(Q * N + T)
  <2>1. Quotient(x * n, d) = Signed(x, n, d)
    BY SignedQuotient
  <2> QED
    BY <1>1, <1>2, <1>7, <2>1 DEF Signed
<1>10. Quotient(R * n, d) = IF S THEN T ELSE -T
  <2>1. R \in Nat
    BY <1>4
  <2>2. Quotient(R * n, d) = Signed(R, n, d)
    BY <2>1, SignedQuotient
  <2> QED
    BY <1>1, <1>2, <1>6, <2>2 DEF Signed
<1>11. Quotient(x, d) * n = IF S THEN Q * N ELSE -(Q * N)
  BY <1>1, <1>8 DEF Abs
<1>12. PICK P \in Nat : P = Q * N
  OBVIOUS
<1>13. (IF S THEN P + T ELSE -(P + T)) \in Int32
  BY <1>9, <1>12
<1>14. Wrap(Quotient(x, d) * n) = IF S THEN P ELSE -P
  <2>1. (IF S THEN P ELSE -P) \in Int32
    BY <1>13, Widths DEF Int32
  <2> QED
    BY <1>11, <1>12, <2>1, WrapIn DEF Int32
<1>15. ASSUME R * n \in Int32
       PROVE  mult_frac(x, n, d) = Quotient(x * n, d)
  <2>1. Wrap(R * n) = R * n
    BY <1>15, WrapIn DEF Int32
  <2>2. mult_frac(x, n, d) = Wrap((IF S THEN P ELSE -P) + (IF S THEN T ELSE -T))
    BY <1>8, <1>10, <1>14, <2>1 DEF mult_frac
  <2>3. (IF S THEN P ELSE -P) + (IF S THEN T ELSE -T) = IF S THEN P + T ELSE -(P + T)
    OBVIOUS
  <2> QED
    BY <1>9, <1>12, <1>13, <2>2, <2>3, WrapIn DEF Int32
<1>16. ASSUME R * n \notin Int32
       PROVE  mult_frac(x, n, d) # Quotient(x * n, d)
  <2> DEFINE b == 2 * Int32Max + 2
  <2>1. PICK Z \in Nat : Z = R * N
    BY <1>5
  <2>2. R * n = IF n < 0 THEN -Z ELSE Z
    BY <1>1, <2>1 DEF Abs
  <2>3. Z \in Int32Max + 1 .. 2 * Int32Max + 1 /\ (n < 0 => Z # Int32Max + 1)
    <3>1. R <= 4 * Int16Max + 1 /\ N <= Int16Max + 1 /\ R \in Nat /\ Int16Max \in Nat
      BY <1>1, <1>2, <1>4, Widths
    <3>2. R * N <= (4 * Int16Max + 1) * N
      BY <3>1, ProductGrows
    <3>3. (4 * Int16Max + 1) * N <= (4 * Int16Max + 1) * (Int16Max + 1)
      BY <3>1, ProductGrows
    <3>4. Z <= 2 * Int32Max + 1
      BY <2>1, <3>1, <3>2, <3>3, Widths, WideWidths
    <3>5. Z >= Int32Max + 1 /\ (n < 0 => Z # Int32Max + 1)
      BY <1>16, <2>1, <2>2, Widths DEF Int32
    <3> QED
      BY <2>1, <3>4, <3>5, Widths
  <2>4. PICK V \in 1..Int32Max + 1 : V = b - Z
    BY <2>3, Widths
  <2>5. PICK s \in {-1, 1} : (s < 0) = ~(n < 0) /\ Wrap(R * n) = V * s
    <3>1. CASE n < 0
      <4>1. Wrap(R * n) = V * 1
        <5>1. Wrap(-Z) = b - Z
          BY <2>3, <3>1, WrapOut
        <5>2. R * n = -Z /\ V * 1 = V
          BY <2>2, <2>4, <3>1, Widths
        <5> QED
          BY <2>4, <5>1, <5>2, Zenon
      <4> QED
        BY <3>1, <4>1
    <3>2. CASE ~(n < 0)
      <4>1. Wrap(R * n) = -V
        BY <2>2, <2>3, <2>4, <3>2, WrapOut, Widths
      <4> QED
        BY <3>2, <4>1
    <3> QED
      BY <3>1, <3>2
  <2>6. V \in Nat /\ s \in Int /\ Abs(s) = 1 /\ V * 1 = V
    BY <2>4, <2>5, Widths DEF Abs
  <2>7. PICK Y \in Nat : Y = V \div D
    BY <2>6, DivisionMeans
  <2>8. Quotient(V * s, d) = IF S THEN -Y ELSE Y
    <3>1. Quotient(V * s, d) = Signed(V, s, d)
      BY <2>6, SignedQuotient
    <3> QED
      BY <1>2, <2>5, <2>6, <2>7, <3>1 DEF Signed
  <2>9. D >= 2 /\ D <= Int32Max + 1
    <3>1. R # 0
      <4>1. R = 0 => R * N = 0
        OBVIOUS
      <4> QED
        BY <2>1, <2>3, <4>1, Widths
    <3> QED
      BY <1>2, <1>4, <3>1, Widths, WideWidths
  <2>10. 2 * Y <= Int32Max + 1
    <3>1. PICK u \in 0..D - 1 : V = D * Y + u
      BY <2>6, <2>7, DivisionMeans
    <3>2. 2 * Y <= D * Y
      BY <2>9, ProductGrows
    <3> QED
      BY <2>4, <3>1, <3>2, Widths
  <2>11. T >= 1
    <3>1. PICK u \in 0..D - 1 : Z = D * T + u
      BY <1>5, <1>6, <2>1, DivisionMeans
    <3>2. T = 0 => D * T = 0
      OBVIOUS
    <3> QED
      BY <2>3, <2>9, <3>1, <3>2, Widths
  <2>12. (IF S THEN P - Y ELSE -(P - Y)) \in Int32
    BY <1>13, <2>10, Widths DEF Int32
  <2>13. mult_frac(x, n, d) = Wrap((IF S THEN P ELSE -P) + (IF S THEN -Y ELSE Y))
    BY <1>8, <1>14, <2>5, <2>8 DEF mult_frac
  <2>14. (IF S THEN P ELSE -P) + (IF S THEN -Y ELSE Y) = IF S THEN P - Y ELSE -(P - Y)
    OBVIOUS
  <2>15. mult_frac(x, n, d) = IF S THEN P - Y ELSE -(P - Y)
    BY <2>12, <2>13, <2>14, WrapIn DEF Int32
  <2> QED
    BY <1>9, <1>12, <2>11, <2>15
<1> QED
  BY <1>8, <1>15, <1>16

(* With a denominator no wider than a field the product always fits.       *)
LEMMA NarrowFits ==
  ASSUME NEW x \in Nat, NEW n \in Int, NEW d \in Int \ {0},
         Abs(n) <= Int16Max + 1, Abs(d) <= 2 * Int16Max + 2
  PROVE  Remainder(x, d) * n \in Int32
<1>1. PICK N \in Nat : N = Abs(n)
  BY DEF Abs
<1>2. PICK D \in Nat \ {0} : D = Abs(d)
  BY DEF Abs
<1>3. PICK Q \in Nat : Q = x \div D
  BY DivisionMeans
<1>4. PICK R \in 0..D - 1 : R = x - D * Q
  BY <1>3, DivisionSplits
<1>5. Remainder(x, d) = R
  <2>1. Quotient(x, d) = IF d < 0 THEN -Q ELSE Q
    BY <1>2, <1>3 DEF Quotient, Abs
  <2>2. d * Quotient(x, d) = D * Q
    BY <1>2, <2>1 DEF Abs
  <2> QED
    BY <1>4, <2>1, <2>2 DEF Remainder
<1>6. R <= 2 * Int16Max + 1 /\ N <= Int16Max + 1 /\ R \in Nat /\ Int16Max \in Nat
  BY <1>1, <1>2, <1>4, Widths
<1>7. R * N <= (2 * Int16Max + 1) * N /\ R * N \in Nat
  BY <1>6, ProductGrows
<1>8. (2 * Int16Max + 1) * N <= (2 * Int16Max + 1) * (Int16Max + 1)
  BY <1>6, ProductGrows
<1>9. R * N <= Int32Max
  BY <1>6, <1>7, <1>8, Widths
<1>10. R * n = R * N \/ R * n = -(R * N)
  BY <1>1, <1>6 DEF Abs
<1> QED
  BY <1>5, <1>7, <1>9, <1>10, Widths DEF Int32

-----------------------------------------------------------------------------
(* A scaled measurement is a 32-bit integer.                               *)
LEMMA MultFracIn ==
  ASSUME NEW x \in Int, NEW n \in Int, NEW d \in Int \ {0}
  PROVE  mult_frac(x, n, d) \in Int32
<1>1. \A a \in Int : Quotient(a, d) \in Int
  <2> SUFFICES ASSUME NEW a \in Int PROVE Quotient(a, d) \in Int
    OBVIOUS
  <2>1. Abs(a) \in Nat /\ Abs(d) \in Nat \ {0}
    BY DEF Abs
  <2>2. Abs(a) \div Abs(d) \in Nat
    BY <2>1, DivisionMeans
  <2> QED
    BY <2>2 DEF Quotient
<1>2. Remainder(x, d) \in Int
  BY <1>1 DEF Remainder
<1>3. Wrap(Quotient(x, d) * n) \in Int /\ Wrap(Remainder(x, d) * n) \in Int
  BY <1>1, <1>2, WrapIn, Widths DEF Int32
<1>4. Wrap(Quotient(x, d) * n) + Quotient(Wrap(Remainder(x, d) * n), d) \in Int
  BY <1>1, <1>3
<1> QED
  BY <1>4, WrapIn DEF mult_frac

(* What a calibration report makes of an axis.                             *)
LEMMA ScaleType ==
  /\ \A plus, minus, bias, sp, sm \in CalValues :
       GyroScale(plus, minus, bias, sp, sm) \in [numer : Nat, denom : Nat]
  /\ \A plus, minus \in CalValues : AccelScale(plus, minus) \in [numer : Nat, denom : Int]
<1>1. \A v \in CalValues : v \in Nat
  BY ReaderAssumption DEF UInt16
<1>2. Int16Max \in Nat /\ AccRes \in Nat /\ GyroRes \in Nat /\ GyroSpan \in Nat
  BY ReaderAssumption
<1>3. ASSUME NEW plus \in CalValues, NEW minus \in CalValues, NEW bias \in CalValues,
             NEW sp \in CalValues, NEW sm \in CalValues
      PROVE  GyroScale(plus, minus, bias, sp, sm) \in [numer : Nat, denom : Nat]
  <2>1. /\ (sp + sm) * GyroRes \in Nat /\ GyroSpan * GyroRes \in Nat
        /\ Abs(plus - bias) + Abs(minus - bias) \in Nat
    BY <1>1, <1>2 DEF Abs
  <2> QED
    BY <1>2, <2>1 DEF GyroScale, Sane
<1>4. ASSUME NEW plus \in CalValues, NEW minus \in CalValues
      PROVE  AccelScale(plus, minus) \in [numer : Nat, denom : Int]
  <2>1. 2 * AccRes \in Nat /\ 4 * AccRes \in Nat /\ plus - minus \in Int
    BY <1>1, <1>2
  <2> QED
    BY <1>2, <2>1 DEF AccelScale, Sane
<1> QED
  BY <1>3, <1>4

(* How wide the denominators are: a distance of two fields for the         *)
(* accelerometer, the sum of two for the gyroscope.                        *)
LEMMA ScaleWidth ==
  /\ \A plus, minus, bias, sp, sm \in CalValues :
       GyroScale(plus, minus, bias, sp, sm).denom <= 4 * Int16Max + 2
  /\ \A plus, minus \in CalValues : Abs(AccelScale(plus, minus).denom) <= 2 * Int16Max + 2
<1>1. Int16Max \in Nat /\ \A v \in CalValues : v \in Nat /\ v <= 2 * Int16Max + 1
  BY ReaderAssumption DEF UInt16
<1>2. ASSUME NEW plus \in CalValues, NEW minus \in CalValues, NEW bias \in CalValues,
             NEW sp \in CalValues, NEW sm \in CalValues
      PROVE  GyroScale(plus, minus, bias, sp, sm).denom <= 4 * Int16Max + 2
  <2>1. Abs(plus - bias) + Abs(minus - bias) <= 4 * Int16Max + 2
    BY <1>1 DEF Abs
  <2> QED
    BY <1>1, <2>1 DEF GyroScale, Sane
<1>3. ASSUME NEW plus \in CalValues, NEW minus \in CalValues
      PROVE  Abs(AccelScale(plus, minus).denom) <= 2 * Int16Max + 2
  <2>1. Abs(plus - minus) <= 2 * Int16Max + 2 /\ Abs(Int16Max) <= 2 * Int16Max + 2
    BY <1>1 DEF Abs
  <2> QED
    BY <2>1 DEF AccelScale, Sane
<1> QED
  BY <1>2, <1>3

(* PrintsState of one value shown: of the accelerometer, and of the        *)
(* gyroscope.                                                              *)
ShowsAccel(v, c, n) == Calibrated(c, n) \in Int32 => v = Calibrated(c, n)
ShowsGyro(v, c, n) ==
  Calibrated(c, n) \in Int32 => (v = Calibrated(c, n) <=> NoOverflow(c, n))

(* Nothing is printed before the reader is valid; what is printed then is  *)
(* what was sent, with scales as wide as a calibration report makes them.  *)
PrintInv ==
  /\ TypeOK /\ PrintsState
  /\ gyro.denom <= 4 * Int16Max + 2 /\ Abs(accel.denom) <= 2 * Int16Max + 2
  /\ step \notin {"valid", "crashed"} => printed = None

(* A scaled measurement is exact as far as 32 bits hold it and, for the    *)
(* gyroscope, the product inside mult_frac().                              *)
LEMMA ScaledMeasure ==
  ASSUME NEW c, c.numer \in Nat, c.denom \in Int \ {0}, NEW n \in RawValues
  PROVE  /\ Abs(c.denom) <= 2 * Int16Max + 2 => ShowsAccel(mult_frac(c.numer, n, c.denom), c, n)
         /\ Abs(c.denom) <= 4 * Int16Max + 2 => ShowsGyro(mult_frac(c.numer, n, c.denom), c, n)
<1>1. n \in Int /\ Abs(n) <= Int16Max + 1
  BY ReaderAssumption DEF Int16, Abs
<1>2. Int16Max \in Nat
  BY Widths
<1>3. PICK x \in Nat, d \in Int \ {0} : x = c.numer /\ d = c.denom
  OBVIOUS
<1>4. ASSUME Abs(d) <= 4 * Int16Max + 2, Quotient(x * n, d) \in Int32
      PROVE  mult_frac(x, n, d) = Quotient(x * n, d) <=> Remainder(x, d) * n \in Int32
  BY <1>1, <1>4, MultFracExact
<1>5. Abs(d) <= 4 * Int16Max + 2 => ShowsGyro(mult_frac(c.numer, n, c.denom), c, n)
  BY <1>3, <1>4, Zenon DEF ShowsGyro, Calibrated, NoOverflow
<1>6. ASSUME Abs(d) <= 2 * Int16Max + 2
      PROVE  Abs(d) <= 4 * Int16Max + 2 /\ Remainder(x, d) * n \in Int32
  <2>1. Abs(d) <= 4 * Int16Max + 2
    BY <1>2, <1>6 DEF Abs
  <2>2. Remainder(x, d) * n \in Int32
    BY <1>1, <1>6, NarrowFits
  <2> QED
    BY <2>1, <2>2
<1>7. Abs(d) <= 2 * Int16Max + 2 => ShowsAccel(mult_frac(c.numer, n, c.denom), c, n)
  BY <1>3, <1>4, <1>6, Zenon DEF ShowsAccel, Calibrated
<1> QED
  BY <1>3, <1>5, <1>7, Zenon

(* What a report shows, as the invariant says it: of the motion sensors    *)
(* when they are calibrated, and of the other controllers.                 *)
LEMMA StateShown ==
  ASSUME NEW id \in {1, 49}, NEW sent, NEW state, NEW g \in [numer : Nat, denom : Nat],
         NEW a \in [numer : Nat, denom : Int], g.denom # 0, a.denom # 0,
         g.denom <= 4 * Int16Max + 2, Abs(a.denom) <= 2 * Int16Max + 2,
         state[1] \in Int32, state[2] \in Int, state[3] \in Int,
         id = 49 => /\ sent[1] = state[1] /\ sent[2] = state[2] /\ sent[3] = state[3]
                    /\ state[2] \in RawValues /\ state[3] \in RawValues,
         NEW p, p = [id |-> id, sent |-> sent,
                     shown |-> <<state[1], mult_frac(g.numer, state[2], g.denom),
                                 mult_frac(a.numer, state[3], a.denom)>>]
  PROVE  /\ p.id \in Nat /\ \A i \in DOMAIN p.shown : p.shown[i] \in Int32
         /\ p.id = 49 => /\ p.shown[1] = p.sent[1]
                         /\ ShowsGyro(p.shown[2], g, p.sent[2])
                         /\ ShowsAccel(p.shown[3], a, p.sent[3])
<1>1. /\ g.numer \in Nat /\ g.denom \in Int \ {0}
      /\ a.numer \in Nat /\ a.denom \in Int \ {0}
  OBVIOUS
<1>2. PICK u \in Int32 : u = mult_frac(g.numer, state[2], g.denom)
  BY <1>1, MultFracIn
<1>3. PICK v \in Int32 : v = mult_frac(a.numer, state[3], a.denom)
  BY <1>1, MultFracIn
<1>4. p = [id |-> id, sent |-> sent, shown |-> <<state[1], u, v>>]
  BY <1>2, <1>3
<1>5. p.id = id /\ p.sent = sent /\ p.shown = <<state[1], u, v>>
  BY <1>4
<1>6. \A i \in DOMAIN <<state[1], u, v>> : <<state[1], u, v>>[i] \in Int32
  OBVIOUS
<1>7. <<state[1], u, v>>[1] = state[1] /\ <<state[1], u, v>>[2] = u /\ <<state[1], u, v>>[3] = v
  OBVIOUS
<1>8. ASSUME id = 49 PROVE ShowsGyro(u, g, state[2]) /\ ShowsAccel(v, a, state[3])
  <2>1. Abs(g.denom) <= 4 * Int16Max + 2
    BY DEF Abs
  <2>2. ShowsGyro(mult_frac(g.numer, state[2], g.denom), g, state[2])
    BY <1>1, <1>8, <2>1, ScaledMeasure
  <2>3. ShowsAccel(mult_frac(a.numer, state[3], a.denom), a, state[3])
    BY <1>1, <1>8, ScaledMeasure
  <2> QED
    BY <1>2, <1>3, <2>2, <2>3, Zenon
<1> QED
  BY <1>5, <1>6, <1>7, <1>8

(* A report of two units, as the other controllers send it.                *)
LEMMA FieldsShown ==
  ASSUME NEW id \in 1..48, NEW s \in Sticks
  PROVE  LET p == [id |-> id, sent |-> Tail(<<id, s>>), shown |-> Copied(<<id, s>>, 1, Len(<<id, s>>) - 1)]
         IN /\ p.id \in Nat /\ p.id # 49
            /\ \A i \in DOMAIN p.shown : p.shown[i] \in Int32
<1>1. s \in Int32 /\ s \in Int
  BY ReaderAssumption, Widths DEF UInt16, Int32
<1>2. Tail(<<id, s>>) = <<s>> /\ Len(<<id, s>>) - 1 = 1
  OBVIOUS
<1>3. Copied(<<id, s>>, 1, 1) = <<s>>
  BY <1>1 DEF Copied
<1> QED
  BY <1>1, <1>2, <1>3

(* What a DualSense sends, unit by unit, and what dispatch() copies of it. *)
LEMMA DualSenseUnits ==
  ASSUME NEW buffer \in DualSenseReports, bus \in {"usb", "bluetooth"}, extended \in BOOLEAN
  PROVE  /\ buffer[1] = 1 =>
              /\ Copied(buffer, Offset01, 3)[1] = 1 /\ 1 \in Int32
              /\ Copied(buffer, Offset01, 3)[2] \in Int
              /\ Copied(buffer, Offset01, 3)[3] \in Int
         /\ buffer[1] = 49 /\ buffer[2] = 1 =>
              /\ Copied(buffer, Offset31, 3)[1] \in Int32
              /\ Copied(buffer, Offset31, 3)[2] \in RawValues
              /\ Copied(buffer, Offset31, 3)[3] \in RawValues
              /\ Tail(Tail(buffer))[1] = Copied(buffer, Offset31, 3)[1]
              /\ Tail(Tail(buffer))[2] = Copied(buffer, Offset31, 3)[2]
              /\ Tail(Tail(buffer))[3] = Copied(buffer, Offset31, 3)[3]
<1>1. /\ \A s \in Sticks : s \in Int32 /\ s \in Int
      /\ \A r \in RawValues : r \in Int
      /\ 1 \in Int32
  <2>1. Int16Max \in Nat \ {0}
    BY ReaderAssumption
  <2> QED
    BY <2>1, ReaderAssumption, Widths DEF UInt16, Int16, Int32
<1>2. CASE \E s \in USBGetStateData : buffer = <<1, s[1], s[2], s[3]>>
  <2>1. PICK s \in USBGetStateData : buffer = <<1, s[1], s[2], s[3]>>
    BY <1>2
  <2>2. PICK x \in Sticks, y \in RawValues, z \in RawValues : buffer = <<1, x, y, z>>
    BY <2>1 DEF USBGetStateData
  <2>3. x \in Int /\ y \in Int
    BY <1>1
  <2>4. /\ Copied(buffer, 0, 3)[1] = 1 /\ Copied(buffer, 0, 3)[2] = x
        /\ Copied(buffer, 0, 3)[3] = y /\ buffer[1] # 49
    BY <2>2, <2>3 DEF Copied
  <2> QED
    BY <1>1, <2>3, <2>4 DEF Offset01
<1>3. CASE \E s \in USBGetStateData : buffer = <<49, 1, s[1], s[2], s[3]>>
  <2>1. PICK s \in USBGetStateData : buffer = <<49, 1, s[1], s[2], s[3]>>
    BY <1>3
  <2>2. PICK x \in Sticks, y \in RawValues, z \in RawValues : buffer = <<49, 1, x, y, z>>
    BY <2>1 DEF USBGetStateData
  <2>3. x \in Int /\ y \in Int /\ z \in Int
    BY <1>1
  <2>4. /\ Copied(buffer, 2, 3)[1] = x /\ Copied(buffer, 2, 3)[2] = y
        /\ Copied(buffer, 2, 3)[3] = z /\ buffer[1] # 1
    BY <2>2, <2>3 DEF Copied
  <2>5. Tail(Tail(buffer))[1] = x /\ Tail(Tail(buffer))[2] = y /\ Tail(Tail(buffer))[3] = z
    <3>1. PICK w : w = Tail(Tail(buffer))
      OBVIOUS
    <3>2. w = <<x, y, z>>
      BY <2>2, <2>3, <3>1
    <3>3. w[1] = x /\ w[2] = y /\ w[3] = z
      BY <3>2
    <3> QED
      BY <3>1, <3>3, Zenon
  <2>6. x \in Int32 /\ y \in RawValues /\ z \in RawValues
    BY <1>1
  <2> QED
    BY <2>4, <2>5, <2>6 DEF Offset31
<1>4. CASE buffer = <<49, 2>>
  BY <1>4
<1>5. CASE \E s \in Sticks : buffer = <<1, s>>
  <2>1. PICK s \in Sticks : buffer = <<1, s>>
    BY <1>5
  <2>2. s \in Int
    BY <1>1
  <2>3. /\ Copied(buffer, 0, 3)[1] = 1 /\ Copied(buffer, 0, 3)[2] = s
        /\ Copied(buffer, 0, 3)[3] = 0 /\ buffer[1] # 49
    BY <2>1, <2>2 DEF Copied
  <2> QED
    BY <1>1, <2>2, <2>3 DEF Offset01
<1> QED
  BY <1>2, <1>3, <1>4, <1>5 DEF DualSenseReports

(* The invariant holds initially.                                          *)
LEMMA PrintInit == Init => PrintInv
<1> SUFFICES ASSUME Init PROVE PrintInv
  OBVIOUS
<1>1. printed = None /\ None.id = 0 /\ None.sent = <<>> /\ None.shown = <<>>
  BY DEF Init, None
<1>2. DOMAIN <<>> = {}
  OBVIOUS
<1>3. TypeOK
  <2>1. gyro \in [numer : Nat, denom : Nat] /\ accel \in [numer : Nat, denom : Int]
    BY DEF Init
  <2>2. printed.id \in Nat /\ \A i \in DOMAIN printed.shown : printed.shown[i] \in Int32
    BY <1>1, <1>2
  <2> QED
    BY <2>1, <2>2 DEF Init, TypeOK
<1>4. gyro.denom <= 4 * Int16Max + 2 /\ Abs(accel.denom) <= 2 * Int16Max + 2
  <2>1. gyro.denom = 0 /\ accel.denom = 0
    BY DEF Init
  <2> QED
    BY <2>1, Widths DEF Abs
<1> QED
  BY <1>1, <1>3, <1>4 DEF Init, PrintInv, PrintsState

(* Opening the reader prints nothing.                                      *)
LEMMA PrintOpening ==
  ASSUME PrintInv, open_and_init \/ GetControllerCalibrationData \/ GetControllerMacAll
                     \/ GetControllerVersion
  PROVE  PrintInv'
<1>1. step \notin {"valid", "crashed"}
  BY DEF open_and_init, AfterCall, GetControllerCalibrationData, GetControllerMacAll,
     GetControllerVersion
<1>2. printed' = None /\ printed' = printed /\ model' = model /\ bus' = bus
  BY <1>1 DEF PrintInv, open_and_init, GetControllerCalibrationData, GetControllerMacAll,
     GetControllerVersion, device
<1>3. None.id = 0 /\ None.sent = <<>> /\ None.shown = <<>>
  BY DEF None
<1>4. PrintsState'
  BY <1>2, <1>3 DEF PrintsState
<1>5. gyro' \in [numer : Nat, denom : Nat] /\ accel' \in [numer : Nat, denom : Int]
  <2>1. gyro \in [numer : Nat, denom : Nat] /\ accel \in [numer : Nat, denom : Int]
    BY DEF PrintInv, TypeOK
  <2>2. CASE GetControllerCalibrationData
    <3>1. CASE UNCHANGED <<gyro, accel>>
      BY <2>1, <3>1
    <3>2. CASE /\ \E plus, minus, bias, sp, sm \in CalValues :
                    gyro' = GyroScale(plus, minus, bias, sp, sm)
               /\ \E plus, minus \in CalValues : accel' = AccelScale(plus, minus)
      <4>1. PICK plus, minus, bias, sp, sm \in CalValues :
                   gyro' = GyroScale(plus, minus, bias, sp, sm)
        BY <3>2
      <4>2. gyro' \in [numer : Nat, denom : Nat]
        BY <4>1, ScaleType
      <4>3. PICK high, low \in CalValues : accel' = AccelScale(high, low)
        BY <3>2
      <4>4. accel' \in [numer : Nat, denom : Int]
        BY <4>3, ScaleType
      <4> QED
        BY <4>2, <4>4
    <3> QED
      BY <2>2, <3>1, <3>2 DEF GetControllerCalibrationData
  <2>3. CASE UNCHANGED <<gyro, accel>>
    BY <2>1, <2>3
  <2> QED
    BY <2>2, <2>3 DEF open_and_init, GetControllerMacAll, GetControllerVersion
<1>6. /\ extended' \in BOOLEAN /\ known' \in BOOLEAN /\ calibrated' \in BOOLEAN
      /\ step' \in {"open", "info", "name", "phys", "size", "descriptor", "calibration", "mac",
                    "version", "valid", "invalid", "crashed"}
  <2>1. CASE open_and_init
    BY <2>1 DEF PrintInv, TypeOK, open_and_init, AfterCall
  <2>2. CASE GetControllerCalibrationData
    BY <2>2 DEF PrintInv, TypeOK, GetControllerCalibrationData
  <2>3. CASE GetControllerMacAll \/ GetControllerVersion
    BY <2>3 DEF PrintInv, TypeOK, GetControllerMacAll, GetControllerVersion
  <2> QED
    BY <2>1, <2>2, <2>3
<1>7. TypeOK'
  BY <1>2, <1>5, <1>6 DEF PrintInv, TypeOK
<1>8. gyro'.denom <= 4 * Int16Max + 2 /\ Abs(accel'.denom) <= 2 * Int16Max + 2
  <2>1. CASE UNCHANGED <<gyro, accel>>
    BY <2>1 DEF PrintInv
  <2>2. CASE /\ \E plus, minus, bias, sp, sm \in CalValues :
                  gyro' = GyroScale(plus, minus, bias, sp, sm)
             /\ \E plus, minus \in CalValues : accel' = AccelScale(plus, minus)
    BY <2>2, ScaleWidth
  <2> QED
    BY <2>1, <2>2 DEF open_and_init, GetControllerMacAll, GetControllerVersion,
       GetControllerCalibrationData
<1>9. (gyro.denom <= 4 * Int16Max + 2 /\ Abs(accel.denom) <= 2 * Int16Max + 2)'
  BY <1>8 DEF Abs
<1> QED
  BY <1>2, <1>4, <1>7, <1>9 DEF PrintInv

(* A report keeps the invariant: what it shows is what was sent.           *)
LEMMA PrintDispatch ==
  ASSUME PrintInv, dispatch
  PROVE  PrintInv'
<1>1. /\ step = "valid" /\ UNCHANGED <<model, bus, extended, known, gyro, accel, calibrated>>
      /\ step' \in {"valid", "crashed"}
  BY DEF dispatch, device, DualSenseReport, XboxReport, HoripadReport, PrintControllerStateUsb
<1>2. TypeOK /\ PrintsState
  BY DEF PrintInv
<1>3. PICK g \in [numer : Nat, denom : Nat] : g = gyro /\ g.denom <= 4 * Int16Max + 2
  BY <1>2 DEF TypeOK, PrintInv
<1>4. PICK a \in [numer : Nat, denom : Int] : a = accel /\ Abs(a.denom) <= 2 * Int16Max + 2
  BY <1>2 DEF TypeOK, PrintInv
<1> DEFINE Typed == printed'.id \in Nat /\ \A i \in DOMAIN printed'.shown : printed'.shown[i] \in Int32
           Late == printed'.id = 1 =>
                     (printed'.shown[1] = printed'.sent[1] <=> printed'.sent[1] = 1)
           Shown == printed'.id = 49 =>
                      /\ printed'.shown[1] = printed'.sent[1]
                      /\ ShowsGyro(printed'.shown[2], g, printed'.sent[2])
                      /\ ShowsAccel(printed'.shown[3], a, printed'.sent[3])
<1>5. Typed /\ (model = "dualsense" => Late /\ Shown)
  <2>1. CASE UNCHANGED printed
    BY <1>2, <1>3, <1>4, <2>1 DEF TypeOK, PrintsState, ShowsGyro, ShowsAccel
  <2>2. CASE model = "dualsense" /\ \E buffer \in DualSenseReports : DualSenseReport(buffer)
    <3>1. PICK buffer \in DualSenseReports : DualSenseReport(buffer)
      BY <2>2
    <3>2. bus \in {"usb", "bluetooth"} /\ extended \in BOOLEAN
      BY <1>2 DEF TypeOK
    <3> DEFINE Shows(id, sent, state) ==
          /\ g.denom # 0 /\ a.denom # 0
          /\ printed' = [id |-> id, sent |-> sent,
                         shown |-> <<state[1], mult_frac(g.numer, state[2], g.denom),
                                     mult_frac(a.numer, state[3], a.denom)>>]
    <3>3. CASE buffer[1] = 1 /\ Shows(1, Tail(buffer), Copied(buffer, Offset01, 3))
      <4>1. PICK state : state = Copied(buffer, Offset01, 3)
        OBVIOUS
      <4>2. state[1] = 1 /\ state[1] \in Int32 /\ state[2] \in Int /\ state[3] \in Int
        BY <3>2, <3>3, <4>1, DualSenseUnits
      <4>3. PICK sent : sent = Tail(buffer)
        OBVIOUS
      <4>4. PICK p : p = printed'
        OBVIOUS
      <4>5. p = [id |-> 1, sent |-> sent,
                 shown |-> <<state[1], mult_frac(g.numer, state[2], g.denom),
                             mult_frac(a.numer, state[3], a.denom)>>]
        BY <3>3, <4>1, <4>3, <4>4
      <4>6. /\ p.id \in Nat /\ \A i \in DOMAIN p.shown : p.shown[i] \in Int32
            /\ p.id = 49 => /\ p.shown[1] = p.sent[1]
                            /\ ShowsGyro(p.shown[2], g, p.sent[2])
                            /\ ShowsAccel(p.shown[3], a, p.sent[3])
        <5>1. /\ 1 \in {1, 49} /\ g.denom # 0 /\ a.denom # 0
              /\ 1 = 49 => /\ sent[1] = state[1] /\ sent[2] = state[2] /\ sent[3] = state[3]
                           /\ state[2] \in RawValues /\ state[3] \in RawValues
          BY <3>3
        <5> QED
          BY <1>3, <1>4, <4>2, <4>5, <5>1, StateShown
      <4>7. p.id = 1 /\ p.shown[1] = 1
        BY <4>2, <4>5
      <4> QED
        BY <2>2, <4>4, <4>6, <4>7
    <3>4. CASE /\ buffer[1] = 49 /\ buffer[2] = 1
               /\ Shows(49, Tail(Tail(buffer)), Copied(buffer, Offset31, 3))
      <4>1. PICK state : state = Copied(buffer, Offset31, 3)
        OBVIOUS
      <4>2. PICK sent : sent = Tail(Tail(buffer))
        OBVIOUS
      <4>3. /\ state[1] \in Int32 /\ state[2] \in RawValues /\ state[3] \in RawValues
            /\ sent[1] = state[1] /\ sent[2] = state[2] /\ sent[3] = state[3]
        BY <3>2, <3>4, <4>1, <4>2, DualSenseUnits
      <4>4. state[2] \in Int /\ state[3] \in Int
        <5>1. \A r \in RawValues : r \in Int
          BY ReaderAssumption DEF Int16
        <5> QED
          BY <4>3, <5>1
      <4>5. PICK p : p = printed'
        OBVIOUS
      <4>6. p = [id |-> 49, sent |-> sent,
                 shown |-> <<state[1], mult_frac(g.numer, state[2], g.denom),
                             mult_frac(a.numer, state[3], a.denom)>>]
        BY <3>4, <4>1, <4>2, <4>5
      <4>7. /\ p.id \in Nat /\ \A i \in DOMAIN p.shown : p.shown[i] \in Int32
            /\ p.id = 49 => /\ p.shown[1] = p.sent[1]
                            /\ ShowsGyro(p.shown[2], g, p.sent[2])
                            /\ ShowsAccel(p.shown[3], a, p.sent[3])
        <5>1. /\ 49 \in {1, 49} /\ g.denom # 0 /\ a.denom # 0
              /\ 49 = 49 => /\ sent[1] = state[1] /\ sent[2] = state[2] /\ sent[3] = state[3]
                            /\ state[2] \in RawValues /\ state[3] \in RawValues
          BY <3>4, <4>3
        <5> QED
          BY <1>3, <1>4, <4>3, <4>4, <4>6, <5>1, StateShown
      <4>8. p.id = 49
        BY <4>6
      <4> QED
        BY <2>2, <4>5, <4>7, <4>8
    <3> QED
      BY <1>3, <1>4, <2>1, <3>1, <3>3, <3>4 DEF DualSenseReport, PrintControllerStateUsb, PrintReport
  <2>3. CASE /\ model # "dualsense"
             /\ \/ \E buffer \in XboxReports : XboxReport(buffer)
                \/ \E buffer \in HoripadReports : HoripadReport(buffer)
    <3>1. PICK id \in 1..48, s \in Sticks :
            XboxReport(<<id, s>>) \/ HoripadReport(<<id, s>>)
      <4>1. CASE \E buffer \in XboxReports : XboxReport(buffer)
        <5>1. PICK buffer \in XboxReports : XboxReport(buffer)
          BY <4>1
        <5>2. PICK id \in {1, 2, 4}, s \in Sticks : buffer = <<id, s>>
          BY <5>1 DEF XboxReports
        <5>3. id \in 1..48
          OBVIOUS
        <5>4. XboxReport(<<id, s>>)
          BY <5>1, <5>2, Zenon
        <5> QED
          BY <5>3, <5>4, Zenon
      <4>2. CASE \E buffer \in HoripadReports : HoripadReport(buffer)
        <5>1. PICK buffer \in HoripadReports : HoripadReport(buffer)
          BY <4>2
        <5>2. PICK id \in {7, 16, 18, 20}, s \in Sticks : buffer = <<id, s>>
          BY <5>1 DEF HoripadReports
        <5>3. id \in 1..48
          OBVIOUS
        <5>4. HoripadReport(<<id, s>>)
          BY <5>1, <5>2, Zenon
        <5> QED
          BY <5>3, <5>4, Zenon
      <4> QED
        BY <2>3, <4>1, <4>2
    <3>2. CASE UNCHANGED printed
      BY <2>1, <3>2
    <3>3. CASE printed' = [id |-> id, sent |-> Tail(<<id, s>>),
                           shown |-> Copied(<<id, s>>, 1, Len(<<id, s>>) - 1)]
      BY <2>3, <3>3, FieldsShown
    <3> QED
      BY <3>1, <3>2, <3>3 DEF XboxReport, HoripadReport, PrintReport
  <2> QED
    BY <2>1, <2>2, <2>3 DEF dispatch
<1>6. TypeOK'
  BY <1>1, <1>2, <1>5 DEF TypeOK
<1>7. PrintsState'
  <2>1. gyro' = g /\ accel' = a /\ model' = model
    BY <1>1, <1>3, <1>4
  <2> QED
    BY <1>5, <2>1, Zenon DEF PrintsState, ShowsGyro, ShowsAccel, Calibrated, NoOverflow
<1>8. (gyro.denom <= 4 * Int16Max + 2 /\ Abs(accel.denom) <= 2 * Int16Max + 2)'
  BY <1>1, <1>3, <1>4
<1> QED
  BY <1>1, <1>6, <1>7, <1>8 DEF PrintInv

(* The invariant is inductive.                                             *)
LEMMA PrintInductive == Spec => []PrintInv
<1>1. PrintInv /\ [Next]_vars => PrintInv'
  <2> SUFFICES ASSUME PrintInv, [Next]_vars PROVE PrintInv'
    OBVIOUS
  <2>1. CASE UNCHANGED vars
    BY <2>1 DEF vars, device, PrintInv, TypeOK, PrintsState
  <2>2. CASE Next
    BY <2>2, PrintOpening, PrintDispatch DEF Next
  <2> QED
    BY <2>1, <2>2
<1> QED
  BY <1>1, PrintInit, PTL DEF Spec

(* The fields of a reader have their types; what it shows are 32-bit       *)
(* integers, whatever it multiplies (input_reader.cc, mult_frac).          *)
THEOREM ReaderTypeCorrect == Spec => []TypeOK
<1>1. PrintInv => TypeOK
  BY DEF PrintInv
<1> QED
  BY <1>1, PrintInductive, PTL

(* What dispatch() prints of report 49 is what the controller sent, the    *)
(* accelerometer scaled exactly wherever the result fits into 32 bits, the *)
(* gyroscope there if and only if the product inside mult_frac() does not  *)
(* overflow, for every calibration and every measurement; of report 1 the  *)
(* stick is right only where it equals the report's ID (input_reader.cc,   *)
(* dispatch, PrintControllerStateUsb and mult_frac).                       *)
THEOREM ReaderPrintsState == Spec => []PrintsState
<1>1. PrintInv => PrintsState
  BY DEF PrintInv
<1> QED
  BY <1>1, PrintInductive, PTL
=============================================================================
