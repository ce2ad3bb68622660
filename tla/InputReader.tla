----------------------------- MODULE InputReader -----------------------------
(***************************************************************************)
(* The InputReader of the three game controller clients: what it asks a    *)
(* hidraw node when it opens it, the calibration it works out for a        *)
(* DualSense, and how dispatch() takes the reports apart.                  *)
(*                                                                         *)
(* A report is a sequence of units, the report ID first; a unit stands for *)
(* a field, whatever its width in bytes.  One axis of the gyroscope and one*)
(* of the accelerometer stand for three each, which the code treats alike. *)
(* The bias and abs_code of an axis are stored and never read: left out.   *)
(***************************************************************************)
EXTENDS Integers, Sequences

CONSTANTS
  Int16Max,   \* INT16_MAX
  CalValues,  \* what a field of the calibration report may hold
  RawValues,  \* what a sensor may measure
  Sticks,     \* what any other field may hold
  AccRes,     \* ACC_RES_PER_G
  GyroRes,    \* GYRO_RES_PER_DEG_S
  GyroSpan    \* GYRO_RANGE / GYRO_RES_PER_DEG_S

Int16    == -Int16Max - 1 .. Int16Max
UInt16   == 0 .. 2 * Int16Max + 1
Int32Max == 2 * (Int16Max + 1) * (Int16Max + 1) - 1
Int32    == -Int32Max - 1 .. Int32Max

ASSUME ReaderAssumption ==
  /\ Int16Max \in Nat \ {0}
  /\ CalValues \subseteq UInt16 /\ RawValues \subseteq Int16 /\ Sticks \subseteq UInt16
  /\ AccRes \in Nat /\ GyroRes \in Nat /\ GyroSpan \in Nat

VARIABLES
  model,      \* which controller, and so which of the three readers
  bus,        \* how it is connected
  extended,   \* a DualSense on Bluetooth sends the extended report
  step,       \* the call open_and_init() is at; "valid", "invalid" or "crashed" after
  known,      \* product_ is one that dispatch() knows
  gyro,       \* hw_cal_data_.gyro: numerator and denominator of the scale
  accel,      \* hw_cal_data_.accel
  calibrated, \* GetControllerCalibrationData() succeeded
  printed     \* the last report printed, and the fields as printed

device == <<model, bus>>
vars == <<device, extended, step, known, gyro, accel, calibrated, printed>>

None == [id |-> 0, sent |-> <<>>, shown |-> <<>>]

Init ==
  /\ model \in {"dualsense", "xbox", "horipad"}
  /\ bus \in {"usb", "bluetooth"}
  /\ extended = FALSE /\ step = "open" /\ known = FALSE
  /\ gyro = [numer |-> 0, denom |-> 0] /\ accel = [numer |-> 0, denom |-> 0]
  /\ calibrated = FALSE /\ printed = None

-----------------------------------------------------------------------------
(* open_and_init(), call by call.  A failure before the feature reports    *)
(* leaves the reader invalid; its owner then drops it.                     *)
AfterCall ==
  [open |-> "info", info |-> "name", name |-> "phys", phys |-> "size",
   size |-> "descriptor",
   descriptor |-> IF model = "dualsense" THEN "calibration" ELSE "valid"]

open_and_init ==
  /\ step \in DOMAIN AfterCall
  /\ step' \in {AfterCall[step], "invalid"}
  /\ known' \in IF step = "info" THEN BOOLEAN ELSE {known}
  /\ UNCHANGED <<device, extended, gyro, accel, calibrated, printed>>

Abs(i) == IF i < 0 THEN -i ELSE i

(* The sanity checks: an axis whose denominator is zero is not calibrated. *)
Sane(c, range) == IF c.denom = 0 THEN [numer |-> range, denom |-> Int16Max] ELSE c

(* The scale of an axis from the fields of the report, which are unsigned. *)
GyroScale(plus, minus, bias, speed_plus, speed_minus) ==
  Sane([numer |-> (speed_plus + speed_minus) * GyroRes,
        denom |-> Abs(plus - bias) + Abs(minus - bias)], GyroSpan * GyroRes)

(* Mutant: no sanity check of the accelerometer.                           *)
AccelScaleUnchecked(plus, minus) == [numer |-> 2 * AccRes, denom |-> plus - minus]

AccelScale(plus, minus) ==
  Sane([numer |-> 2 * AccRes, denom |-> plus - minus], 4 * AccRes)

(* Feature reports are best-effort.  Reading the calibration also makes a  *)
(* DualSense on Bluetooth send the extended report, whether or not the     *)
(* answer arrives and is accepted.                                         *)
GetControllerCalibrationData ==
  /\ step = "calibration" /\ step' = "mac"
  /\ \/ /\ \E plus, minus, bias, speed_plus, speed_minus \in CalValues :
             gyro' = GyroScale(plus, minus, bias, speed_plus, speed_minus)
        /\ \E plus, minus \in CalValues : accel' = AccelScale(plus, minus)
        /\ calibrated' = TRUE /\ extended' = TRUE
     \/ extended' \in BOOLEAN /\ UNCHANGED <<gyro, accel, calibrated>>
  /\ UNCHANGED <<device, known, printed>>

(* The MAC addresses and the version are stored when they arrive.          *)
GetControllerMacAll ==
  /\ step = "mac" /\ step' = "version"
  /\ UNCHANGED <<device, extended, known, gyro, accel, calibrated, printed>>

GetControllerVersion ==
  /\ step = "version" /\ step' = "valid"
  /\ UNCHANGED <<device, extended, known, gyro, accel, calibrated, printed>>

-----------------------------------------------------------------------------
(* C++ division and remainder: towards zero.                               *)
Quotient(a, b)  == IF (a < 0) = (b < 0) THEN Abs(a) \div Abs(b) ELSE -(Abs(a) \div Abs(b))
Remainder(a, b) == a - b * Quotient(a, b)

(* Mutant: computed in a wider type.                                       *)
mult_fracWide(x, n, d) ==
  Quotient(x, d) * n + Quotient(Remainder(x, d) * n, d)

(* 32-bit arithmetic; what overflows wraps around.                         *)
Wrap(i) == ((i + Int32Max + 1) % (2 * Int32Max + 2)) - (Int32Max + 1)

(* x * n / d in 32 bits.                                                   *)
mult_frac(x, n, d) ==
  Wrap(Wrap(Quotient(x, d) * n) + Quotient(Wrap(Remainder(x, d) * n), d))

(* The units of a struct copied from the buffer, zero where it is shorter. *)
Copied(buffer, offset, n) ==
  [i \in 1..n |-> IF i + offset <= Len(buffer) THEN buffer[i + offset] ELSE 0]

(* The values logged for a report with this id and content.                *)
PrintReport(id, sent, shown) == printed' = [id |-> id, sent |-> sent, shown |-> shown]

(* A stick, the gyroscope and the accelerometer, calibrated.               *)
PrintControllerStateUsb(id, sent, state) ==
  IF gyro.denom = 0 \/ accel.denom = 0
    THEN step' = "crashed" /\ UNCHANGED printed
    ELSE /\ PrintReport(id, sent, <<state[1], mult_frac(gyro.numer, state[2], gyro.denom),
                               mult_frac(accel.numer, state[3], accel.denom)>>)
         /\ UNCHANGED step

(* Mutant: the byte of flags after the report ID is forgotten.             *)
Offset31Short == 1

(* Where the state starts: USBGetStateData is copied from the start of     *)
(* report 1, its ID included; in ReportIn31 it comes after ID and flags.   *)
Offset01 == 0
Offset31 == 2

(* dispatch() of a DualSense: report 1, or 49 with state or sound.         *)
DualSenseReport(buffer) ==
  \/ /\ buffer[1] = 1
     /\ PrintControllerStateUsb(1, Tail(buffer), Copied(buffer, Offset01, 3))
  \/ /\ buffer[1] = 49 /\ buffer[2] = 1
     /\ PrintControllerStateUsb(49, Tail(Tail(buffer)), Copied(buffer, Offset31, 3))
  \/ /\ buffer[1] = 49 /\ buffer[2] # 1
     /\ UNCHANGED <<step, printed>>

(* dispatch() of the others: a struct with the ID as its first field.      *)
XboxReport(buffer) ==
  /\ IF buffer[1] \in {1, 2, 4}
       THEN PrintReport(buffer[1], Tail(buffer), Copied(buffer, 1, Len(buffer) - 1))
       ELSE UNCHANGED printed
  /\ UNCHANGED step

HoripadReport(buffer) ==
  /\ IF buffer[1] \in {7, 10, 12, 14}
       THEN PrintReport(buffer[1], Tail(buffer), Copied(buffer, 1, Len(buffer) - 1))
       ELSE UNCHANGED printed
  /\ UNCHANGED step

(* What the controllers send, as the headers list it.  A Bluetooth report  *)
(* 1 of the DualSense has sticks and buttons only.                         *)
USBGetStateData == Sticks \X RawValues \X RawValues

DualSenseReports ==
  CASE bus = "usb" -> {<<1, s[1], s[2], s[3]>> : s \in USBGetStateData}
    [] bus = "bluetooth" /\ extended ->
         {<<49, 1, s[1], s[2], s[3]>> : s \in USBGetStateData} \cup {<<49, 2>>}
    [] bus = "bluetooth" /\ ~extended -> {<<1, s>> : s \in Sticks}

XboxReports == {<<id, s>> : id \in {1, 2, 4}, s \in Sticks}

HoripadReports == {<<id, s>> : id \in {7, 16, 18, 20}, s \in Sticks}

(* A report is there.  Without one dispatch() returns and changes nothing. *)
dispatch ==
  /\ step = "valid"
  /\ \/ /\ known /\ model = "dualsense"
        /\ \E buffer \in DualSenseReports : DualSenseReport(buffer)
     \/ /\ known /\ model = "xbox"
        /\ \E buffer \in XboxReports : XboxReport(buffer)
     \/ /\ known /\ model = "horipad"
        /\ \E buffer \in HoripadReports : HoripadReport(buffer)
     \/ ~known /\ UNCHANGED <<step, printed>>
  /\ UNCHANGED <<device, extended, known, gyro, accel, calibrated>>

Next ==
  \/ open_and_init \/ GetControllerCalibrationData \/ GetControllerMacAll
  \/ GetControllerVersion \/ dispatch

Spec == Init /\ [][Next]_vars

-----------------------------------------------------------------------------
TypeOK ==
  /\ model \in {"dualsense", "xbox", "horipad"} /\ bus \in {"usb", "bluetooth"}
  /\ extended \in BOOLEAN /\ known \in BOOLEAN /\ calibrated \in BOOLEAN
  /\ step \in {"open", "info", "name", "phys", "size", "descriptor", "calibration", "mac",
               "version", "valid", "invalid", "crashed"}
  /\ gyro \in [numer : Nat, denom : Nat] /\ accel \in [numer : Nat, denom : Int]
  /\ printed.id \in Nat
  /\ \A i \in DOMAIN printed.shown : printed.shown[i] \in Int32

(* Whatever calibration a DualSense reports, printing its state divides by *)
(* no zero: the reader dies only where there was no calibration.           *)
DividesOnceCalibrated == step = "crashed" => ~calibrated

(* Measurement n of an axis with scale c, calibrated; and whether 32 bits  *)
(* hold the product of n and the remainder of the numerator.               *)
Calibrated(c, n) == Quotient(c.numer * n, c.denom)
NoOverflow(c, n) == Remainder(c.numer, c.denom) * n \in Int32

(* What report 49 of a DualSense shows is what the controller sent.  An    *)
(* acceleration that fits into 32 bits is exact.  An angular velocity that *)
(* fits is exact if and only if r * n in mult_frac() does not overflow,    *)
(* which it can: the denominator, the sum of two distances of unsigned     *)
(* fields, may be twice as wide as they are.  Report 1, copied with its ID *)
(* in front, shows the right stick only where that equals the ID.          *)
PrintsState ==
  model = "dualsense" =>
    LET w == printed.sent[2]
        a == printed.sent[3]
    IN  /\ printed.id = 1 => (printed.shown[1] = printed.sent[1] <=> printed.sent[1] = 1)
        /\ printed.id = 49 =>
             /\ printed.shown[1] = printed.sent[1]
             /\ Calibrated(accel, a) \in Int32 => printed.shown[3] = Calibrated(accel, a)
             /\ Calibrated(gyro, w) \in Int32 =>
                  (printed.shown[2] = Calibrated(gyro, w) <=> NoOverflow(gyro, w))

(* "Feature reports are best-effort: the controller still streams input if *)
(* they fail", says input_reader.cc.                                       *)
StillStreams == step # "crashed"
=============================================================================
