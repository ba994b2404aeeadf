---------------------------- MODULE LogicalTypes ----------------------------
(***************************************************************************)
(* packages/avro-logical-types: how decimals and dates become the bytes    *)
(* and numbers that avro stores, and back.                                 *)
(*                                                                         *)
(* A decimal is a whole number of the smallest digits anybody writes,      *)
(* Finer of which make one unit of the scale of the schema.  A Date has    *)
(* its getTime(), in milliseconds.  A byte is one of 0..(Byte - 1).        *)
(***************************************************************************)
EXTENDS Integers, Sequences

CONSTANTS
  Byte,       (* 256 *)
  Bytes,      (* 8: the bytes of an Int64BE *)
  Finer,      (* digits of a decimal below the scale, as a factor *)
  Places,     (* the powers of 10, up to Finer *)
  Precision,  (* 10^20: decimal.js keeps 20 digits of a product *)
  DayMs,      (* 8.64e7, millisecondsInADay *)
  MaxMs       (* 8.64e15, of the last Date there is: so many whole days *)

ASSUME LogicalTypesAssumption ==
  /\ Byte \in Nat \ {0} /\ Byte % 2 = 0 /\ Bytes \in Nat \ {0}
  /\ Finer \in Places /\ 1 \in Places /\ Places \subseteq Nat \ {0}
  /\ \A f, g \in Places : f <= g => g % f = 0
  /\ Precision \in Nat
  /\ DayMs \in Nat \ {0} /\ MaxMs \in Nat /\ MaxMs % DayMs = 0

(* What a byte counts for that has i others after it *)
Weight[i \in 0..Bytes] == IF i = 0 THEN 1 ELSE Weight[i - 1] * Byte

Range64 == Weight[Bytes]

(* new Int64BE(n).toBuffer(): two's complement, what does not fit wraps *)
Int64Bytes(n) ==
  [i \in 1..Bytes |-> ((n % Range64) \div Weight[Bytes - i]) % Byte]

Unsigned(buf) ==
  LET value[i \in 0..Len(buf)] == IF i = 0 THEN 0 ELSE value[i - 1] * Byte + buf[i]
  IN  value[Len(buf)]

(* new Int64BE(buf).toString() *)
Int64(buf) ==
  IF Unsigned(buf) < Range64 \div 2 THEN Unsigned(buf) ELSE Unsigned(buf) - Range64

-----------------------------------------------------------------------------
(* DecimalType *)

(* The place of the last digit that is kept of a number.                   *)
LastPlace(abs) ==
  CHOOSE place \in Places :
    /\ abs < Precision * place
    /\ \A finer \in Places : finer < place => abs >= Precision * finer

(* val.mul(10 ** scale), rounded half up: of its absolute value.           *)
mul(abs) ==
  ((2 * abs + LastPlace(abs)) \div (2 * LastPlace(abs))) * LastPlace(abs)

(* Faulty variant: floor() in the place of trunc(). *)
floor(val) == IF val >= 0 THEN mul(val) \div Finer ELSE (-mul(-val)) \div Finer

(* mul() and trunc() *)
trunc(val) == IF val >= 0 THEN mul(val) \div Finer ELSE -(mul(-val) \div Finer)

decimalToBuffer(val) == Int64Bytes(trunc(val))

to64Bit(buf) ==
  LET isNegative == buf # <<>> /\ Head(buf) >= Byte \div 2
  IN  [i \in 1..(Bytes - Len(buf)) |-> IF isNegative THEN Byte - 1 ELSE 0] \o buf

bufferToDecimal(buf) == Int64(to64Bit(buf)) * Finer

(* Whether _fromValue() takes the buffer; it throws at a longer one. *)
Supported(buf) == Len(buf) <= Bytes

-----------------------------------------------------------------------------
(* DateType and DateAsDateType, TimestampType and TimestampAsDateType *)

NewDate(ms) ==
  IF ms \in -MaxMs..MaxMs THEN [is |-> "Date", ms |-> ms] ELSE [is |-> "Invalid Date"]

toISOString(date) ==
  IF date.is = "Date" THEN [date EXCEPT !.is = "iso"] ELSE [is |-> "RangeError"]

fromDate(ms) == ms \div DayMs

toDate(val) == NewDate(val * DayMs)

(* _fromValue() of the four: a Date, or the ISO string of one. *)
fromValue(type, val) ==
  LET date == IF type \in {"DateType", "DateAsDateType"} THEN toDate(val) ELSE NewDate(val)
  IN  IF type \in {"DateType", "TimestampType"} THEN toISOString(date) ELSE date

(* _toValue() of the four: what is not a Date is passed on as it is, and   *)
(* avro takes numbers only.                                                *)
toValue(type, date) ==
  IF date.is = "Invalid Date" THEN [is |-> "NaN"]
  ELSE IF date.is # "Date" THEN date
  ELSE [is |-> "number",
        ms |-> IF type \in {"DateType", "DateAsDateType"} THEN fromDate(date.ms) ELSE date.ms]
=============================================================================
