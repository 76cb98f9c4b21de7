--------------------------- MODULE Characteristic ---------------------------
(* Characteristics and the calls of their handlers: HAP/HAPCharacteristic.c,   *)
(* with the rules a definition must meet, HAP/HAPAccessoryValidation.c.        *)
(* A number is an integer; that of a Float counts units of 1/Grid.  A text is  *)
(* the sequence of its bytes.                                                  *)
EXTENDS Integers, Sequences, FiniteSets

CONSTANTS
  MaxOf,  \* [{"UInt8", "UInt16", "UInt32", "UInt64", "Int"} -> Nat], the largest number
  Grid    \* units in 1.0

ASSUME WidthsAssumption == /\ MaxOf \in [{"UInt8", "UInt16", "UInt32", "UInt64", "Int"} -> Nat]
                           /\ Grid \in Nat \ {0}

Formats == {"Bool", "UInt8", "UInt16", "UInt32", "UInt64", "Int", "Float", "String", "TLV8", "Data"}
Texts == {"String", "TLV8", "Data"}
ReadErrors == {"Unknown", "InvalidState", "OutOfResources", "Busy"}
WriteErrors == ReadErrors \cup {"InvalidData", "NotAuthorized"}

\* Properties: paired read "pr" and write "pw", events "ev", authorization data "aa", timed
\* write "tw", write response "wr", control point "cp"; "ar" and "aw" ask for an admin.
ReadRequiresAdmin(c) == "ar" \in c.props
WriteRequiresAdmin(c) == "aw" \in c.props

------------------------------------------------------------------------------
\* Constraints.
InRange(v, c) ==
  c.min <= v /\ v <= c.max /\ (c.step = 0 \/ (v - c.min) % c.step = 0)
LengthInRange(v, c) == Len(v) <= c.maxLen

DataFulfills(c, v) == LengthInRange(v, c)
StringFulfills(c, v) == LengthInRange(v, c)
BoolFulfills(c, v) == v \in BOOLEAN

InValidValues(c, v) == c.values # {} /\ v \in c.values
InValidRanges(c, v) == c.ranges # {} /\ \E r \in c.ranges : r[1] <= v /\ v <= r[2]
UInt8Fulfills(c, v) ==
  /\ InRange(v, c)
  /\ \/ c.values = {} /\ c.ranges = {}
     \/ InValidValues(c, v)
     \/ InValidRanges(c, v)
UInt16Fulfills(c, v) == InRange(v, c)
UInt32Fulfills(c, v) == InRange(v, c)
UInt64Fulfills(c, v) == InRange(v, c)

\* The difference to the minimum is computed in the width of the number: it wraps, and the
\* remainder of a negative number is zero for the same multiples.
Wrapped(n) == LET m == 2 * (MaxOf["Int"] + 1) IN ((n + MaxOf["Int"] + 1) % m) - MaxOf["Int"] - 1
Magnitude(n) == IF n < 0 THEN -n ELSE n
IntFulfills(c, v) ==
  c.min <= v /\ v <= c.max /\ (c.step = 0 \/ Magnitude(Wrapped(v - c.min)) % c.step = 0)

\* A Float may be off its step by a tenth of the step.  (No request carries an infinite value.)
OffStep(v, c) == LET d == (v - c.min) % c.step IN IF 2 * d < c.step THEN d ELSE d - c.step
FloatFulfills(c, v) ==
  c.min <= v /\ v <= c.max /\ (c.step = 0 \/ 10 * Magnitude(OffStep(v, c)) <= c.step)
RoundValueToStep(c, v) == IF c.step = 0 THEN v ELSE v - OffStep(v, c)

------------------------------------------------------------------------------
\* Handlers.  A write calls the application unless a constraint fails; the answer of the
\* application is "None" or an error.  `value` is what the application is given.
Refused == [called |-> FALSE, err |-> "InvalidData"]
Called(value, answer) == [called |-> TRUE, value |-> value, err |-> answer]
Guarded(fulfilled, value, answer) == IF fulfilled THEN Called(value, answer) ELSE Refused

DataHandleWrite(c, v, answer) == Guarded(DataFulfills(c, v), v, answer)
BoolHandleWrite(c, v, answer) == Guarded(BoolFulfills(c, v), v, answer)
UInt8HandleWrite(c, v, answer) == Guarded(UInt8Fulfills(c, v), v, answer)
UInt16HandleWrite(c, v, answer) == Guarded(UInt16Fulfills(c, v), v, answer)
UInt32HandleWrite(c, v, answer) == Guarded(UInt32Fulfills(c, v), v, answer)
UInt64HandleWrite(c, v, answer) == Guarded(UInt64Fulfills(c, v), v, answer)
IntHandleWrite(c, v, answer) == Guarded(IntFulfills(c, v), v, answer)
FloatHandleWrite(c, v, answer) == Guarded(FloatFulfills(c, v), RoundValueToStep(c, v), answer)
StringHandleWrite(c, v, answer) == Guarded(StringFulfills(c, v), v, answer)
TLV8HandleWrite(c, v, answer) == Called(v, answer)

HandleWrite(c, v, answer) ==
  CASE c.format = "Data" -> DataHandleWrite(c, v, answer)
    [] c.format = "Bool" -> BoolHandleWrite(c, v, answer)
    [] c.format = "UInt8" -> UInt8HandleWrite(c, v, answer)
    [] c.format = "UInt16" -> UInt16HandleWrite(c, v, answer)
    [] c.format = "UInt32" -> UInt32HandleWrite(c, v, answer)
    [] c.format = "UInt64" -> UInt64HandleWrite(c, v, answer)
    [] c.format = "Int" -> IntHandleWrite(c, v, answer)
    [] c.format = "Float" -> FloatHandleWrite(c, v, answer)
    [] c.format = "String" -> StringHandleWrite(c, v, answer)
    [] c.format = "TLV8" -> TLV8HandleWrite(c, v, answer)

\* A read passes the errors of the application on.  A value that breaks the constraints
\* fails an assertion; the application is taken to keep them, and to answer
\* OutOfResources if the room it is given is too small for its value.
Answered(err, value) == IF err = "None" THEN [err |-> "None", value |-> value] ELSE [err |-> err]
FloatHandleRead(c, v, err) == Answered(err, RoundValueToStep(c, v))
StringHandleRead(v, room, err) ==
  Answered(IF Len(v) < room THEN err ELSE "OutOfResources", v)
DataHandleRead(v, room, err) == Answered(IF Len(v) <= room THEN err ELSE "OutOfResources", v)
TLV8HandleRead(v, room, err) == Answered(IF Len(v) <= room THEN err ELSE "OutOfResources", v)
NumberHandleRead(v, err) == Answered(err, v)

HandleRead(c, v, room, err) ==
  CASE c.format = "Float" -> FloatHandleRead(c, v, err)
    [] c.format = "String" -> StringHandleRead(v, room, err)
    [] c.format = "Data" -> DataHandleRead(v, room, err)
    [] c.format = "TLV8" -> TLV8HandleRead(v, room, err)
    [] OTHER -> NumberHandleRead(v, err)

------------------------------------------------------------------------------
\* The rules of HAPRegularAccessoryIsValid for a characteristic.
PropertiesAreValid(c) ==
  /\ {"wr", "tw", "aa", "aw"} \cap c.props # {} => "pw" \in c.props
  /\ "ar" \in c.props => "pr" \in c.props
  /\ {"ar", "pw"} \subseteq c.props => "aw" \in c.props
LimitsAreValid(c) ==
  c.format \in {"UInt8", "UInt16", "UInt32", "UInt64", "Int", "Float"} => c.min <= c.max /\ c.step >= 0
ValuesAreValid(c) == c.format = "UInt8" => \A r \in c.ranges : r[1] <= r[2]
CharacteristicIsValid(c) == PropertiesAreValid(c) /\ LimitsAreValid(c) /\ ValuesAreValid(c)
==============================================================================
