CONSTANTS
  Byte = 4
  Significand = 3
  TextDigits = 2
  MaxExponent = 5
  Names = {"", "a"}
  Numbers <- TestNumbers
  Doubles <- TestDoubles
  Strings <- TestStrings
  Arrays <- TestArrays
  Objects <- TestObjects
  Absent = Absent
  Exception = Exception
  MaxCalls = 2
SPECIFICATION CodecSpec
INVARIANT ShortReadsBack
CHECK_DEADLOCK FALSE
