------------------------------- MODULE Codec --------------------------------
(***************************************************************************)
(* The typed values of SnappyDB: how each put of DBImpl.java and           *)
(* snappydb.cpp turns a value into the bytes LevelDB stores, and how each  *)
(* get turns them back, whatever type they were put as.                    *)
(*                                                                         *)
(* Byte is the number of values of a byte (256); the widths of the types   *)
(* in bytes are those of the code.  Numbers are stored little-endian, as   *)
(* on every Android ABI.  A double is <<m, e>>, m * 2^e with a significand *)
(* of Significand bits (53), written with TextDigits decimal digits (17); a float is  *)
(* treated alike (24 bits, 16 digits).  A Java String is its modified      *)
(* UTF-8 bytes, none of which is 0.                                        *)
(***************************************************************************)
EXTENDS Integers, SequencesExt

CONSTANTS
  Byte,             \* size of a byte
  Significand, TextDigits,     \* of a double and of its text
  MaxExponent,      \* bound: exponents of doubles and texts
  Names,            \* keys; "" is the empty one
  Numbers,          \* function from the integer types to values put
  Doubles,          \* doubles put
  Strings, Arrays,  \* Strings and byte arrays put
  Objects,          \* objects Kryo writes: [class, array, bytes]
  Absent,             \* nothing stored
  Exception,        \* a SnappydbException, or Java's default value with one
  MaxCalls          \* bound: calls

ASSUME CodecAssumption ==
  /\ Byte \in Nat /\ Byte % 2 = 0 /\ Byte > 2
  /\ {Significand, TextDigits, MaxExponent} \subseteq Nat \ {0}
  /\ \A s \in Strings : 0 \notin ToSet(s)

VARIABLES
  open,         \* isDBopen
  charSigned,   \* char is signed on this ABI (x86, mips), or not (arm)
  cell,         \* the bytes stored under each key, or Absent
  put,          \* the last value put under each key, as <<type, value>>
  call,         \* the last call, with what it returned
  calls

codecVars == <<open, charSigned, cell, put, call, calls>>

Width == [long |-> 8, int |-> 4, short |-> 2, boolean |-> 1]
IntTypes == DOMAIN Width
-----------------------------------------------------------------------------
(* Integers.                                                               *)
Wrap(n, w) ==       \* conversion to a signed integer of w bytes
  LET u == n % Byte ^ w IN IF u < Byte ^ w \div 2 THEN u ELSE u - Byte ^ w
Encode(n, w) == [i \in 1 .. w |-> (n \div Byte ^ (i - 1)) % Byte]
Char(b) == IF charSigned /\ b >= Byte \div 2 THEN b - Byte ELSE b

(* Mutant of FromBytes: the bytes from the most significant one down.      *)
FromBytesBackwards(bytes, w) ==
  Wrap(FoldLeft(LAMBDA n, b : Wrap(n * Byte + b, w), Head(bytes), Tail(bytes)), w)

(* ret = bytes[w-1]; ret = (ret << 8) + bytes[i] downwards, of bytes that  *)
(* were cast to unsigned char or left as they are.                         *)
FromBytes(bytes, w) ==
  Wrap(FoldRight(LAMBDA b, n : Wrap(n * Byte + b, w), Front(bytes), Last(bytes)), w)

getLong(bytes) == FromBytes([bytes EXCEPT ![8] = Char(@)], 8)
getInt(bytes) == FromBytes(bytes, 4)
getShort(bytes) == FromBytes([i \in 1 .. 2 |-> Char(bytes[i])], 2)
getBoolean(bytes) == bytes[1]
-----------------------------------------------------------------------------
(* Doubles.  A text is <<t, x>>, t * 10^x with TextDigits digits.              *)

Exponents == 0 - MaxExponent .. MaxExponent

(* a * 2^e / 10^x as a fraction of naturals.                               *)
Num(a, e, x) == a * 2 ^ (IF e > 0 THEN e ELSE 0) * 10 ^ (IF x < 0 THEN 0 - x ELSE 0)
Den(e, x) == 2 ^ (IF e < 0 THEN 0 - e ELSE 0) * 10 ^ (IF x > 0 THEN x ELSE 0)
Nearest(n, d) ==    \* n / d rounded to the nearest, ties to even
  LET q == n \div d
      r == 2 * (n % d)
  IN  IF r > d \/ (r = d /\ q % 2 = 1) THEN q + 1 ELSE q

(* oss << std::setprecision(TextDigits) << v: the nearest text.                *)
ToText(v) ==
  LET x == CHOOSE x \in Exponents :
             /\ Nearest(Num(v[1], v[2], x), Den(v[2], x)) < 10 ^ TextDigits
             /\ Nearest(Num(v[1], v[2], x - 1), Den(v[2], x - 1)) >= 10 ^ TextDigits
  IN  <<Nearest(Num(v[1], v[2], x), Den(v[2], x)), x>>

(* atof: the nearest double.                                               *)
FromText(text) ==
  LET n(e) == text[1] * 10 ^ (IF text[2] > 0 THEN text[2] ELSE 0)
                      * 2 ^ (IF e < 0 THEN 0 - e ELSE 0)
      d(e) == 10 ^ (IF text[2] < 0 THEN 0 - text[2] ELSE 0)
                      * 2 ^ (IF e > 0 THEN e ELSE 0)
      e == CHOOSE e \in Exponents :
             n(e) < d(e) * 2 ^ Significand /\ n(e) >= d(e) * 2 ^ (Significand - 1)
      m == Nearest(n(e), d(e))
  IN  IF m = 2 ^ Significand THEN <<2 ^ (Significand - 1), e + 1>> ELSE <<m, e>>
-----------------------------------------------------------------------------
(* The cells: bytes, or the characters of a number, which are no longer    *)
(* than any of the fixed widths here and are kept as the text they spell.  *)

Bytes(s) == <<"bytes", s>>
Text(t) == <<"text", t>>

(* The __put functions: each stores a Slice, and throws if Put fails.      *)
Stored(type, v) ==
  CASE type \in {"long", "int", "short"} -> Bytes(Encode(v, Width[type]))
    [] type = "boolean" -> Bytes(<<v>>)
    [] type = "double"  -> Text(ToText(v))
    [] type \in {"object", "array"} -> Bytes(v.bytes)
    [] OTHER            -> Bytes(v)

(* A String ends at the first 0.                                           *)
CString(s) == LET Z == {i \in DOMAIN s : s[i] = 0}
              IN  IF Z = {} THEN s ELSE SubSeq(s, 1, Min(Z) - 1)

(* Kryo reads an object of a class back from its own bytes; from others it *)
(* throws or makes up some object of that class.                           *)
Made(class, array) == [class |-> class, array |-> array, bytes |-> <<>>]
ReadObject(s, class, array) ==
  LET wrote == {o \in Objects : o.bytes = s /\ o.class = class /\ o.array = array}
  IN  IF wrote # {} THEN wrote ELSE {Exception, Made(class, array)}

(* What a get of a type returns for stored bytes, and for the text of a    *)
(* number; atof of what is not a number is 0.                              *)
FromCellBytes(type, s) ==
  CASE type \in IntTypes /\ Len(s) # Width[type] -> Exception
    [] type = "long" -> getLong(s)
    [] type = "int" -> getInt(s)
    [] type = "short" -> getShort(s)
    [] type = "boolean" -> getBoolean(s)
    [] type = "double" -> <<0, 0>>
    [] type = "string" -> CString(s)
    [] type = "bytes" -> s
FromCellText(type, t) ==
  CASE type = "double" -> FromText(t)
    [] type \in IntTypes -> Exception
    [] OTHER -> t
Decoded(type, c) ==
  IF c = Absent THEN Exception
  ELSE IF c[1] = "text" THEN FromCellText(type, c[2]) ELSE FromCellBytes(type, c[2])
-----------------------------------------------------------------------------
CodecInit ==
  /\ open = TRUE /\ charSigned \in BOOLEAN
  /\ cell = [k \in Names |-> Absent] /\ put = [k \in Names |-> Absent]
  /\ call = Absent /\ calls = 0

(* checkKey and isDBopen stop a call before it does anything.              *)
Stops(k) == k = "" \/ ~open
Called(type, k, r) ==
  /\ calls < MaxCalls /\ calls' = calls + 1
  /\ call' = [type |-> type, key |-> k, ret |-> r]
  /\ UNCHANGED <<open, charSigned>>

Values(type) ==
  CASE type \in IntTypes  -> Numbers[type]
    [] type = "double" -> Doubles
    [] type = "string" -> Strings
    [] type = "bytes"  -> Arrays
    [] OTHER -> {o \in Objects : o.array = (type = "array")}

Put(type, k) ==
  \E v \in Values(type) \cup {Absent} :
    \/ /\ v # Absent /\ ~Stops(k)
       /\ cell' = [cell EXCEPT ![k] = Stored(type, v)]
       /\ put' = [put EXCEPT ![k] = <<type, v>>]
       /\ Called("put", k, Absent)
    \/ /\ v = Absent \/ Stops(k)        \* checkArgs refuses null
       /\ Called("put", k, Exception) /\ UNCHANGED <<cell, put>>

(* db->Put or db->Get is not OK.                                           *)
Fails(k) == ~Stops(k) /\ Called("fails", k, Exception) /\ UNCHANGED <<cell, put>>

Get(type, k) ==
  /\ Called(type, k, IF Stops(k) THEN Exception ELSE Decoded(type, cell[k]))
  /\ UNCHANGED <<cell, put>>

Exists(k) ==
  /\ Called("exists", k, IF Stops(k) THEN Exception
                         ELSE IF cell[k] = Absent THEN FALSE ELSE TRUE)
  /\ UNCHANGED <<cell, put>>

FromKryo(type, class, k) ==
  IF Stops(k) \/ cell[k] = Absent THEN {Exception}
  ELSE IF cell[k][1] = "text" THEN {Exception}
  ELSE ReadObject(cell[k][2], class, type = "array")

(* get and getObject refuse a class that is an array; getArray and         *)
(* getObjectArray make the array class themselves.                         *)
GetObject(class, isArray, k) ==
  /\ \E r \in IF isArray THEN {Exception} ELSE FromKryo("object", class, k) :
       Called("object", k, r)
  /\ UNCHANGED <<cell, put>>
GetArray(class, k) ==
  /\ \E r \in FromKryo("array", class, k) : Called("array", k, r)
  /\ UNCHANGED <<cell, put>>

Del(k) ==
  /\ IF Stops(k) THEN UNCHANGED <<cell, put>>
     ELSE cell' = [cell EXCEPT ![k] = Absent] /\ put' = [put EXCEPT ![k] = Absent]
  /\ Called("del", k, IF Stops(k) THEN Exception ELSE Absent)

CloseDatabase == open' = FALSE /\ open /\ UNCHANGED <<charSigned, cell, put, call, calls>>

PutTypes == IntTypes \cup {"double", "string", "bytes", "object", "array"}
CodecNext ==
  \/ \E k \in Names :
       \/ \E t \in PutTypes : Put(t, k)
       \/ \E t \in PutTypes \ {"object", "array"} : Get(t, k)
       \/ \E o \in Objects : GetObject(o.class, o.array, k) \/ GetArray(o.class, k)
       \/ Exists(k) \/ Del(k) \/ Fails(k)
  \/ CloseDatabase

CodecSpec == CodecInit /\ [][CodecNext]_codecVars
-----------------------------------------------------------------------------
(* A get returned a value, and the key holds one of that type.             *)
Returned(types) ==
  /\ call # Absent /\ call.type \in types /\ call.ret # Exception
  /\ put[call.key] # Absent /\ put[call.key][1] = call.type
Same == call.ret = put[call.key][2]

(* What is put is what the get of the same type returns, for every type,   *)
(* on every ABI and at the ends of every range: the byte order and sign of *)
(* getLong, getInt and getBoolean, the digits a double needs to come back  *)
(* exactly, strings, byte arrays and objects.  A short does where char is  *)
(* not signed.                                                             *)
ReadsBack ==
  Returned(IF charSigned THEN PutTypes \ {"short"} ELSE PutTypes) => Same

(* What the test testShort asks: getShort returns the short that was put.  *)
ShortReadsBack == Returned({"short"}) => Same
=============================================================================
