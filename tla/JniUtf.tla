------------------------------- MODULE JniUtf -------------------------------
(***************************************************************************)
(* The conversions between the UTF-16 of Java strings and the UTF-8 of the *)
(* C ABI in the JNI adapter (localmt_jni_utf.h).  Code units and bytes are *)
(* numbers; shifts and masks are divisions and remainders by powers of two.*)
(***************************************************************************)
EXTENDS CoreTypes, Integers

Surrogates == 55296 .. 57343          \* D800 .. DFFF
HighSurrogates == 55296 .. 56319      \* D800 .. DBFF
LowSurrogates == 56320 .. 57343       \* DC00 .. DFFF
MaxCodePoint == 1114111               \* 10FFFF

(* jchar and the bytes of a std::string.                                   *)
UnitMax == 65535
Unit == 0 .. UnitMax
Byte == 0 .. 255

----------------------------------------------------------------------------
(* append_utf8_code_point: one to four bytes, a surrogate refused.         *)
Continuation(bits) == 128 + (bits % 64)
AppendUtf8(c) ==
  IF c <= 127 THEN Ok(<<c>>)
  ELSE IF c <= 2047 THEN Ok(<<192 + (c \div 64), Continuation(c)>>)
  ELSE IF c \in Surrogates \/ c > MaxCodePoint THEN Err("NotAScalar")
  ELSE IF c <= 65535
       THEN Ok(<<224 + (c \div 4096), Continuation(c \div 64), Continuation(c)>>)
  ELSE Ok(<<240 + (c \div 262144), Continuation(c \div 4096),
            Continuation(c \div 64), Continuation(c)>>)

(* append_utf16_code_point: one unit, or a high and a low surrogate.       *)
AppendUtf16(c) ==
  IF c \in Surrogates \/ c > MaxCodePoint THEN Err("NotAScalar")
  ELSE IF c <= 65535 THEN Ok(<<c>>)
  ELSE Ok(<<55296 + ((c - 65536) \div 1024), 56320 + ((c - 65536) % 1024)>>)

----------------------------------------------------------------------------
(* One turn of either loop: the code point that starts at an offset and    *)
(* how many units it took, or the refusal.                                 *)
PairValue(high, low) == 65536 + (high - 55296) * 1024 + (low - 56320)
NextFromUtf16(units, i) ==
  IF units[i] \in HighSurrogates
  THEN IF i + 1 > Len(units) THEN Err("Truncated")
       ELSE IF units[i + 1] \notin LowSurrogates THEN Err("Unpaired")
       ELSE Ok([point |-> PairValue(units[i], units[i + 1]), width |-> 2])
  ELSE IF units[i] \in LowSurrogates THEN Err("Unpaired")
  ELSE Ok([point |-> units[i], width |-> 1])

(* Width, payload of the first byte and the least code point of the width; *)
(* width 0 is a byte that starts nothing.                                  *)
Lead(byte) ==
  CASE byte <= 127                  -> [width |-> 1, bits |-> byte, least |-> 0]
    [] byte \div 32 = 6             -> [width |-> 2, bits |-> byte % 32, least |-> 128]
    [] byte \div 16 = 14            -> [width |-> 3, bits |-> byte % 16, least |-> 2048]
    [] byte \div 8 = 30             -> [width |-> 4, bits |-> byte % 8, least |-> 65536]
    [] OTHER                        -> [width |-> 0, bits |-> 0, least |-> 0]

IsContinuation(byte) == byte \div 64 = 2
Payload(bytes, i, lead) ==
  LET value[n \in 1 .. lead.width] ==
        IF n = 1 THEN lead.bits ELSE value[n - 1] * 64 + (bytes[i + n - 1] % 64)
  IN value[lead.width]

(* Mutant of NextFromUtf8: the least code point of the width is not asked  *)
(* for.                                                                    *)
NextFromUtf8Overlong(bytes, i) ==
  LET lead == Lead(bytes[i]) IN
  IF lead.width = 0 THEN Err("NotALead")
  ELSE IF i + lead.width - 1 > Len(bytes) THEN Err("Truncated")
  ELSE IF \E n \in 1 .. lead.width - 1 : ~ IsContinuation(bytes[i + n]) THEN Err("NotAContinuation")
  ELSE LET point == Payload(bytes, i, lead) IN
       Checked(<< <<point \in Surrogates \/ point > MaxCodePoint, "NotAScalar">> >>,
               [point |-> point, width |-> lead.width])

NextFromUtf8(bytes, i) ==
  LET lead == Lead(bytes[i]) IN
  IF lead.width = 0 THEN Err("NotALead")
  ELSE IF i + lead.width - 1 > Len(bytes) THEN Err("Truncated")
  ELSE IF \E n \in 1 .. lead.width - 1 : ~ IsContinuation(bytes[i + n]) THEN Err("NotAContinuation")
  ELSE LET point == Payload(bytes, i, lead) IN
       Checked(<< <<point < lead.least \/ point \in Surrogates \/ point > MaxCodePoint,
                    "NotAScalar">> >>, [point |-> point, width |-> lead.width])

----------------------------------------------------------------------------
(* utf16_to_utf8 and utf8_to_utf16.  A turn says what it appends and how   *)
(* much it has read; from[i] is the conversion of what starts at i, and the*)
(* first refusal refuses the whole string.                                 *)
Turned(appended, width) ==
  IF appended.ok THEN Ok([out |-> appended.value, width |-> width]) ELSE appended
Utf16Turn(units, i) ==
  LET next == NextFromUtf16(units, i) IN
  IF next.ok THEN Turned(AppendUtf8(next.value.point), next.value.width) ELSE next
Utf8Turn(bytes, i) ==
  LET next == NextFromUtf8(bytes, i) IN
  IF next.ok THEN Turned(AppendUtf16(next.value.point), next.value.width) ELSE next

Before(out, rest) == IF rest.ok THEN Ok(out \o rest.value) ELSE rest
AllTurns(turns) ==
  LET from[i \in 1 .. Len(turns) + 1] ==
        IF i = Len(turns) + 1 THEN Ok(<<>>)
        ELSE IF turns[i].ok THEN Before(turns[i].value.out, from[i + turns[i].value.width])
        ELSE turns[i]
  IN from[1]

Utf16ToUtf8(units) == AllTurns([i \in DOMAIN units |-> Utf16Turn(units, i)])
Utf8ToUtf16(bytes) == AllTurns([i \in DOMAIN bytes |-> Utf8Turn(bytes, i)])

----------------------------------------------------------------------------
(* A string of Java is converted if and only if its surrogates are paired, *)
(* and converted back it is the same string.                               *)
Paired(units) ==
  \A i \in DOMAIN units :
    /\ units[i] \in HighSurrogates => i < Len(units) /\ units[i + 1] \in LowSurrogates
    /\ units[i] \in LowSurrogates => i > 1 /\ units[i - 1] \in HighSurrogates
JavaStringSurvives(units) ==
  LET bytes == Utf16ToUtf8(units) IN
  /\ bytes.ok <=> Paired(units)
  /\ bytes.ok => Utf8ToUtf16(bytes.value) = Ok(units)

(* A byte string that is accepted is the only one that means its string.   *)
BytesSurvive(bytes) ==
  LET units == Utf8ToUtf16(bytes) IN
  units.ok => Utf16ToUtf8(units.value) = Ok(bytes)
=============================================================================
