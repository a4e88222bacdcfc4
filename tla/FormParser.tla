------------------------------ MODULE FormParser ------------------------------
(* ui/form_parser.c, and the encoding of ui/web_assets/index.html it undoes. A  *)
(* byte is a number, a string the sequence of its bytes without the final NUL.  *)
EXTENDS Integers, Sequences, FiniteSetsExt

CONSTANTS
  MaxFields,  \* FORM_MAX_FIELDS
  KeyLen,     \* FORM_MAX_KEY_LEN, the NUL included
  ValLen      \* FORM_MAX_VAL_LEN, the NUL included

ASSUME FormAssumption ==
  MaxFields \in Nat \ {0} /\ KeyLen \in Nat \ {0} /\ ValLen \in Nat \ {0}

NUL == 0
Space == 32
Percent == 37
Ampersand == 38
Plus == 43
Equals == 61

Digits == 48..57
Upper == 65..90
Lower == 97..122

\* NULL: no string holds a NUL.
Absent == <<NUL>>

-----------------------------------------------------------------------------
\* The page: encodeURIComponent, and the body it makes of keys and values.

HexDigit(n) == IF n < 10 THEN 48 + n ELSE 55 + n

\* encodeURIComponent leaves letters, digits and - _ . ! ~ * ' ( ) alone.
Unreserved == Digits \cup Upper \cup Lower \cup {45, 95, 46, 33, 126, 42, 39, 40, 41}

EncodeByte(b) ==
  IF b \in Unreserved THEN <<b>> ELSE <<Percent, HexDigit(b \div 16), HexDigit(b % 16)>>

EncodeURIComponent(s) ==
  LET From[i \in 1..Len(s) + 1] == IF i > Len(s) THEN <<>> ELSE EncodeByte(s[i]) \o From[i + 1]
  IN  From[1]

\* What the page's forms are made of: its script writes the keys as they are, and
\* what a user types has no NUL.
Chars == 1..255
Fields == [key : Seq(Unreserved), value : Seq(Chars)]

EncodeField(field) == field.key \o <<Equals>> \o EncodeURIComponent(field.value)

\* The body of a form, a sequence of fields.
Body(form) ==
  LET From[i \in 1..Len(form) + 1] ==
        IF i > Len(form) THEN <<>>
        ELSE (IF i = 1 THEN <<>> ELSE <<Ampersand>>) \o EncodeField(form[i]) \o From[i + 1]
  IN  From[1]

-----------------------------------------------------------------------------
\* form_parser.c

DigitValue(c) ==
  CASE c \in Digits -> c - 48
    [] c \in 65..70 -> c - 55
    [] c \in 97..102 -> c - 87
    [] OTHER -> 0

hex_decode(high, low) == (16 * DigitValue(high) + DigitValue(low)) % 256

\* What string functions see of a buffer.
CString(buffer) ==
  SubSeq(buffer, 1, Min({i \in 1..Len(buffer) : buffer[i] = NUL} \cup {Len(buffer) + 1}) - 1)

\* Fault: an escape at the very end of the source not decoded.
FaultyUrlDecode(src, dst_len) ==
  LET From[i \in 1..Len(src) + 1] ==
        IF i > Len(src) THEN <<>>
        ELSE IF src[i] = Percent /\ i + 2 < Len(src)
             THEN <<hex_decode(src[i + 1], src[i + 2])>> \o From[i + 3]
             ELSE <<IF src[i] = Plus THEN Space ELSE src[i]>> \o From[i + 1]
  IN  CString(SubSeq(From[1], 1, Min({dst_len - 1, Len(From[1])})))

\* As much of the source as fits; a % without two characters after it stands for
\* itself.
url_decode(src, dst_len) ==
  LET From[i \in 1..Len(src) + 1] ==
        IF i > Len(src) THEN <<>>
        ELSE IF src[i] = Percent /\ i + 2 <= Len(src)
             THEN <<hex_decode(src[i + 1], src[i + 2])>> \o From[i + 3]
             ELSE <<IF src[i] = Plus THEN Space ELSE src[i]>> \o From[i + 1]
  IN  CString(SubSeq(From[1], 1, Min({dst_len - 1, Len(From[1])})))

\* The first place of byte c in data from pos on, or end.
Find(data, c, pos, end) == Min({i \in pos..end - 1 : data[i] = c} \cup {end})

ParseField(data, pos, end) ==
  LET sep == Find(data, Equals, pos, end)
  IN  [key   |-> url_decode(SubSeq(data, pos, sep - 1), KeyLen),
       value |-> url_decode(SubSeq(data, sep + 1, end - 1), ValLen)]

\* The fields of a body, as many as there is room for; nothing follows a last &.
form_parser_parse(data) ==
  LET From[pos \in 1..Len(data) + 2] ==
        IF pos > Len(data) THEN <<>>
        ELSE LET end == Find(data, Ampersand, pos, Len(data) + 1)
             IN  <<ParseField(data, pos, end)>> \o From[end + 1]
  IN  SubSeq(From[1], 1, Min({MaxFields, Len(From[1])}))

form_parser_get_value(fields, key) ==
  LET with == {i \in DOMAIN fields : fields[i].key = key}
  IN  IF with = {} THEN Absent ELSE fields[Min(with)].value

\* What a field of the form's is when it fits a form_field_t.
Stored(field) == SubSeq(field.value, 1, Min({ValLen - 1, Len(field.value)}))

=============================================================================
