--------------------------------- MODULE Bext ---------------------------------
(***************************************************************************)
(* pcm.Bext: the Broadcast Wave description, its check, its serialised     *)
(* form and the parse of a stored one.                                     *)
(*                                                                         *)
(* A text is a sequence of characters, of which only the kind matters:     *)
(* "text" for printable ASCII, "line" for CR and LF, "NUL", and "other".   *)
(* Runs of printable characters that a date or a time is made of stand for *)
(* one character each: "date" for YYYY-MM-DD, "clock" for H:MM:SS, after   *)
(* which a "point" and each "digit" of a fraction may follow and before    *)
(* which the tens of the hour may stand, a "digit" too.  A body is the     *)
(* record of its fields, with tail for the bytes after the fixed part.     *)
(***************************************************************************)
EXTENDS Integers, Sequences, SequencesExt

CONSTANTS bextFixedSize,   \* length of the fixed part, 602 in the code
          width,           \* the width of each text field
          WordSize         \* values of one word of the time reference, 2^32

FreeTexts == {"Description", "Originator", "OriginatorReference"}
Dates == {"OriginationDate", "OriginationTime"}
Texts == FreeTexts \cup Dates

Printable == {"text", "date", "clock", "point", "digit"}
Chars == Printable \cup {"line", "NUL", "other"}

ASSUME BextAssumption ==
    /\ bextFixedSize \in Nat \ {0} /\ WordSize \in Nat \ {0}
    /\ width \in [Texts -> Nat \ {0}]
    /\ width["OriginationDate"] = 1   \* YYYY-MM-DD
    /\ width["OriginationTime"] = 2   \* HH:MM:SS

(* The values of a description.                                            *)
Uint64 == 0 .. WordSize * WordSize - 1
Int16 == {l \in Int : -32768 <= l /\ l <= 32767}
BextType == [texts : [Texts -> Seq(Chars)], timeReference : Uint64, version : Nat,
             umid : Nat, loudness : Int16, codingHistory : Seq(Chars)]

(* A body of this length, by whoever wrote it.                             *)
IsBody(b, len) ==
    /\ b \in [fields : [Texts -> Seq(Chars)], low : Nat, high : Nat, version : Nat,
               umid : Nat, loudness : Nat, tail : Seq(Chars)]
    /\ \A f \in Texts : Len(b.fields[f]) = width[f]
    /\ len >= bextFixedSize => Len(b.tail) = len - bextFixedSize

checkText(s) == Range(s) \subseteq Printable \cup {"line"}
checkTextWidth(s, w) == Len(s) <= w /\ checkText(s)

(* What time.Parse takes for DateOnly and for TimeOnly: the hour may have  *)
(* one digit, and a fraction of any length may follow the seconds although *)
(* the layout has none.                                                    *)
DateOnly(s) == s = <<"date">>
TimeOnly(s) ==
    \E i \in 1 .. 2 :
        /\ i <= Len(s) /\ s[i] = "clock" /\ (i = 2 => s[1] = "digit")
        /\ Len(s) > i => /\ Len(s) >= i + 2 /\ s[i + 1] = "point"
                         /\ \A j \in i + 2 .. Len(s) : s[j] = "digit"

(* No width is checked.                                                    *)
checkDateTime(f, s) ==
    s # <<>> => IF f = "OriginationDate" THEN DateOnly(s) ELSE TimeOnly(s)

(* A field set although the version does not admit it would be lost.       *)
validate(b) ==
    /\ \A f \in FreeTexts : checkTextWidth(b.texts[f], width[f])
    /\ \A f \in Dates : checkDateTime(f, b.texts[f])
    /\ checkText(b.codingHistory)
    /\ b.umid # 0 => b.version >= 1
    /\ b.loudness # 0 => b.version >= 2

(* What is longer than the field is cut to it.                             *)
fitting(s, w) == IF Len(s) <= w THEN s ELSE SubSeq(s, 1, w)
appendPadded(s, w) ==
    LET field == fitting(s, w) IN field \o [i \in 1 .. w - Len(field) |-> "NUL"]

putInt16LE(v) == v % 65536
getInt16LE(u) == IF u >= 32768 THEN u - 65536 ELSE u

serialize(b) ==
    [fields |-> [f \in Texts |-> appendPadded(b.texts[f], width[f])],
     low |-> b.timeReference % WordSize,
     high |-> (b.timeReference \div WordSize) % WordSize,
     version |-> b.version, umid |-> b.umid, loudness |-> putInt16LE(b.loudness),
     tail |-> b.codingHistory]

serializedLen(b) == bextFixedSize + Len(b.codingHistory)

cutAtNUL(s) ==
    SubSeq(s, 1, IF "NUL" \in Range(s) THEN SelectInSeq(s, LAMBDA c : c = "NUL") - 1 ELSE Len(s))

(* Slip: the fields are read whatever the version.                         *)
parseBext_ungated(body, len) ==
    [texts |-> [f \in Texts |-> cutAtNUL(body.fields[f])],
     timeReference |-> body.low + body.high * WordSize,
     version |-> body.version, umid |-> body.umid, loudness |-> getInt16LE(body.loudness),
     codingHistory |-> cutAtNUL(SubSeq(body.tail, 1, len - bextFixedSize))]

(* Of a body at least bextFixedSize long, else it is corrupt.  Below their *)
(* version UMID and loudness are reserved bytes that may hold anything.    *)
parseBext(body, len) ==
    [texts |-> [f \in Texts |-> cutAtNUL(body.fields[f])],
     timeReference |-> body.low + body.high * WordSize,
     version |-> body.version,
     umid |-> IF body.version >= 1 THEN body.umid ELSE 0,
     loudness |-> IF body.version >= 2 THEN getInt16LE(body.loudness) ELSE 0,
     codingHistory |-> cutAtNUL(SubSeq(body.tail, 1, len - bextFixedSize))]
=============================================================================
