-------------------------------- MODULE Uuid --------------------------------
(***************************************************************************)
(* operator<<(ostream&, const Uuid&) of src/src/uuid.cpp: the 16 bytes of  *)
(* Uuid::data printed as lowercase hex in groups 4-2-2-2-6.  data is an   *)
(* array of char, whose signedness is the build's choice: a byte b >= 128  *)
(* is the value b - 256 when char is signed.  hi() and lo() promote the    *)
(* char to int; >> on a negative value is an arithmetic shift (floor       *)
(* division by 16) and & 0xf on two's complement is the remainder mod 16.  *)
(***************************************************************************)
EXTENDS Integers, Sequences, SequencesExt

HexDigits == <<"0", "1", "2", "3", "4", "5", "6", "7",
               "8", "9", "a", "b", "c", "d", "e", "f">>

(* The value of a char holding byte b.                                     *)
CharValue(b, signed) == IF signed /\ b >= 128 THEN b - 256 ELSE b

(* hex[i] for i in 0..15; any other index reads outside the array.        *)
HexAt(i) == IF i \in 0 .. 15 THEN HexDigits[i + 1] ELSE "?"

HiUnmasked(v) == HexAt(v \div 16)

(* hi(v) == hex[(v >> 4) & 0xf];  lo(v) == hex[v & 0xf]                    *)
Hi(v) == HexAt((v \div 16) % 16)
Lo(v) == HexAt(v % 16)

(* The loops over data[first .. last].                                     *)
Group(data, signed, first, last) ==
    FlattenSeq([n \in 1 .. last - first + 1 |->
                  LET v == CharValue(data[first + n - 1], signed)
                  IN  <<Hi(v), Lo(v)>>])

Format(data, signed) ==
    Group(data, signed, 0, 3) \o <<"-">> \o Group(data, signed, 4, 5) \o <<"-">>
      \o Group(data, signed, 6, 7) \o <<"-">> \o Group(data, signed, 8, 9)
      \o <<"-">> \o Group(data, signed, 10, 15)
=============================================================================
