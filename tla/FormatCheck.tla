---------------------------- MODULE FormatCheck ----------------------------
(***************************************************************************)
(* The two text conversions of the library checked against reference      *)
(* definitions over bounded inputs:                                        *)
(*  - read_valuesmap() of src/src/search.cpp (module ValuesMap) on every   *)
(*    bounded metadata string, against the format spec.md gives: "';'     *)
(*    between entries and ':' between key and value";                      *)
(*  - operator<< of Uuid in src/src/uuid.cpp (module Uuid) on byte arrays  *)
(*    holding every byte value at every position, with char signed and     *)
(*    unsigned, against the canonical 8-4-4-4-12 lowercase hex text.       *)
(***************************************************************************)
EXTENDS ValuesMap, Uuid

CONSTANTS
    Chars,      \* the alphabet of the short arbitrary input strings
    MaxLen,     \* longest arbitrary input string
    Keys,       \* keys of the well-formed entry lists
    Values,     \* digit strings of the well-formed entry lists
    MaxEntries  \* most entries in a well-formed entry list

ASSUME {";", ":"} \subseteq Chars

-----------------------------------------------------------------------------
(* The reference reading of the format: s is a ';'-separated list of       *)
(* entries "key:digits" with a non-empty key free of ':' and ';'.  An      *)
(* entry is a triple <<i, j, l>>: key s[i..j-1], ':' at j, value s[j+1..l].*)
Separators == {";", ":"}

IsEntry(s, i, j, l) ==
    /\ 1 <= i /\ i < j /\ j < l /\ l <= Len(s)
    /\ i = 1 \/ s[i - 1] = ";"
    /\ l = Len(s) \/ s[l + 1] = ";"
    /\ s[j] = ":"
    /\ \A p \in i .. j - 1 : s[p] \notin Separators
    /\ \A p \in j + 1 .. l : s[p] \in DigitSet

Entries(s) == {e \in (1 .. Len(s)) \X (1 .. Len(s)) \X (1 .. Len(s)) :
                   IsEntry(s, e[1], e[2], e[3])}

(* Well formed: every position of s is inside an entry or is a ';' that    *)
(* separates two entries.                                                  *)
WellFormed(s) ==
    /\ s # <<>>
    /\ \A p \in 1 .. Len(s) :
          \/ \E e \in Entries(s) : e[1] <= p /\ p <= e[3]
          \/ s[p] = ";" /\ 1 < p /\ p < Len(s)

RefKeys(s) == {SubSeq(s, e[1], e[2] - 1) : e \in Entries(s)}

(* The decimal value of a digit string, positionally.                     *)
RefNumber(ds) ==
    FoldLeft(LAMBDA a, b : a + b, 0,
             [i \in 1 .. Len(ds) |-> Digits[ds[i]] * 10 ^ (Len(ds) - i)])

RefValue(s, k) ==
    LET first == CHOOSE e \in Entries(s) :
                    /\ SubSeq(s, e[1], e[2] - 1) = k
                    /\ \A f \in Entries(s) : SubSeq(s, f[1], f[2] - 1) = k => e[1] <= f[1]
    IN  RefNumber(SubSeq(s, first[2] + 1, first[3]))

RefMap(s) == [k \in RefKeys(s) |-> RefValue(s, k)]

-----------------------------------------------------------------------------
(* The reference text of a UUID: 36 characters, '-' at 9, 14, 19 and 24,  *)
(* elsewhere the hex digits of the unsigned bytes, high nibble first.      *)
Dashes == {9, 14, 19, 24}

RefFormat(data) ==
    [p \in 1 .. 36 |->
        IF p \in Dashes THEN "-"
        ELSE LET q == p - Cardinality({d \in Dashes : d < p})  \* nibble 1..32
                 b == data[(q - 1) \div 2]
             IN  HexDigits[(IF q % 2 = 1 THEN b \div 16 ELSE b % 16) + 1]]

(* Byte arrays data[0..15]: consecutive and stride-17 runs from every      *)
(* start, so every byte value occurs at every position.                    *)
UuidInputs == {[n \in 0 .. 15 |-> (m * n + c) % 256] : m \in {1, 17}, c \in 0 .. 255}

-----------------------------------------------------------------------------
(* A behaviour converts one input once: either a database's valuesmap      *)
(* metadata (read_valuesmap) or a Uuid (operator<<).                       *)
VARIABLES str, parsed, uuid, text

vars == <<str, parsed, uuid, text>>

(* The metadata strings read: every short string over Chars (the         *)
(* malformed shapes), and the ';'-joined lists of up to MaxEntries         *)
(* entries "key:value" over Keys and Values, repeated keys included.        *)
EntryStrings == {k \o <<":">> \o v : k \in Keys, v \in Values}

EntryLists ==
    {FoldLeft(LAMBDA a, b : a \o <<";">> \o b, es[1], Tail(es)) :
        es \in UNION {[1 .. n -> EntryStrings] : n \in 1 .. MaxEntries}}

Strings == BoundedSeq(Chars, MaxLen) \cup EntryLists

NoUuid == [data |-> <<>>, signed |-> FALSE]

Init == /\ parsed = [map |-> <<>>, ub |-> FALSE, done |-> FALSE]
        /\ text = <<>>
        /\ \/ str \in Strings /\ uuid = NoUuid
           \/ str = <<>> /\ uuid \in [data : UuidInputs, signed : BOOLEAN]

Read == /\ ~parsed.done
        /\ uuid = NoUuid
        /\ LET r == ReadValuesmap(str)
           IN  parsed' = [map |-> r.map, ub |-> r.ub, done |-> TRUE]
        /\ UNCHANGED <<str, uuid, text>>

Stream == /\ text = <<>>
         /\ uuid # NoUuid
         /\ text' = Format(uuid.data, uuid.signed)
         /\ UNCHANGED <<str, parsed, uuid>>

Spec == Init /\ [][Read \/ Stream]_vars

(* read_valuesmap() agrees with the documented format: on every well      *)
(* formed string it yields exactly the key/value pairs written there, the  *)
(* first value winning for a repeated key, and reads nothing out of range. *)
ParsesDocumentedFormat ==
    parsed.done /\ WellFormed(str) => ~parsed.ub /\ parsed.map = RefMap(str)

(* read_valuesmap() never indexes past the end of the vector split()       *)
(* returns, whatever metadata string the archive holds.                    *)
ValuesmapDefined == parsed.done => ~parsed.ub

(* Uuid's operator<< prints the canonical text of the 16 bytes whether     *)
(* the build's char is signed or not: hi() must mask the sign bits that    *)
(* the shift of a negative char brings in.                                 *)
UuidFormat == text # <<>> => text = RefFormat(uuid.data)
=============================================================================
