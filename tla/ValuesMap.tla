----------------------------- MODULE ValuesMap -----------------------------
(***************************************************************************)
(* The "valuesmap" metadata parser of src/src/search.cpp: split() and      *)
(* read_valuesmap().  A string is a sequence of characters drawn from the  *)
(* strings; keys are strings, values the result of atoi().  The module    *)
(* FormatCheck checks these operators against a declarative reading of *)
(* the format spec.md gives.                                               *)
(***************************************************************************)
EXTENDS Naturals, Sequences, SequencesExt

(* The decimal digits atoi() accepts, with their values.                   *)
Digits == [c \in {"0", "1", "2", "3", "4", "5", "6", "7", "8", "9"} |->
              CHOOSE n \in 0 .. 9 :
                  <<"0", "1", "2", "3", "4", "5", "6", "7", "8", "9">>[n + 1] = c]

DigitSet == DOMAIN Digits

-----------------------------------------------------------------------------
(* split(str, delims): the maximal runs of non-delimiter characters, in    *)
(* order.  Empty tokens (leading, trailing or doubled delimiters) never    *)
(* appear because the loop restarts at find_first_not_of.                  *)
Split(s, D) ==
    LET RECURSIVE Go(_, _, _)
        Flush(cur, acc) == IF cur = <<>> THEN acc ELSE Append(acc, cur)
        Go(i, cur, acc) ==
            IF i > Len(s) THEN Flush(cur, acc)
            ELSE IF s[i] \in D THEN Go(i + 1, <<>>, Flush(cur, acc))
            ELSE Go(i + 1, Append(cur, s[i]), acc)
    IN  Go(1, <<>>, <<>>)

(* atoi(): the value of the leading run of digits, 0 when there is none.   *)
RECURSIVE AtoiFromAdd(_, _)
AtoiFromAdd(s, acc) ==
    IF s = <<>> \/ s[1] \notin DigitSet THEN acc
    ELSE AtoiFromAdd(Tail(s), acc + Digits[s[1]])

RECURSIVE AtoiFrom(_, _)
AtoiFrom(s, acc) ==
    IF s = <<>> \/ s[1] \notin DigitSet THEN acc
    ELSE AtoiFrom(Tail(s), 10 * acc + Digits[s[1]])

Atoi(s) == AtoiFrom(s, 0)

(* read_valuesmap(s): split on ';', split every element on ':', insert     *)
(* <<tmp_elems[0], atoi(tmp_elems[1])>> into a std::map.  insert() keeps   *)
(* the first value of a key.  An element with fewer than two ':'-fields    *)
(* reads tmp_elems[0] or tmp_elems[1] past the end of the vector: undefined*)
(* behaviour, recorded as ub and otherwise skipped.                        *)
InsertEntry(r, elem) ==
    LET t == Split(elem, {":"})
    IN  IF Len(t) < 2 THEN [r EXCEPT !.ub = TRUE]
        ELSE IF t[1] \in DOMAIN r.map THEN r
        ELSE [r EXCEPT !.map = r.map @@ (t[1] :> Atoi(t[2]))]

ReadValuesmap(s) ==
    FoldLeft(InsertEntry, [map |-> <<>>, ub |-> FALSE], Split(s, {";"}))
=============================================================================
