------------------------------ MODULE MCSearch ------------------------------
(* Two Search objects over two archives.  An archive holds a full-text     *)
(* index, a title index or both, which may be unusable (stored compressed  *)
(* or failing to open); the two metadata sets differ in valuesmap and in   *)
(* whether the prefixes name the title prefix "S".                         *)
EXTENDS SearchIterator

CONSTANTS o1, o2, a1, a2

MCObjs == {o1, o2}
MCArch == {a1, a2}

MCGeoKey == <<"g">>
MCTitleKey == <<"t">>
MCSnippetKey == <<"n">>
MCSizeKey == <<"z">>
MCWordcountKey == <<"w">>

Meta1 == [vm |-> <<"t", ":", "0", ";", "g", ":", "1">>, prefixes |-> <<"S">>]
Meta2 == [vm |-> <<"t", ":", "1">>, prefixes |-> <<>>]
MetaLegacy == [vm |-> <<>>, prefixes |-> <<"S">>]   \* an index without valuesmap

Kind(t, f, u, m) == [title |-> t, fulltext |-> f, usable |-> u, meta |-> m]

MCArchiveKinds ==
    { Kind(FALSE, TRUE, TRUE, Meta1),
      Kind(TRUE, FALSE, TRUE, Meta2),
      Kind(TRUE, TRUE, TRUE, Meta2),
      Kind(FALSE, TRUE, FALSE, Meta1),
      Kind(FALSE, TRUE, TRUE, MetaLegacy) }
=============================================================================
