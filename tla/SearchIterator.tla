--------------------------- MODULE SearchIterator ---------------------------
(***************************************************************************)
(* zim::search_iterator of src/src/search_iterator.cpp, composed with the  *)
(* Search objects of module Search: each object's user holds the iterator  *)
(* begin() last returned and runs "for (; it != s.end(); ++it)", reading   *)
(* the result fields through the accessors.                                *)
(*                                                                         *)
(* An iterator is Nil (no InternalData) or a position in the MSet it was   *)
(* taken from.  Xapian decides which database each position's document     *)
(* comes from: a position is the archive of its document, or End, and the  *)
(* iterator remembers the set of databases of its MSet.  The raw pointer   *)
(* InternalData::search always designates the object the iterator came     *)
(* from.  Copies of iterators and operator-- are value operations that no  *)
(* loop over the results uses, and are left out.                           *)
(***************************************************************************)
EXTENDS Search

CONSTANTS
    SnippetKey,    \* the valuesmap key "snippet"
    SizeKey,       \* the valuesmap key "size"
    WordcountKey,  \* the valuesmap key "wordcount"
    End,           \* the position MSet::end()
    NoSlot         \* the field is not in the valuesmap: "", -1, or a generated snippet

ASSUME End \notin Arch

VARIABLE iter   \* iter[o]: the iterator the user of object o holds

ivars == <<vars, iter>>

(* The value slots of the documents of an index without valuesmap metadata *)
(* ("the old legacy version"): title 0, snippet 1, size 2, wordcount 3.     *)
LegacySlot == (TitleKey :> 0) @@ (SnippetKey :> 1) @@ (SizeKey :> 2) @@ (WordcountKey :> 3)

Fields == DOMAIN LegacySlot

(* The slot get_title(), get_snippet(), get_size() and get_wordCount() read *)
(* for field f through the valuesmap vm of the search: the legacy slot      *)
(* when vm is empty, vm[f] when f is a key of vm, no slot otherwise.        *)
Accessor(vm, f) ==
    IF vm = EmptyMap THEN LegacySlot[f]
    ELSE IF f \in DOMAIN vm THEN vm[f]
    ELSE NoSlot

-----------------------------------------------------------------------------
IterInit == Init /\ iter = [o \in Objs |-> Nil]

(* The iterator begin() returns: a new InternalData at MSet::begin(), the  *)
(* first result or End for an empty MSet.                                  *)
AtFirstResult(o) ==
    LET from == Range(internal'[o].results.dbs)
    IN  \E d \in from \cup {End} : iter' = Set(iter, o, [doc |-> d, from |-> from])

(* it = s.begin(), by each of the ways begin() returns.                    *)
UserBegin(o) ==
    \/ BeginNullInternal(o, "begin") /\ UNCHANGED iter
    \/ (BeginNoDatabase(o, "begin") \/ BeginParseError(o, "begin"))
           /\ iter' = Set(iter, o, Nil)
    \/ (BeginCached(o, "begin") \/ BeginResults(o, "begin")) /\ AtFirstResult(o)

(* get_matches_estimated() drops the iterator begin() returns.             *)
Estimate(o) == Begin(o, "estimate") /\ UNCHANGED iter

(* ++it: a no-op on a null iterator (a stuttering step), otherwise the     *)
(* next position of its MSet.  The loop never increments past End.         *)
Increment(o) ==
    /\ iter[o] # Nil /\ iter[o].doc # End
    /\ \E d \in iter[o].from \cup {End} : iter' = Set(iter, o, [iter[o] EXCEPT !.doc = d])
    /\ UNCHANGED vars

(* get_snippet() without a stored snippet (no "snippet" key, or an empty   *)
(* legacy slot 1) generates one from internal->search->internal->results:  *)
(* after operator= has reset the object's internal, that is a null         *)
(* dereference.  With internal set the call changes nothing.               *)
GetSnippet(o) ==
    /\ iter[o] # Nil /\ iter[o].doc \in Arch
    /\ Accessor(valuesmap[o], SnippetKey) \in {NoSlot, LegacySlot[SnippetKey]}
    /\ internal[o] = Nil
    /\ fault' = TRUE
    /\ UNCHANGED <<db, live, Config, Cache, iter>>

(* s.end(): nullptr without a database, else a new InternalData at End.    *)
EndIter(o) == IF ~hasDb[o] THEN Nil ELSE [doc |-> End, from |-> {}]

(* it == s.end(): two null iterators are equal, a null and a non-null one *)
(* are not, two non-null ones are when they are at the same position of    *)
(* the same search (here compared only against End).                       *)
ItEqual(i, j) ==
    IF i = Nil \/ j = Nil THEN i = j ELSE i.doc = End /\ j.doc = End

(* *it or it-> in the body of the loop, entered while it != s.end():      *)
(* operator* and operator-> call internal->get_entry() with no null test. *)
Deref(o) ==
    /\ ~ItEqual(iter[o], EndIter(o))
    /\ fault' = (fault \/ iter[o] = Nil)
    /\ UNCHANGED <<db, live, Config, Cache, iter>>

IterNext ==
    \/ ObjectNext /\ UNCHANGED iter
    \/ \E o \in Objs : UserBegin(o) \/ Estimate(o) \/ Increment(o) \/ GetSnippet(o)
                         \/ Deref(o)

IterSpec == IterInit /\ [][IterNext]_ivars

-----------------------------------------------------------------------------
(* Properties.                                                             *)

(* When begin() returns nullptr, end() returns nullptr too, so that the    *)
(* loop "for (it = s.begin(); it != s.end(); ++it)" runs zero times         *)
(* instead of calling the no-op ++ on a null iterator for ever.            *)
EmptyIterationEnds ==
    \A o \in live : lastBegin[o] = "null" => ItEqual(iter[o], EndIter(o))

(* Every field the accessors read for a result comes from the slot in      *)
(* which the result's own index stored it: the slot its database's          *)
(* valuesmap metadata names, or the legacy slot when it has none.  The      *)
(* accessors read the Search's valuesmap, which begin() took from an        *)
(* opened database and, in suggestion mode, extended with "title".          *)
AccessorsReadOwnSlots ==
    \A o \in live : iter[o] # Nil /\ iter[o].doc \in Arch =>
        \A f \in Fields :
            Accessor(valuesmap[o], f) = Accessor(ReadValuesmap(db[iter[o].doc].meta.vm).map, f)
=============================================================================
