------------------------------- MODULE Search -------------------------------
(***************************************************************************)
(* zim::Search of src/src/search.cpp: the configuration setters, the copy  *)
(* operations, and begin() with its per-archive loop that opens the Xapian *)
(* databases, its search_started cache and its two nullptr returns.        *)
(* Xapian is abstracted: a database is the archive it was opened from, a   *)
(* parse of the query fails exactly for the queries in BadQueries, and the *)
(* MSet is a record of what the enquire was built from.                    *)
(***************************************************************************)
EXTENDS Naturals, Sequences, FiniteSets, SequencesExt, ValuesMap

CONSTANTS
    Objs,          \* the Search objects
    Arch,          \* the archives
    ArchiveKinds,  \* what an archive may hold: indexes, usability, metadata
    Queries,       \* the query strings
    EmptyQuery,    \* ""
    BadQueries,    \* the queries parse_query() rejects with QueryParserError
    GeoKey,        \* the valuesmap key "geo.position"
    TitleKey,      \* the valuesmap key "title"
    MaxArchives,   \* bound on the length of m_archives
    Nil            \* a null internal / no MSet

ASSUME EmptyQuery \in Queries /\ BadQueries \subseteq Queries

(* Bound on the length of internal->xapian_databases.  One begin() appends *)
(* at most MaxArchives databases, so a begin() that would pass the bound   *)
(* starts from a list that already holds a duplicate: the bound never      *)
(* hides the first duplicate.                                              *)
MaxDbs == 2 * MaxArchives

VARIABLES
    db,          \* db[a]: the content of archive a (fixed)
    live,        \* the constructed Search objects
    archives,    \* m_archives
    query,       \* query
    sugg,        \* suggestion_mode
    geo,         \* geo_query
    prefixes,    \* prefixes (metadata string of the index)
    valuesmap,   \* valuesmap (key -> value slot)
    started,     \* search_started
    hasDb,       \* has_database
    internal,    \* internal: Nil or [dbs |-> xapian_databases, results |-> MSet or Nil]
    estimated,   \* estimated_matches_number: 0 or the MSet's estimate
    lastBegin,   \* what the caller's last begin() returned: "none", "null" or "iter"
    fault        \* a null internal has been dereferenced

vars == <<db, live, archives, query, sugg, geo, prefixes, valuesmap, started,
          hasDb, internal, estimated, lastBegin, fault>>

Config == <<archives, query, sugg, geo, prefixes>>
Cache == <<valuesmap, started, hasDb, internal, estimated, lastBegin>>

MSetEstimate == 1   \* stands for get_matches_estimated() of the MSet
EmptyMap == <<>>
FreshInternal == [dbs |-> <<>>, results |-> Nil]

Set(f, o, v) == [f EXCEPT ![o] = v]

-----------------------------------------------------------------------------
(* Constructors: Search(vector<Archive>) and Search(Archive).              *)
Init ==
    /\ db \in [Arch -> ArchiveKinds]
    /\ live = {}
    /\ archives = [o \in Objs |-> <<>>]
    /\ query = [o \in Objs |-> EmptyQuery]
    /\ sugg = [o \in Objs |-> FALSE]
    /\ geo = [o \in Objs |-> FALSE]
    /\ prefixes = [o \in Objs |-> <<>>]
    /\ valuesmap = [o \in Objs |-> EmptyMap]
    /\ started = [o \in Objs |-> FALSE]
    /\ hasDb = [o \in Objs |-> FALSE]
    /\ internal = [o \in Objs |-> FreshInternal]
    /\ estimated = [o \in Objs |-> 0]
    /\ lastBegin = [o \in Objs |-> "none"]
    /\ fault = FALSE

Construct(o, as) ==
    /\ o \notin live
    /\ live' = live \cup {o}
    /\ archives' = Set(archives, o, as)
    /\ UNCHANGED <<db, query, sugg, geo, prefixes, valuesmap, started, hasDb,
                   internal, estimated, lastBegin, fault>>

(* Search(const Search&): the configuration and prefixes are copied, the   *)
(* cache starts over with a new InternalData; valuesmap is not copied.     *)
CopyConstruct(o, src) ==
    /\ o \notin live /\ src \in live
    /\ live' = live \cup {o}
    /\ archives' = Set(archives, o, archives[src])
    /\ query' = Set(query, o, query[src])
    /\ sugg' = Set(sugg, o, sugg[src])
    /\ geo' = Set(geo, o, geo[src])
    /\ prefixes' = Set(prefixes, o, prefixes[src])
    /\ UNCHANGED <<db, valuesmap, started, hasDb, internal, estimated, lastBegin, fault>>

CopyAssign(o, src) ==
    /\ {o, src} \subseteq live
    /\ archives' = Set(archives, o, archives[src])
    /\ query' = Set(query, o, query[src])
    /\ sugg' = Set(sugg, o, sugg[src])
    /\ geo' = Set(geo, o, geo[src])
    /\ prefixes' = Set(prefixes, o, prefixes[src])
    /\ internal' = Set(internal, o, Nil)
    /\ started' = Set(started, o, FALSE)
    /\ hasDb' = Set(hasDb, o, FALSE)
    /\ estimated' = Set(estimated, o, 0)
    /\ UNCHANGED <<db, live, valuesmap, lastBegin, fault>>

-----------------------------------------------------------------------------
(* Setters.  set_range and set_verbose only change the MSet window and the *)
(* logging and are left out.                                               *)
AddArchive(o, a) ==
    /\ o \in live /\ Len(archives[o]) < MaxArchives
    /\ archives' = Set(archives, o, Append(archives[o], a))
    /\ UNCHANGED <<db, live, query, sugg, geo, prefixes, Cache, fault>>

SetQuery(o, q) ==
    /\ o \in live
    /\ query' = Set(query, o, q)
    /\ UNCHANGED <<db, live, archives, sugg, geo, prefixes, Cache, fault>>

SetGeorange(o) ==
    /\ o \in live
    /\ geo' = Set(geo, o, TRUE)
    /\ UNCHANGED <<db, live, archives, query, sugg, prefixes, Cache, fault>>

SetSuggestionMode(o, b) ==
    /\ o \in live
    /\ sugg' = Set(sugg, o, b)
    /\ UNCHANGED <<db, live, archives, query, geo, prefixes, Cache, fault>>

-----------------------------------------------------------------------------
(* The loop of begin() over m_archives.  The title index is looked up only *)
(* in suggestion mode and its presence sets hasNewSuggestionFormat before  *)
(* any other check; the full-text index (X or Z namespace) is the         *)
(* fallback.  An archive whose index cannot be used (no direct access,    *)
(* open, seek or Database constructor failing) is skipped.  "first" is    *)
(* never set to FALSE, so every database opened overwrites valuesmap and  *)
(* prefixes.                                                               *)
Searchable(o, a) == (sugg[o] /\ db[a].title) \/ db[a].fulltext

LoopStep(o, st, a) ==
    LET st1 == [st EXCEPT !.newSugg = @ \/ (sugg[o] /\ db[a].title)]
    IN  IF ~Searchable(o, a) \/ ~db[a].usable THEN st1
        ELSE [st1 EXCEPT
                !.vm = IF st1.first THEN ReadValuesmap(db[a].meta.vm).map ELSE @,
                !.prefixes = IF st1.first THEN db[a].meta.prefixes ELSE @,
                !.dbs = Append(@, a),
                !.has = TRUE]

BeginLoop(o) ==
    FoldLeft(LAMBDA st, a : LoopStep(o, st, a),
             [first |-> TRUE, newSugg |-> FALSE, vm |-> valuesmap[o],
              prefixes |-> prefixes[o], dbs |-> internal[o].dbs, has |-> hasDb[o]],
             archives[o])

(* The state the loop leaves behind, whichever way begin() returns.        *)
LoopEffects(o, st) ==
    /\ valuesmap' = Set(valuesmap, o, st.vm)
    /\ prefixes' = Set(prefixes, o, st.prefixes)
    /\ hasDb' = Set(hasDb, o, st.has)

(* begin() returns an iterator or nullptr; get_matches_estimated() calls   *)
(* begin() and drops what it returns.                                      *)
Returned(o, caller, r) ==
    lastBegin' = IF caller = "begin" THEN Set(lastBegin, o, r) ELSE lastBegin

BeginCached(o, caller) ==
    /\ o \in live /\ started[o]
    /\ Returned(o, caller, "iter")
    /\ UNCHANGED <<db, live, Config, valuesmap, started, hasDb, internal, estimated, fault>>

(* With internal reset by operator=, the first database found is pushed   *)
(* through a null pointer.                                                 *)
BeginNullInternal(o, caller) ==
    /\ o \in live /\ ~started[o] /\ internal[o] = Nil
    /\ \E i \in DOMAIN archives[o] :
          Searchable(o, archives[o][i]) /\ db[archives[o][i]].usable
    /\ fault' = TRUE
    /\ UNCHANGED <<db, live, Config, Cache>>

(* No archive gives a usable index: nothing is pushed (through a null    *)
(* internal either), valuesmap and prefixes stay, and begin() returns      *)
(* nullptr.                                                                *)
BeginNoDatabase(o, caller) ==
    /\ o \in live /\ ~started[o] /\ ~hasDb[o]
    /\ \A a \in Range(archives[o]) : ~Searchable(o, a) \/ ~db[a].usable
    /\ estimated' = Set(estimated, o, 0)
    /\ Returned(o, caller, "null")
    /\ UNCHANGED <<db, live, Config, valuesmap, started, hasDb, internal, fault>>

BeginParseError(o, caller) ==
    /\ o \in live /\ ~started[o] /\ internal[o] # Nil
    /\ LET st == BeginLoop(o)
       IN  /\ st.has /\ Len(st.dbs) <= MaxDbs
           /\ query[o] \in BadQueries
           /\ LoopEffects(o, st)
           /\ internal' = Set(internal, o, [internal[o] EXCEPT !.dbs = st.dbs])
    /\ estimated' = Set(estimated, o, 0)
    /\ Returned(o, caller, "null")
    /\ UNCHANGED <<db, live, archives, query, sugg, geo, started, fault>>

(* The MSet.  In suggestion mode valuesmap["title"] (operator[]) inserts   *)
(* the key with slot 0 when it is absent, so the collapse key is always    *)
(* set; the title prefix "S" is used only for an old-format index whose    *)
(* prefixes metadata names it; geo filtering needs the geo.position slot.  *)
WithTitle(o, vm) == IF sugg[o] /\ TitleKey \notin DOMAIN vm THEN vm @@ (TitleKey :> 0) ELSE vm

MSet(o, st, vm) ==
    [dbs |-> st.dbs,
     query |-> query[o],
     prefix |-> sugg[o] /\ ~st.newSugg /\ "S" \in Range(st.prefixes),
     geoFilter |-> geo[o] /\ GeoKey \in DOMAIN st.vm,
     collapse |-> sugg[o] /\ TitleKey \in DOMAIN vm]

BeginResultsUncached(o, caller) ==
    /\ o \in live /\ internal[o] # Nil
    /\ LET st == BeginLoop(o)
           vm == WithTitle(o, st.vm)
       IN  /\ st.has /\ Len(st.dbs) <= MaxDbs
           /\ query[o] \notin BadQueries
           /\ valuesmap' = Set(valuesmap, o, vm)
           /\ prefixes' = Set(prefixes, o, st.prefixes)
           /\ hasDb' = Set(hasDb, o, TRUE)
           /\ internal' = Set(internal, o, [dbs |-> st.dbs, results |-> MSet(o, st, vm)])
    /\ started' = Set(started, o, TRUE)
    /\ estimated' = Set(estimated, o, MSetEstimate)
    /\ Returned(o, caller, "iter")
    /\ UNCHANGED <<db, live, archives, query, sugg, geo, fault>>

BeginResults(o, caller) ==
    /\ o \in live /\ ~started[o] /\ internal[o] # Nil
    /\ LET st == BeginLoop(o)
           vm == WithTitle(o, st.vm)
       IN  /\ st.has /\ Len(st.dbs) <= MaxDbs
           /\ query[o] \notin BadQueries
           /\ valuesmap' = Set(valuesmap, o, vm)
           /\ prefixes' = Set(prefixes, o, st.prefixes)
           /\ hasDb' = Set(hasDb, o, TRUE)
           /\ internal' = Set(internal, o, [dbs |-> st.dbs, results |-> MSet(o, st, vm)])
    /\ started' = Set(started, o, TRUE)
    /\ estimated' = Set(estimated, o, MSetEstimate)
    /\ Returned(o, caller, "iter")
    /\ UNCHANGED <<db, live, archives, query, sugg, geo, fault>>

Begin(o, caller) ==
    \/ BeginCached(o, caller)
    \/ BeginNullInternal(o, caller)
    \/ BeginNoDatabase(o, caller)
    \/ BeginParseError(o, caller)
    \/ BeginResults(o, caller)

-----------------------------------------------------------------------------
ArchiveSeqs == BoundedSeq(Arch, MaxArchives)

(* The operations other than begin().                                     *)
ObjectNext ==
    \/ \E o \in Objs, as \in ArchiveSeqs : Construct(o, as)
    \/ \E o, src \in Objs : CopyConstruct(o, src) \/ CopyAssign(o, src)
    \/ \E o \in Objs, a \in Arch : AddArchive(o, a)
    \/ \E o \in Objs, q \in Queries : SetQuery(o, q)
    \/ \E o \in Objs : SetGeorange(o)
    \/ \E o \in Objs, b \in BOOLEAN : SetSuggestionMode(o, b)

Next ==
    \/ ObjectNext
    \/ \E o \in Objs, caller \in {"begin", "estimate"} : Begin(o, caller)

Spec == Init /\ [][Next]_vars
-----------------------------------------------------------------------------
(* Properties.                                                             *)
Occurrences(s, a) == Cardinality({i \in DOMAIN s : s[i] = a})

(* Every archive's database is added to internal->xapian_databases (and to *)
(* the combined Xapian database) at most as often as the archive appears   *)
(* in m_archives, however often begin() and get_matches_estimated() are    *)
(* called: a database added twice returns every match twice.               *)
NoDuplicateDatabases ==
    \A o \in Objs : internal[o] # Nil =>
        \A a \in Arch : Occurrences(internal[o].dbs, a) <= Occurrences(archives[o], a)

NoNullInternalUse == ~fault
=============================================================================
