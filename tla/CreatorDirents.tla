---------------------------- MODULE CreatorDirents ----------------------------
(***************************************************************************)
(* The directory-entry bookkeeping of zim::writer::CreatorData            *)
(* (src/src/writer/creator.cpp): createDirent / createRedirectDirent /    *)
(* addDirent with its duplicate policy, getMimeTypeIdx, and the part of   *)
(* finishZimCreation that turns the dirent set into the archive's entry   *)
(* table: favicon and mainPage redirects, resolveRedirectIndexes,         *)
(* setEntryIndexes, resolveMimeTypes, createTitleIndex and the dirent     *)
(* part of write().                                                        *)
(*                                                                         *)
(* Everything here runs on the producer thread.  Blobs and clusters are   *)
(* in ClusterPipeline; here a dirent only records that addItemData was     *)
(* called for it.  Namespaces are their ASCII codes, paths and mimetypes  *)
(* are numbers whose order is the byte order of the strings they stand   *)
(* for.  A dirent is identified by the order pool.getDirent() returned it.*)
(***************************************************************************)
EXTENDS Naturals, Integers, Sequences, FiniteSets, SequencesExt, Functions

CONSTANTS
  Paths,        \* item paths and redirect paths/targets in namespace 'C'
  MetaNames,    \* metadata names (namespace 'M')
  Mimes,        \* non-empty mimetype strings, in byte order
  Titles,       \* item and redirect titles, in the byte order shared with paths
  OctetStream,  \* "application/octet-stream", used for an empty mimetype
  MimeLimit,    \* std::numeric_limits<uint16_t>::max(), scaled down
  MaxCalls      \* bound on addItem / addMetadata / addRedirection calls

ASSUME /\ Paths \subseteq Nat /\ MetaNames \subseteq Nat /\ Mimes \subseteq Nat
       /\ Titles \subseteq Nat /\ 0 \notin Paths \cup MetaNames
       /\ OctetStream \in Mimes /\ 0 \notin Mimes
       /\ MimeLimit \in Nat /\ MaxCalls \in Nat

NsDash == 45  \* '-'
NsC    == 67  \* 'C'
NsM    == 77  \* 'M'
Favicon  == 1 \* "favicon" < "mainPage"
MainPage == 2
EmptyMime == 0
EmptyTitle == 0
None == -1    \* nullptr, an unset entry index, an unset main page

VARIABLES
  pool,           \* every dirent created: [ns, path, title, redirect, targetNs, targetPath, mime]
  dirents,        \* ids in the url-ordered set data->dirents
  unresolved,     \* ids in unresolvedRedirectDirents
  blobOf,         \* ids for which addItemData was called
  mimeTypesMap,   \* mimetype -> index, in insertion order (rmimeTypesMap is its inverse)
  nextMimeIdx,
  calls,          \* public calls made
  finished,       \* finishZimCreation has run
  archive         \* what write() put in the file

vars == <<pool, dirents, unresolved, blobOf, mimeTypesMap, nextMimeIdx, calls,
          finished, archive>>

-----------------------------------------------------------------------------
(* Dirents *)

KeyIn(p, d) == <<p[d].ns, p[d].path>>
TargetIn(p, d) == <<p[d].targetNs, p[d].targetPath>>

(* UrlCompare: namespace byte first, then path. *)
UrlLess(a, b) == a[1] < b[1] \/ (a[1] = b[1] /\ a[2] < b[2])

UrlSortedIn(p, S) == SetToSortSeq(S, LAMBDA a, b : UrlLess(KeyIn(p, a), KeyIn(p, b)))

NewId == Len(pool) + 1

(* pool.getDirent() followed by the setters of createDirent or          *)
(* createRedirectDirent.                                                 *)
ItemDirent(ns, path, mimeIdx, title) ==
  [ns |-> ns, path |-> path, title |-> title, redirect |-> FALSE,
   targetNs |-> None, targetPath |-> None, mime |-> mimeIdx]

RedirectDirent(ns, path, title, tns, tpath) ==
  [ns |-> ns, path |-> path, title |-> title, redirect |-> TRUE,
   targetNs |-> tns, targetPath |-> tpath, mime |-> None]

(* Dirent::getTitle(): the path when the title is empty.                 *)
TitleIn(p, d) == IF p[d].title = EmptyTitle THEN p[d].path ELSE p[d].title

(* TitleCompare, the order of data->titleIdx: namespace, title, path.    *)
TitleKeyIn(p, d) == <<p[d].ns, TitleIn(p, d), p[d].path>>

TitleLess(a, b) ==
  \/ a[1] < b[1]
  \/ a[1] = b[1] /\ a[2] < b[2]
  \/ a[1] = b[1] /\ a[2] = b[2] /\ a[3] < b[3]

(* createTitleIndex: titleIdx cleared and refilled from data->dirents.   *)
CreateTitleIndex(p, ds) ==
  SetToSortSeq(ds, LAMBDA a, b : TitleLess(TitleKeyIn(p, a), TitleKeyIn(p, b)))

(* Mutant: a replaced redirect stays in unresolvedRedirectDirents.     *)
AddDirentToKeepUnresolved(p, ds, un, d) ==
  LET clash == {e \in ds : KeyIn(p, e) = KeyIn(p, d)}
      ex == CHOOSE e \in clash : TRUE
  IN IF clash = {}
     THEN [ds |-> ds \cup {d},
           un |-> IF p[d].redirect THEN un \cup {d} ELSE un]
     ELSE IF p[ex].redirect /\ ~p[d].redirect
     THEN [ds |-> (ds \ {ex}) \cup {d}, un |-> un]
     ELSE [ds |-> ds, un |-> un]

(* addDirent on the new dirent d (already in pool'): insert it; on a key *)
(* clash an item replaces a redirect, anything else is dropped.  A new   *)
(* redirect also enters unresolvedRedirectDirents.                       *)
AddDirentTo(p, ds, un, d) ==
  LET clash == {e \in ds : KeyIn(p, e) = KeyIn(p, d)}
      ex == CHOOSE e \in clash : TRUE
  IN IF clash = {}
     THEN [ds |-> ds \cup {d},
           un |-> IF p[d].redirect THEN un \cup {d} ELSE un]
     ELSE IF p[ex].redirect /\ ~p[d].redirect
     THEN [ds |-> (ds \ {ex}) \cup {d}, un |-> un \ {ex}]
     ELSE [ds |-> ds, un |-> un]

(* getMimeTypeIdx: known mimetypes keep their index; a new one gets      *)
(* nextMimeIdx unless the uint16 range is exhausted (the call throws).   *)
MimeKnown(m) == m \in DOMAIN mimeTypesMap
MimeIdx(m) == IF MimeKnown(m) THEN mimeTypesMap[m] ELSE nextMimeIdx
(* Mutant: the "too many distinct mime types" check dropped.            *)
MimeThrowsNever(m) == FALSE
MimeThrows(m) == ~MimeKnown(m) /\ nextMimeIdx >= MimeLimit

RegisterMime(m) ==
  IF MimeKnown(m)
  THEN UNCHANGED <<mimeTypesMap, nextMimeIdx>>
  ELSE /\ mimeTypesMap' = mimeTypesMap @@ (m :> nextMimeIdx)
       /\ nextMimeIdx' = nextMimeIdx + 1

-----------------------------------------------------------------------------

Init ==
  /\ pool = <<>>
  /\ dirents = {}
  /\ unresolved = {}
  /\ blobOf = {}
  /\ mimeTypesMap = <<>>
  /\ nextMimeIdx = 0
  /\ calls = 0
  /\ finished = FALSE
  /\ archive = [entries |-> <<>>, mimeList |-> <<>>, titleIdx |-> <<>>, mainPage |-> None]

(* createDirent + addItemData + handle, for addItem (namespace 'C') and  *)
(* addMetadata (namespace 'M', the mimetype registered as given, the     *)
(* empty one included).  The blob is added even when addDirent dropped   *)
(* the dirent.  If getMimeTypeIdx throws, the call fails before          *)
(* addDirent.                                                            *)
AddEntry(ns, path, m, title) ==
  LET d == NewId
      p == Append(pool, ItemDirent(ns, path, MimeIdx(m), title))
      r == AddDirentTo(p, dirents, unresolved, d)
  IN /\ ~finished
     /\ calls < MaxCalls
     /\ calls' = calls + 1
     /\ IF MimeThrows(m)
        THEN UNCHANGED <<pool, dirents, unresolved, blobOf, mimeTypesMap,
                         nextMimeIdx>>
        ELSE /\ RegisterMime(m)
             /\ pool' = p
             /\ dirents' = r.ds
             /\ unresolved' = r.un
             /\ blobOf' = blobOf \cup {d}
     /\ UNCHANGED <<finished, archive>>

(* createItemDirent: the empty mimetype replaced by                      *)
(* application/octet-stream.                                             *)
AddItem(path, mime, title) ==
  AddEntry(NsC, path, IF mime = EmptyMime THEN OctetStream ELSE mime, title)

AddMetadata(name, mime) == AddEntry(NsM, name, mime, EmptyTitle)

(* addRedirection: createRedirectDirent('C', path, title, 'C', target). *)
AddRedirection(path, title, target) ==
  LET d == NewId
      p == Append(pool, RedirectDirent(NsC, path, title, NsC, target))
      r == AddDirentTo(p, dirents, unresolved, d)
  IN /\ ~finished
     /\ calls < MaxCalls
     /\ calls' = calls + 1
     /\ pool' = p
     /\ dirents' = r.ds
     /\ unresolved' = r.un
     /\ UNCHANGED <<blobOf, mimeTypesMap, nextMimeIdx, finished, archive>>

-----------------------------------------------------------------------------
(* finishZimCreation, dirent part *)

(* Mutant: the target looked up in the redirect's own namespace.        *)
RECURSIVE ResolveRedirectsOwnNs(_, _, _)
ResolveRedirectsOwnNs(p, seq, st) ==
  IF seq = <<>> THEN st
  ELSE LET r == Head(seq)
           found == {e \in st.ds : KeyIn(p, e) = <<p[r].ns, p[r].targetPath>>}
       IN ResolveRedirectsOwnNs(p, Tail(seq),
            IF found = {}
            THEN [st EXCEPT !.ds = {e \in @ : KeyIn(p, e) # KeyIn(p, r)},
                            !.main = IF @ = r THEN None ELSE @]
            ELSE [st EXCEPT !.target = @ @@ (r :> CHOOSE e \in found : TRUE)])

(* resolveRedirectIndexes: the unresolved redirects in url order; each   *)
(* looks its target up in the dirent set as it is at that moment; a      *)
(* missing target erases the redirect (by key) and clears mainPageDirent.*)
RECURSIVE ResolveRedirects(_, _, _)
ResolveRedirects(p, seq, st) ==
  IF seq = <<>> THEN st
  ELSE LET r == Head(seq)
           found == {e \in st.ds : KeyIn(p, e) = TargetIn(p, r)}
       IN ResolveRedirects(p, Tail(seq),
            IF found = {}
            THEN [st EXCEPT !.ds = {e \in @ : KeyIn(p, e) # KeyIn(p, r)},
                            !.main = IF @ = r THEN None ELSE @]
            ELSE [st EXCEPT !.target = @ @@ (r :> CHOOSE e \in found : TRUE)])

(* setEntryIndexes: consecutive indexes in url order. *)
SetEntryIndexes(p, ds) ==
  LET order == UrlSortedIn(p, ds)
  IN [d \in ds |-> SelectInSeq(order, LAMBDA x : x = d) - 1]

(* resolveMimeTypes: the mimetype list sorted, and the permutation from  *)
(* the insertion index to the sorted index.                              *)
MimeTypesList == SortSeq([i \in 1 .. nextMimeIdx |->
                            CHOOSE m \in DOMAIN mimeTypesMap :
                              mimeTypesMap[m] = i - 1], LAMBDA a, b : a < b)

(* Mutant: the list is sorted but the dirents keep their old indexes.  *)
ResolveMimeTypesUnmapped(list) == [i \in 0 .. nextMimeIdx - 1 |-> i]

ResolveMimeTypes(list) ==
  [i \in 0 .. nextMimeIdx - 1 |->
     LET old == CHOOSE m \in DOMAIN mimeTypesMap : mimeTypesMap[m] = i
     IN SelectInSeq(list, LAMBDA x : x = old) - 1]

(* finishZimCreation with the favicon and main paths set by              *)
(* setFaviconPath / setMainPath (None when empty), up to write(): the    *)
(* two '-' redirects, redirect resolution, entry indexes, mimetype       *)
(* renumbering, the title index, and the dirents, main page, mimetype   *)
(* list and title index table written.                                   *)
(* A redirect's entry holds getIdx() of its target dirent, which is      *)
(* None if that dirent never got an index.                               *)
Finish(fav, main) ==
  LET p1 == IF fav # None
            THEN Append(pool, RedirectDirent(NsDash, Favicon, EmptyTitle, NsC, fav)) ELSE pool
      s1 == IF fav # None THEN AddDirentTo(p1, dirents, unresolved, Len(p1))
            ELSE [ds |-> dirents, un |-> unresolved]
      p2 == IF main # None
            THEN Append(p1, RedirectDirent(NsDash, MainPage, EmptyTitle, NsC, main)) ELSE p1
      s2 == IF main # None THEN AddDirentTo(p2, s1.ds, s1.un, Len(p2)) ELSE s1
      res == ResolveRedirects(p2, UrlSortedIn(p2, s2.un),
               [ds |-> s2.ds, target |-> <<>>,
                main |-> IF main # None THEN Len(p2) ELSE None])
      idx == SetEntryIndexes(p2, res.ds)
      GetIdx(d) == IF d \in DOMAIN idx THEN idx[d] ELSE None
      list == MimeTypesList
      mapping == ResolveMimeTypes(list)
      order == UrlSortedIn(p2, res.ds)
      titleIdx == CreateTitleIndex(p2, res.ds)
  IN /\ ~finished
     /\ finished' = TRUE
     /\ pool' = p2
     /\ dirents' = res.ds
     /\ unresolved' = s2.un
     /\ archive' =
          [entries |-> [i \in 1 .. Len(order) |->
             LET d == order[i] IN
               [dirent |-> d,
                key |-> KeyIn(p2, d),
                redirect |-> p2[d].redirect,
                mime |-> IF p2[d].redirect THEN None ELSE mapping[p2[d].mime],
                target |-> IF p2[d].redirect THEN GetIdx(res.target[d])
                           ELSE None]],
           mimeList |-> list,
           titleIdx |-> [i \in 1 .. Len(titleIdx) |-> GetIdx(titleIdx[i])],
           mainPage |-> IF res.main = None THEN None ELSE GetIdx(res.main)]
     /\ UNCHANGED <<blobOf, mimeTypesMap, nextMimeIdx, calls>>

-----------------------------------------------------------------------------

Next ==
  \/ \E path \in Paths, m \in Mimes \cup {EmptyMime}, t \in Titles : AddItem(path, m, t)
  \/ \E name \in MetaNames, m \in Mimes \cup {EmptyMime} : AddMetadata(name, m)
  \/ \E path, target \in Paths : AddRedirection(path, EmptyTitle, target)
  \/ \E fav, main \in Paths \cup {None} : Finish(fav, main)

Spec == Init /\ [][Next]_vars

-----------------------------------------------------------------------------
(* Properties *)

DirentRec == [ns : {NsDash, NsC, NsM}, path : Nat, title : Nat, redirect : BOOLEAN,
              targetNs : {NsC, None}, targetPath : Int, mime : Int]

TypeOK ==
  /\ pool \in Seq(DirentRec)
  /\ dirents \subseteq DOMAIN pool
  /\ unresolved \subseteq DOMAIN pool
  /\ blobOf \subseteq DOMAIN pool
  /\ nextMimeIdx \in 0 .. MimeLimit
  /\ mimeTypesMap \in [DOMAIN mimeTypesMap -> 0 .. MimeLimit - 1]
  /\ finished \in BOOLEAN

Entries == archive.entries
EntryAt(k) == {i \in DOMAIN Entries : Entries[i].key = k}
MimeName(i) == CHOOSE m \in DOMAIN mimeTypesMap : mimeTypesMap[m] = i

(* resolveMimeTypes: the written mimetype list is strictly sorted and     *)
(* every item entry's renumbered index names, in that list, the mimetype *)
(* its item was created with.                                            *)
MimeRoundTrip ==
  finished =>
    /\ \A i \in 1 .. Len(archive.mimeList) - 1 :
         archive.mimeList[i] < archive.mimeList[i + 1]
    /\ \A i \in DOMAIN Entries :
         ~Entries[i].redirect =>
           archive.mimeList[Entries[i].mime + 1]
             = MimeName(pool[Entries[i].dirent].mime)

(* addDirent's duplicate policy across the whole run: for every key that *)
(* an addItem / addMetadata call inserted, the archive has an entry for  *)
(* that key and it is the first item created with it (a later redirect or *)
(* item with the same key never displaces it, and a dropped redirect     *)
(* never takes it out of the set).                                       *)
ItemsKept ==
  finished =>
    \A d \in DOMAIN pool :
      (~pool[d].redirect
       /\ ~\E e \in 1 .. d - 1 : ~pool[e].redirect /\ KeyIn(pool, e) = KeyIn(pool, d))
      => \E i \in EntryAt(KeyIn(pool, d)) : Entries[i].dirent = d /\ d \in blobOf

(* A redirect whose target is an item of the archive holds that item's   *)
(* entry index; the header's main page is the entry of the '-'/mainPage  *)
(* redirect whenever that redirect targets an item of the archive.       *)
RedirectToItemResolved ==
  finished =>
    /\ \A i, j \in DOMAIN Entries :
         (Entries[i].redirect /\ ~Entries[j].redirect
          /\ TargetIn(pool, Entries[i].dirent) = Entries[j].key)
         => Entries[i].target = j - 1
    /\ \A i, j \in DOMAIN Entries :
         (Entries[i].key = <<NsDash, MainPage>> /\ ~Entries[j].redirect
          /\ TargetIn(pool, Entries[i].dirent) = Entries[j].key)
         => archive.mainPage = i - 1

(* Spec P7: every redirect on disk holds an entry index of the archive,  *)
(* the entry of the path it names; redirects whose target is missing are *)
(* dropped.  The main page index is an entry index or the sentinel.      *)
RedirectsResolved ==
  finished =>
    /\ \A i \in DOMAIN Entries :
         Entries[i].redirect =>
           /\ Entries[i].target + 1 \in DOMAIN Entries
           /\ Entries[Entries[i].target + 1].key = TargetIn(pool, Entries[i].dirent)
    /\ archive.mainPage # None => archive.mainPage + 1 \in DOMAIN Entries
====
