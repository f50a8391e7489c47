----------------------------- MODULE PhotoFolders -----------------------------
(***************************************************************************)
(* What the server remembers of the photos directory: the index of date    *)
(* folders and the indexes of the files of single folders, both caches     *)
(* with a time to live, read and mended by requests of several threads     *)
(* while the directory is reconfigured, the auto-copy adds to it and       *)
(* people add to it and remove from it by hand.                            *)
(*                                                                         *)
(* A folder is a pair of a date and Root or a name below the date.  The    *)
(* limits on entries (4000 folders, 25 probes) are left out, and a request *)
(* probes one date.  Init, Next and the like have names of their own, so   *)
(* that another module of the server can be extended beside this one.      *)
(***************************************************************************)
EXTENDS Integers, FiniteSets, Sequences

CONSTANTS
    Dir, NoDir,     \* directories that may be configured
    Date,           \* names of date folders
    Sub, Root,      \* names below a date folder, and the folder itself
    Client,         \* threads that serve requests, or the auto-copy
    MaxKeys         \* shipping_photos_file_index_max_keys

Key == Date \X (Sub \union {Root})

ASSUME FoldersAssumption ==
    /\ NoDir \notin Dir /\ Root \notin Sub
    /\ IsFiniteSet(Client) /\ MaxKeys \in Nat \ {0}

VARIABLES
    config,     \* the configured photos directory
    disk,       \* the folders that exist, as pairs <<directory, key>>
    index,      \* _cached_index
    since,      \* dates that some directory had since that index was scanned
    files,      \* _file_indexes, least recently used first
    client      \* what each thread is doing

foldersVars == <<config, disk, index, since, files, client>>
-----------------------------------------------------------------------------
(* Generations are only compared for equality, so one that nobody holds    *)
(* any more serves as the next value of the counter; 0 is no index.        *)
Generations == 1..(Cardinality(Client) + 1)

NoIndex == [gen |-> 0, ok |-> FALSE, names |-> {}, aged |-> FALSE]

Idle == [pc |-> "idle", dir |-> NoDir, date |-> CHOOSE f \in Date : TRUE,
         gen |-> 0, names |-> {}]

NewGeneration ==
    CHOOSE g \in Generations : g # index.gen /\ \A c \in Client : client[c].gen # g

DatesIn(d) == {f \in Date : <<d, <<f, Root>>>> \in disk}
OnDisk(store) == {f \in Date : \E d \in Dir : <<d, <<f, Root>>>> \in store}

Set(c, me) == client' = [client EXCEPT ![c] = me]
-----------------------------------------------------------------------------
FoldersInit ==
    /\ config = NoDir /\ disk = {}
    /\ index = NoIndex /\ since = {}
    /\ files = << >>
    /\ client = [c \in Client |-> Idle]

(* A folder appears below one that exists, or goes with all it holds.      *)
Appear(d, k) ==
    /\ <<d, k>> \notin disk
    /\ k[2] = Root \/ <<d, <<k[1], Root>>>> \in disk
    /\ disk' = disk \union {<<d, k>>}
    /\ since' = since \union {k[1]}
    /\ UNCHANGED <<config, index, files, client>>

Vanish(d, k) ==
    /\ <<d, k>> \in disk
    /\ disk' = {e \in disk : e # <<d, k>> /\ (k[2] = Root => e[1] # d \/ e[2][1] # k[1])}
    /\ UNCHANGED <<config, index, since, files, client>>

(* The index outlives its time.                                            *)
AgeIndex ==
    /\ index.gen # 0 /\ ~index.aged
    /\ index' = [index EXCEPT !.aged = TRUE]
    /\ UNCHANGED <<config, disk, since, files, client>>
-----------------------------------------------------------------------------
(* get_available_dates.  The directory is read before the lock is taken.   *)
AskDates(c, f) ==
    /\ client[c].pc = "idle"
    /\ Set(c, [Idle EXCEPT !.pc = "asking", !.dir = config, !.date = f])
    /\ UNCHANGED <<config, disk, index, since, files>>

Listed(c, idx) ==
    Set(c, IF idx.ok THEN [client[c] EXCEPT !.pc = "listed", !.gen = idx.gen,
                                            !.names = idx.names]
           ELSE Idle)

(* resolve_folder_index: no directory, a cached index, or a scan, which    *)
(* fails when the directory cannot be read.                                *)
ResolveUnconfigured(c) ==
    /\ client[c].pc = "asking" /\ client[c].dir = NoDir
    /\ Set(c, Idle)
    /\ UNCHANGED <<config, disk, index, since, files>>

(* Mutant of ResolveCached: a cached list of dates does not grow old.      *)
ResolveForEver(c) ==
    /\ client[c].pc = "asking" /\ client[c].dir # NoDir
    /\ index.gen # 0 /\ (index.ok \/ ~index.aged)
    /\ Listed(c, index)
    /\ UNCHANGED <<config, disk, index, since, files>>

(* The cached index, within its time to live.                              *)
ResolveCached(c) ==
    /\ client[c].pc = "asking" /\ client[c].dir # NoDir
    /\ index.gen # 0 /\ ~index.aged
    /\ Listed(c, index)
    /\ UNCHANGED <<config, disk, index, since, files>>

ResolveByScan(c, readable) ==
    /\ client[c].pc = "asking" /\ client[c].dir # NoDir
    /\ index.gen = 0 \/ index.aged
    /\ index' = [gen |-> NewGeneration, ok |-> readable, aged |-> FALSE,
                 names |-> IF readable THEN DatesIn(client[c].dir) ELSE {}]
    /\ since' = OnDisk(disk)
    /\ Listed(c, index')
    /\ UNCHANGED <<config, disk, files>>

(* probe_missing_folders: a date the index lacks is looked for on disk, in *)
(* the directory that is configured by now.                                *)
Probe(c) ==
    /\ client[c].pc = "listed"
    /\ Set(c, IF client[c].date \notin client[c].names /\ client[c].date \in DatesIn(config)
              THEN [client[c] EXCEPT !.pc = "found"] ELSE Idle)
    /\ UNCHANGED <<config, disk, index, since, files>>

(* Mutant of Updated: whichever index is cached is changed.                *)
UpdatedAnyway(gen, names) ==
    IF index.gen # 0 THEN [index EXCEPT !.names = names] ELSE index

(* update_index: nothing is changed in an index of another generation.     *)
Updated(gen, names) ==
    IF index.gen # 0 /\ index.gen = gen THEN [index EXCEPT !.names = names] ELSE index

Merge(c) ==
    /\ client[c].pc = "found"
    /\ index' = Updated(client[c].gen, index.names \union {client[c].date})
    /\ Set(c, Idle)
    /\ UNCHANGED <<config, disk, since, files>>
-----------------------------------------------------------------------------
(* open_photo_folder: resolve the path, pass the gate, look, evict.  The   *)
(* gate turns away who comes within two seconds of another, who then       *)
(* changes nothing; the interval may be over at any time.                  *)
AskOpen(c, f) ==
    /\ client[c].pc = "idle" /\ config # NoDir
    /\ Set(c, [Idle EXCEPT !.pc = "opening", !.dir = config, !.date = f])
    /\ UNCHANGED <<config, disk, index, since, files>>

LookFor(c) ==
    /\ client[c].pc = "opening"
    /\ Set(c, IF client[c].date \in DatesIn(client[c].dir) THEN Idle
              ELSE [client[c] EXCEPT !.pc = "missing"])
    /\ UNCHANGED <<config, disk, index, since, files>>

(* The generation is read after the folder was missed, without the lock.   *)
ReadGeneration(c) ==
    /\ client[c].pc = "missing"
    /\ Set(c, [client[c] EXCEPT !.pc = "evicting", !.gen = index.gen])
    /\ UNCHANGED <<config, disk, index, since, files>>

Evict(c) ==
    /\ client[c].pc = "evicting"
    /\ index' = Updated(client[c].gen, index.names \ {client[c].date})
    /\ Set(c, Idle)
    /\ UNCHANGED <<config, disk, since, files>>
-----------------------------------------------------------------------------
(* put_photos_dir: save, then drop the one index, then the others.         *)
SaveDir(c, d) ==
    /\ client[c].pc = "idle"
    /\ config' = d
    /\ Set(c, [Idle EXCEPT !.pc = "saved"])
    /\ UNCHANGED <<disk, index, since, files>>

DropIndex(c) ==
    /\ client[c].pc \in {"saved", "synced"}
    /\ index' = NoIndex /\ since' = {}
    /\ Set(c, IF client[c].pc = "saved" THEN [Idle EXCEPT !.pc = "dropped"] ELSE Idle)
    /\ UNCHANGED <<config, disk, files>>

(* Mutant of DropFiles: only the indexes of date folders are dropped.      *)
DropRoots(c) ==
    /\ client[c].pc = "dropped"
    /\ files' = SelectSeq(files, LAMBDA e : e.key[2] # Root)
    /\ Set(c, Idle)
    /\ UNCHANGED <<config, disk, index, since>>

(* Every file index goes, of whatever directory.                           *)
DropFiles(c) ==
    /\ client[c].pc = "dropped"
    /\ files' = << >>
    /\ Set(c, Idle)
    /\ UNCHANGED <<config, disk, index, since>>

(* The cache without one folder's index.                                   *)
Others(cache, k) ==
    IF \A i \in DOMAIN cache : cache[i].key # k THEN cache
    ELSE LET i == CHOOSE i \in DOMAIN cache : cache[i].key = k
         IN  SubSeq(cache, 1, i - 1) \o SubSeq(cache, i + 1, Len(cache))

(* The entries at places in their order.                                   *)
InOrder(places) ==
    LET n == Cardinality(places)
    IN  {p \in [1..n -> places] : \A i, j \in 1..n : i < j => p[i] < p[j]}

(* An auto-copy that copied into a date drops the indexes of its folder,   *)
(* the others stay in order; when it made a date's folder, the list of     *)
(* dates goes after it.                                                    *)
SyncEnds(c, f) ==
    /\ client[c].pc = "idle"
    /\ \E p \in InOrder({i \in DOMAIN files : files[i].key[1] # f}) :
          files' = [i \in DOMAIN p |-> files[p[i]]]
    /\ \E pc \in {"idle", "synced"} : Set(c, [Idle EXCEPT !.pc = pc])
    /\ UNCHANGED <<config, disk, index, since>>

(* A download that finds its source changed drops the folder's index.      *)
DropKey(k) ==
    /\ files' = Others(files, k)
    /\ UNCHANGED <<config, disk, index, since, client>>
-----------------------------------------------------------------------------
(* resolve_file_index, under its lock from end to end.  Of an entry it     *)
(* matters what was found below the folder, which is nothing if it could   *)
(* not be listed; which entries are within their time is any set `fresh`.  *)
FileIndex(k, subs) == [key |-> k, dir |-> config, subs |-> subs]

Entry(k) ==
    FileIndex(k, {s \in Sub : k[2] = Root /\ <<config, <<k[1], s>>>> \in disk})

Cached(cache, k, fresh) == {i \in DOMAIN cache : cache[i].key = k /\ k \in fresh}
Last(cache) == cache[Len(cache)]

(* The entry becomes the most recent; the oldest goes when one is too many.*)
Keep(cache, e) == Append(Others(cache, e.key), e)

KeepWithin(cache, e) ==
    LET kept == Keep(cache, e)
    IN  IF Len(kept) > MaxKeys THEN Tail(kept) ELSE kept

(* The cache after one folder was resolved: it was there, it was scanned,  *)
(* or its date's own index does not know it, when nothing is shed.         *)
Reused(cache, k, fresh) == Keep(cache, cache[CHOOSE i \in Cached(cache, k, fresh) : TRUE])

AfterRoot(cache, f, fresh) ==
    IF Cached(cache, <<f, Root>>, fresh) # {} THEN Reused(cache, <<f, Root>>, fresh)
    ELSE KeepWithin(cache, Entry(<<f, Root>>))

AfterSub(cache, k, fresh) ==
    LET root == AfterRoot(cache, k[1], fresh) IN
    IF Cached(cache, k, fresh) # {} THEN Reused(cache, k, fresh)
    ELSE IF config = NoDir THEN KeepWithin(cache, Entry(k))
    ELSE IF k[2] \notin Last(root).subs THEN Keep(root, Entry(k))
    ELSE KeepWithin(root, Entry(k))

ListFiles(k, fresh) ==
    /\ files' = IF k[2] = Root THEN AfterRoot(files, k[1], fresh)
                ELSE AfterSub(files, k, fresh)
    /\ UNCHANGED <<config, disk, index, since, client>>
-----------------------------------------------------------------------------
Continue(c) ==
    \/ ResolveUnconfigured(c) \/ ResolveCached(c)
    \/ \E readable \in BOOLEAN : ResolveByScan(c, readable)
    \/ Probe(c) \/ Merge(c)
    \/ LookFor(c) \/ ReadGeneration(c) \/ Evict(c)
    \/ DropIndex(c) \/ DropFiles(c)

FoldersNext ==
    \/ \E d \in Dir, k \in Key : Appear(d, k) \/ Vanish(d, k)
    \/ AgeIndex
    \/ \E k \in Key : DropKey(k) \/ \E fresh \in SUBSET {k, <<k[1], Root>>} : ListFiles(k, fresh)
    \/ \E c \in Client :
         \/ \E f \in Date : AskDates(c, f) \/ AskOpen(c, f) \/ SyncEnds(c, f)
         \/ \E d \in Dir : SaveDir(c, d)
         \/ Continue(c)

FoldersSpec == FoldersInit /\ [][FoldersNext]_foldersVars

(* Requests that have begun go on, and the clock runs.                     *)
FoldersFairSpec ==
    /\ FoldersSpec
    /\ WF_foldersVars(AgeIndex) /\ \A c \in Client : WF_foldersVars(Continue(c))
-----------------------------------------------------------------------------
FoldersTypeOK ==
    /\ config \in Dir \union {NoDir}
    /\ disk \subseteq Dir \X Key
    /\ index \in [gen : Generations \union {0}, ok : BOOLEAN,
                  names : SUBSET Date, aged : BOOLEAN]
    /\ \A i, j \in DOMAIN files : files[i].key = files[j].key => i = j
    /\ \A c \in Client : client[c].gen \in Generations \union {0}

(* The list of dates never shows one that was removed before the list was  *)
(* made: an answer that comes late is not merged into a newer index.       *)
FreshNames == FoldersTypeOK /\ index.names \subseteq since

(* Once a change of the photos directory has been answered, no file index  *)
(* of another directory is left or can come back.                          *)
FileIndexFollowsDir ==
    (\A c \in Client : client[c].pc \notin {"saved", "dropped"}) =>
        \A i \in DOMAIN files : files[i].dir = config

Agrees == index.ok => index.names = DatesIn(config)

(* While people keep asking, the list of dates catches up with a directory *)
(* that is left alone, whatever stale answers were on their way.           *)
IndexCatchesUp ==
    /\ <>[][UNCHANGED <<config, disk>>]_foldersVars
    /\ []<>(\E c \in Client : client[c].pc = "asking")
    => <>[]Agrees
=============================================================================
