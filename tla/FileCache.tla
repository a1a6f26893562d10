------------------------------ MODULE FileCache ------------------------------
(* The cache kept in files (pkg/cache/file_cache.go, lru.go): one file per     *)
(* entry, an LRU list in memory.  Each process, such as one run of the cache   *)
(* command, loads the directory and then works on its own copy under its own   *)
(* mutex; os.WriteFile truncates a file before it writes it, so that two who   *)
(* write one file at once may leave a mixture, and who writes a file that is   *)
(* removed meanwhile writes one that is not in the directory any more.         *)
EXTENDS Naturals, FiniteSets

CONSTANTS
    CacheProcs,   \* processes that use the directory
    CacheKeys,
    CacheSize,    \* maxSize
    MaxSets,      \* bound: calls of Set; an entry is the number of its Set
    MaxIoFaults,  \* bound: file operations that fail
    MaxKills      \* bound: processes that die within a write

ASSUME FileCacheAssumption ==
    /\ IsFiniteSet(CacheKeys) /\ 0 \notin CacheKeys
    /\ CacheSize \in Nat \ {0}
    /\ MaxSets \in Nat /\ MaxIoFaults \in Nat /\ MaxKills \in Nat

None == 0               \* no entry, no file
EntryIds == 1..MaxSets
TornFile == MaxSets + 1 \* a file with a part of an entry

VARIABLES
    cachePc,   \* where each process is
    writing,   \* the entry it is writing: key, id and the call that writes it
    entries,   \* FileCache.entries: the id, or None
    lru,       \* FileCache.lru, an order: <<k, j>> if k is not in front of j
    disk,      \* the file of each key: an id, None or TornFile
    written,   \* the files by AccessedAt: <<k, j>> if k's is not later than j's
    detached,  \* processes whose file was removed while they write it
    behind,    \* processes in whose file another has written since they began
    expired,   \* ids whose ExpiresAt is past
    sets,      \* calls of Set so far
    faulty,    \* history: keys a file operation failed on
    overlapped,   \* history: keys whose file two processes wrote at once
    shared,    \* history: a process opened the directory while another was up
    ioFaults, kills

cacheVars == <<cachePc, writing, entries, lru, disk, written, detached, behind,
               expired, sets, faulty, overlapped, shared, ioFaults, kills>>

NoWrite == [by |-> "none", key |-> None, id |-> None]

FileCacheInit ==
    /\ cachePc = [p \in CacheProcs |-> "down"]
    /\ writing = [p \in CacheProcs |-> NoWrite]
    /\ entries = [p \in CacheProcs |-> [k \in CacheKeys |-> None]]
    /\ lru = [p \in CacheProcs |-> {}]
    /\ disk = [k \in CacheKeys |-> None] /\ written = {}
    /\ detached = {} /\ behind = {}
    /\ expired = {} /\ sets = 0
    /\ faulty = {} /\ overlapped = {} /\ shared = FALSE
    /\ ioFaults = 0 /\ kills = 0

Held(p) == {k \in CacheKeys : entries[p][k] # None}
Torn(k) == disk[k] = TornFile
Up(p) == cachePc[p] # "down"

\* Orders of keys: whom one holds, without some, with one at the front, the last.
InOrder(order) == {k \in CacheKeys : <<k, k>> \in order}
Without(order, keys) == {pair \in order : pair[1] \notin keys /\ pair[2] \notin keys}
ToFront(order, k) == Without(order, {k}) \cup {<<j, k>> : j \in InOrder(order) \cup {k}}
IsLast(order, k) == \A j \in InOrder(order) : <<k, j>> \in order

\* Who writes the file that is the key's.
Writers(k) == {p \in CacheProcs \ detached : writing[p].key = k}

\* Files that are removed leave the order as well.
Unlinked(keys) ==
    /\ disk' = [k \in CacheKeys |-> IF k \in keys THEN None ELSE disk[k]]
    /\ written' = Without(written, keys)
    /\ detached' = detached \cup {p \in CacheProcs : writing[p].key \in keys}

\* os.Remove of the files of these keys: all go, or some and then one fails.
RemoveFiles(keys) ==
    /\ Unlinked(keys) /\ UNCHANGED <<faulty, ioFaults>>

RemoveFails(keys) ==
    /\ keys # {} /\ ioFaults < MaxIoFaults /\ ioFaults' = ioFaults + 1
    /\ \E gone \in SUBSET keys : gone # keys /\ Unlinked(gone)
    /\ faulty' = faulty \cup keys

-----------------------------------------------------------------------------
\* NewFileCache: expired files are removed, the others restored by AccessedAt;
\* a file that cannot be parsed is an error, and there is no cache.
Open(p) ==
    /\ cachePc[p] = "down"
    /\ LET old == {k \in CacheKeys : disk[k] \in expired}
       IN \/ /\ \A k \in CacheKeys : ~Torn(k)
             /\ Unlinked(old)
             /\ entries' = [entries EXCEPT ![p] =
                    [k \in CacheKeys |-> IF k \in old THEN None ELSE disk[k]]]
             /\ lru' = [lru EXCEPT ![p] = written']
             /\ cachePc' = [cachePc EXCEPT ![p] = "idle"]
          \/ /\ \E k \in CacheKeys : Torn(k)
             /\ \E gone \in SUBSET old : gone # {} /\ Unlinked(gone)
             /\ UNCHANGED <<entries, lru, cachePc>>
    /\ shared' = (shared \/ \E q \in CacheProcs : Up(q))
    /\ UNCHANGED <<writing, behind, expired, sets, faulty, overlapped, ioFaults, kills>>

\* A write that does not come to its end has written nothing, or a part.
WriteCutShort(p) ==
    /\ \/ UNCHANGED disk /\ behind' = behind \ {p}
       \/ /\ p \notin detached
          /\ disk' = [disk EXCEPT ![writing[p].key] = TornFile]
          /\ behind' = (behind \cup Writers(writing[p].key)) \ {p}
    /\ detached' = detached \ {p}

\* The process ends, or dies within a write.
Exit(p) ==
    /\ Up(p)
    /\ \/ cachePc[p] = "idle" /\ UNCHANGED <<disk, behind, detached, kills>>
       \/ /\ cachePc[p] = "write" /\ kills < MaxKills /\ kills' = kills + 1
          /\ WriteCutShort(p)
    /\ cachePc' = [cachePc EXCEPT ![p] = "down"]
    /\ writing' = [writing EXCEPT ![p] = NoWrite]
    /\ entries' = [entries EXCEPT ![p] = [k \in CacheKeys |-> None]]
    /\ lru' = [lru EXCEPT ![p] = {}]
    /\ UNCHANGED <<written, expired, sets, faulty, overlapped, shared, ioFaults>>

-----------------------------------------------------------------------------
\* persistEntryLocked begins: the file is truncated, also for others who are
\* writing it.
Truncate(p, by, k, id, files) ==
    /\ disk' = [files EXCEPT ![k] = TornFile]
    /\ overlapped' = IF Writers(k) = {} THEN overlapped ELSE overlapped \cup {k}
    /\ behind' = behind \ Writers(k)
    /\ writing' = [writing EXCEPT ![p] = [by |-> by, key |-> k, id |-> id]]
    /\ cachePc' = [cachePc EXCEPT ![p] = "write"]

\* Set makes room when the cache is full and has something in its list.
MustEvict(p, k) ==
    Cardinality(Held(p)) >= CacheSize /\ k \notin Held(p) /\ lru[p] # {}

Set(p, k) ==
    /\ cachePc[p] = "idle" /\ sets < MaxSets /\ sets' = sets + 1
    /\ \/ /\ ~MustEvict(p, k)
          /\ Truncate(p, "set", k, sets + 1, disk)
          /\ UNCHANGED <<lru, entries, written, detached>>
       \/ /\ MustEvict(p, k)
          /\ \E victim \in InOrder(lru[p]) :
                /\ IsLast(lru[p], victim)
                /\ lru' = [lru EXCEPT ![p] = Without(@, {victim})]
                /\ entries' = [entries EXCEPT ![p][victim] = None]
                /\ written' = Without(written, {victim})
                /\ detached' = detached \cup Writers(victim)
                /\ Truncate(p, "set", k, sets + 1, [disk EXCEPT ![victim] = None])
    /\ UNCHANGED <<expired, faulty, shared, ioFaults, kills>>

\* The victim's file cannot be deleted: it has left the list and nothing else.
EvictFails(p, k) ==
    /\ cachePc[p] = "idle" /\ sets < MaxSets /\ sets' = sets + 1
    /\ MustEvict(p, k) /\ ioFaults < MaxIoFaults /\ ioFaults' = ioFaults + 1
    /\ \E victim \in InOrder(lru[p]) :
          /\ IsLast(lru[p], victim)
          /\ lru' = [lru EXCEPT ![p] = Without(@, {victim})]
          /\ faulty' = faulty \cup {victim}
    /\ UNCHANGED <<cachePc, writing, entries, disk, written, detached, behind, expired,
                   overlapped, shared, kills>>

\* The file is written, over what another wrote into it meanwhile, of which an
\* end may be left; Set then takes the entry into memory.
WriteDone(p) ==
    /\ cachePc[p] = "write"
    /\ LET w == writing[p]
       IN /\ \/ p \in detached /\ UNCHANGED <<disk, written>>
             \/ /\ p \notin detached
                /\ disk' = [disk EXCEPT ![w.key] = w.id]
                /\ written' = ToFront(written, w.key)
             \/ /\ p \in behind \ detached
                /\ disk' = [disk EXCEPT ![w.key] = TornFile]
                /\ UNCHANGED written
          /\ behind' = (IF p \in detached THEN behind ELSE behind \cup Writers(w.key)) \ {p}
          /\ IF w.by = "set"
             THEN /\ entries' = [entries EXCEPT ![p][w.key] = w.id]
                  /\ lru' = [lru EXCEPT ![p] = ToFront(@, w.key)]
             ELSE UNCHANGED <<entries, lru>>
    /\ writing' = [writing EXCEPT ![p] = NoWrite]
    /\ detached' = detached \ {p}
    /\ cachePc' = [cachePc EXCEPT ![p] = "idle"]
    /\ UNCHANGED <<expired, sets, faulty, overlapped, shared, ioFaults, kills>>

\* Set returns the error; Get ignores it.
CacheWriteFails(p) ==
    /\ cachePc[p] = "write" /\ ioFaults < MaxIoFaults /\ ioFaults' = ioFaults + 1
    /\ faulty' = faulty \cup {writing[p].key}
    /\ WriteCutShort(p)
    /\ writing' = [writing EXCEPT ![p] = NoWrite]
    /\ cachePc' = [cachePc EXCEPT ![p] = "idle"]
    /\ UNCHANGED <<entries, lru, written, expired, sets, overlapped, shared, kills>>

Wrong_GetHit(p, k) ==
    /\ cachePc[p] = "idle" /\ k \in Held(p) /\ entries[p][k] \notin expired
    /\ lru' = [lru EXCEPT ![p] = IF k \in InOrder(@) THEN ToFront(@, k) ELSE @]
    /\ UNCHANGED <<cachePc, writing, disk, entries, written, detached, behind, expired, sets,
                   faulty, overlapped, shared, ioFaults, kills>>

\* A hit moves the entry to the front and writes its file again.
GetHit(p, k) ==
    /\ cachePc[p] = "idle" /\ k \in Held(p) /\ entries[p][k] \notin expired
    /\ lru' = [lru EXCEPT ![p] = IF k \in InOrder(@) THEN ToFront(@, k) ELSE @]
    /\ Truncate(p, "get", k, entries[p][k], disk)
    /\ UNCHANGED <<entries, written, detached, expired, sets, faulty, shared, ioFaults, kills>>

\* deleteEntryLocked: the memory first, the file then, whether or not it goes.
Forget(p, k) ==
    /\ entries' = [entries EXCEPT ![p][k] = None]
    /\ lru' = [lru EXCEPT ![p] = Without(@, {k})]

GetExpired(p, k) ==
    /\ cachePc[p] = "idle" /\ k \in Held(p) /\ entries[p][k] \in expired
    /\ Forget(p, k)
    /\ RemoveFiles({k}) \/ RemoveFails({k})
    /\ UNCHANGED <<cachePc, writing, behind, expired, sets, overlapped, shared, kills>>

\* Delete of a key that is not in memory succeeds and changes nothing.
Delete(p, k) ==
    /\ cachePc[p] = "idle"
    /\ k \in Held(p) /\ Forget(p, k)
    /\ RemoveFiles({k}) \/ RemoveFails({k})
    /\ UNCHANGED <<cachePc, writing, behind, expired, sets, overlapped, shared, kills>>

\* Clear deletes the files of the entries it holds; it stops at the first that
\* stays and keeps them all in memory.
Clear(p) ==
    /\ cachePc[p] = "idle"
    /\ \/ /\ RemoveFiles(Held(p))
          /\ entries' = [entries EXCEPT ![p] = [k \in CacheKeys |-> None]]
          /\ lru' = [lru EXCEPT ![p] = {}]
       \/ RemoveFails(Held(p)) /\ UNCHANGED <<entries, lru>>
    /\ UNCHANGED <<cachePc, writing, behind, expired, sets, overlapped, shared, kills>>

\* Time passes for an entry that is in a file or in memory.
Expire(k) ==
    /\ \E id \in ({disk[k]} \cup {entries[p][k] : p \in CacheProcs}) \cap EntryIds :
          id \notin expired /\ expired' = expired \cup {id}
    /\ UNCHANGED <<cachePc, writing, entries, lru, disk, written, detached, behind, sets,
                   faulty, overlapped, shared, ioFaults, kills>>

FileCacheNext ==
    \/ \E p \in CacheProcs :
          \/ Open(p) \/ Exit(p) \/ WriteDone(p) \/ CacheWriteFails(p) \/ Clear(p)
          \/ \E k \in CacheKeys :
                \/ Set(p, k) \/ EvictFails(p, k)
                \/ GetHit(p, k) \/ GetExpired(p, k) \/ Delete(p, k)
    \/ \E k \in CacheKeys : Expire(k)

FileCacheSpec == FileCacheInit /\ [][FileCacheNext]_cacheVars

-----------------------------------------------------------------------------
\* With one process at a time, a key no file operation has failed on is on disk
\* exactly as in memory between two calls: what a restart restores.
MemoryIsOnDisk ==
    ~shared => \A p \in CacheProcs, k \in CacheKeys :
        cachePc[p] = "idle" /\ k \notin faulty => disk[k] = entries[p][k]

\* And in the same order: a process that starts over evicts the same entries.
OrderIsOnDisk ==
    ~shared /\ faulty = {} =>
        \A p \in CacheProcs : cachePc[p] = "idle" => lru[p] = written

\* The cache never holds more than maxSize, and can evict all it holds, unless
\* a file stayed that it meant to delete or another process filled the directory.
SizeIsKept ==
    \A p \in CacheProcs :
        /\ ~shared /\ faulty = {} => Cardinality(Held(p)) <= CacheSize
        /\ faulty = {} => Held(p) = InOrder(lru[p])

\* A file that cannot be parsed, which keeps every new process from starting,
\* is being written, its writer failed or died, or two wrote it at once.
TornHasACause ==
    \A k \in CacheKeys : Torn(k) =>
        \/ kills > 0 \/ k \in faulty \cup overlapped
        \/ \E p \in CacheProcs : writing[p].key = k

FileCacheInv ==
    MemoryIsOnDisk /\ OrderIsOnDisk /\ SizeIsKept /\ TornHasACause
=============================================================================
