----------------------------- MODULE MemoryFiles -----------------------------
(* The long-term memory kept in files (pkg/store/file_memory.go), the service   *)
(* over it (pkg/memory/service.go) and the navigator that lets a model choose   *)
(* from its index (pkg/memory/navigator.go).  One mutex covers a write, a       *)
(* deletion and the index; what is read to be changed is read without it, and   *)
(* a file is truncated before it is written.  A reflection condenses facts into *)
(* observations, each of which may replace an older one.                        *)
EXTENDS Naturals, FiniteSets

CONSTANTS
    Facts, Observations,
    OldObservation,    \* the observation of the past ...
    OldEvidence,       \* ... and the facts it rests on
    NewFacts,          \* the facts that are learnt only now
    MemCallers,
    NoMemory,
    ReflectThreshold,  \* Config.ReflectThreshold
    MaxMemCalls,       \* bound: calls
    MaxMemMishaps      \* bound: writes that fail, and ends of the process

ASSUME MemoryFilesAssumption ==
    /\ IsFiniteSet(Facts) /\ IsFiniteSet(Observations)
    /\ Facts \cap Observations = {}
    /\ NoMemory \notin Facts \cup Observations
    /\ OldObservation \in Observations
    /\ OldEvidence \subseteq Facts /\ NewFacts \subseteq Facts
    /\ ReflectThreshold \in Nat /\ MaxMemCalls \in Nat /\ MaxMemMishaps \in Nat

Memories == Facts \cup Observations

VARIABLES
    mem,         \* what the file of each memory says, or said when it was truncated
    cutOff,      \* memories whose file is empty or cut off
    fresh,       \* identities that are not given out yet
    evidence,    \* EvidenceIDs of each observation
    index,       \* what the index files say of each memory
    indexDirty,  \* FileMemoryStore.indexDirty
    cached,      \* the navigator's entry: the listing it was chosen from
    nav,         \* the navigation under way
    memCall,     \* the call of each caller
    memCalls, memMishaps,
    leftBehind,  \* history: a process ended with a dirty index, and none was built since
    clash,       \* history: a reflection met a write of an observation
    told,        \* history: facts of finished calls, neither deleted nor damaged since
    repeated     \* history: facts a reply has cited for two observations

fileVars == <<mem, cutOff, evidence>>
indexVars == <<index, indexDirty, leftBehind>>
navVars == <<cached, nav>>
memoryVars == <<fileVars, fresh, indexVars, navVars, memCall, memCalls, memMishaps, clash, told,
                repeated>>

\* The state of a memory; "was" is the content it began with.
Absent == [is |-> "absent", text |-> "was"]
Active == [is |-> "active", text |-> "was"]
Content == [is : {"absent", "active", "stale"}, text : {"was", "updated"}]

NoMemCall == [do |-> "none", at |-> "idle", id |-> NoMemory, copy |-> Absent,
              from |-> "model", new |-> {}, cited |-> {}, olds |-> {}, old |-> NoMemory]
NoListing == [at |-> "none", seen |-> {}, late |-> {}]

MemoryFilesTypeOK ==
    /\ mem \in [Memories -> Content]
    /\ cutOff \subseteq Memories /\ fresh \subseteq Memories
    /\ evidence \in [Observations -> SUBSET Facts]
    /\ index \in [Memories -> {"absent", "active", "stale"}]
    /\ indexDirty \in BOOLEAN /\ leftBehind \in BOOLEAN /\ clash \in BOOLEAN
    /\ \A listing \in {cached, nav} :
          /\ listing.at \in {"none", "chosen"}
          /\ listing.seen \subseteq Memories /\ listing.late \subseteq Facts
    /\ \A c \in MemCallers :
          /\ memCall[c].do \in {"none", "access", "update", "store", "add", "reflect", "auto"}
          /\ memCall[c].at \in {"idle", "put", "write", "invalidate", "count", "list",
                                "ask", "replace", "forget"}
          /\ memCall[c].id \in Memories \cup {NoMemory} /\ memCall[c].copy \in Content
          /\ memCall[c].from \in {"model", "file", "past"}
    /\ told \subseteq Facts /\ repeated \subseteq Facts

Readable(m) == mem[m].is # "absent" /\ m \notin cutOff
ActiveIn(ms) == {m \in ms : Readable(m) /\ mem[m].is = "active"}
ShownAs(m) == IF m \in cutOff THEN "absent" ELSE mem[m].is

MemoryFilesInit ==
    /\ fresh = NewFacts \cup (Observations \ {OldObservation})
    /\ mem = [m \in Memories |-> IF m \in fresh THEN Absent ELSE Active]
    /\ cutOff = {}
    /\ evidence = [o \in Observations |-> IF o = OldObservation THEN OldEvidence ELSE {}]
    /\ indexDirty = FALSE /\ leftBehind = FALSE
    /\ index = [m \in Memories |-> mem[m].is]
    /\ cached = NoListing /\ nav = NoListing
    /\ memCall = [c \in MemCallers |-> NoMemCall]
    /\ memCalls = 0 /\ memMishaps = 0
    /\ clash = FALSE /\ told = {} /\ repeated = {}

MemIdle(c) == memCall[c].at = "idle"
MemAt(c, step) == memCall[c].at = step
Unlocked == \A c \in MemCallers : ~MemAt(c, "write")
MemGoto(c, step) == memCall' = [memCall EXCEPT ![c].at = step]
MemReturn(c) == memCall' = [memCall EXCEPT ![c] = NoMemCall]

\* A reflection that was started for a new fact invalidates the cache again.
EndOfReflection(do) ==
    IF do = "auto" THEN [NoMemCall EXCEPT !.do = do, !.at = "forget"] ELSE NoMemCall

\* It turns to the rest of the reply, which may hold another observation.
RestOfReply(call) ==
    [call EXCEPT !.at = "ask", !.id = NoMemory, !.copy = Absent, !.from = "model", !.old = NoMemory]

MemMishap == memMishaps < MaxMemMishaps /\ memMishaps' = memMishaps + 1

\* A call starts; each counts towards the bound.
Starts(c, call) ==
    /\ MemIdle(c) /\ memCalls < MaxMemCalls /\ memCalls' = memCalls + 1
    /\ memCall' = [memCall EXCEPT ![c] = call]

-----------------------------------------------------------------------------
(* Reading to change *)

Wrong_Copied(m) == [mem[m] EXCEPT !.is = "active"]

\* readFile gives the memory as it is, superseded or not.
Copied(m) == mem[m]

\* IncrementAccess, after each retrieval, and Update, whose new text a model
\* writes: both read the file and store what they have read.
ReadToPut(c, do, m) ==
    /\ Readable(m) /\ m \notin fresh
    /\ Starts(c, [NoMemCall EXCEPT !.do = do, !.at = "put", !.id = m, !.from = "file",
                      !.copy = IF do = "update" THEN [Copied(m) EXCEPT !.text = "updated"]
                                                ELSE Copied(m)])
    /\ UNCHANGED <<fileVars, fresh, indexVars, navVars, memMishaps, clash, told, repeated>>

\* A fact is stored: by StoreIfWorthwhile, when the model has found one, or by a
\* tool, a hook or an API handler, which call Add.
StoreFact(c, do, m) ==
    /\ m \in fresh \cap Facts /\ fresh' = fresh \ {m}
    /\ Starts(c, [NoMemCall EXCEPT !.do = do, !.at = "put", !.id = m, !.copy = Active])
    /\ UNCHANGED <<fileVars, indexVars, navVars, memMishaps, clash, told, repeated>>

\* The model fails to merge the new text: Update returns the error.
MergeFails(c) ==
    /\ MemAt(c, "put") /\ memCall[c].do = "update"
    /\ MemReturn(c)
    /\ UNCHANGED <<fileVars, fresh, indexVars, navVars, memCalls, memMishaps, clash, told, repeated>>

-----------------------------------------------------------------------------
(* Store: under the mutex, in two steps *)

TruncateMemory(c) ==
    /\ MemAt(c, "put") /\ Unlocked
    /\ cutOff' = cutOff \cup {memCall[c].id}
    /\ MemGoto(c, "write")
    /\ UNCHANGED <<mem, evidence, fresh, indexVars, navVars, memCalls, memMishaps, clash, told, repeated>>

\* A copy is of the past once the memory it was read from has changed or been damaged.
Overtaken(c, m) ==
    [other \in MemCallers |->
        IF other # c /\ memCall[other].id = m /\ memCall[other].from = "file"
        THEN [memCall[other] EXCEPT !.from = "past"] ELSE memCall[other]]

\* What follows the write: a reflection marks the older observation, unless
\* there is none or this was the mark.
AfterMemWrite(call) ==
    CASE call.do \in {"access", "update", "add"} -> NoMemCall
      [] call.do = "store"   -> [call EXCEPT !.at = "invalidate"]
      [] call.old # NoMemory -> [call EXCEPT !.at = "replace"]
      [] OTHER               -> RestOfReply(call)

\* A fact that is stored while a listing is on its way, or cached.
Misses(listing, m) ==
    IF listing.at = "chosen" THEN [listing EXCEPT !.late = @ \cup {m}] ELSE listing

WriteMemory(c) ==
    /\ MemAt(c, "write")
    /\ LET m == memCall[c].id
       IN /\ mem' = [mem EXCEPT ![m] = memCall[c].copy]
          /\ cutOff' = cutOff \ {m}
          /\ memCall' = [Overtaken(c, m) EXCEPT ![c] = AfterMemWrite(memCall[c])]
          /\ clash' = (clash \/ (memCall[c].from = "past" /\ m \in Observations))
          \* Add returns here: it does not call InvalidateCache.
          /\ IF memCall[c].do = "add"
             THEN /\ told' = told \cup {m}
                  /\ cached' = Misses(cached, m) /\ nav' = Misses(nav, m)
             ELSE UNCHANGED <<told, navVars>>
    /\ indexDirty' = TRUE
    /\ UNCHANGED <<evidence, fresh, index, leftBehind, memCalls, memMishaps, repeated>>

\* The write fails: the file stays cut off, and the index is not marked.  Only
\* Update and Add tell their caller; a reflection gives up this observation.
AfterFailedWrite(call) ==
    CASE call.do \in {"access", "update", "add"} -> NoMemCall
      [] call.do = "store"                      -> [call EXCEPT !.at = "invalidate"]
      [] OTHER                                  -> RestOfReply(call)

WriteMemoryFails(c) ==
    /\ MemAt(c, "write") /\ MemMishap
    /\ memCall' = [Overtaken(c, memCall[c].id) EXCEPT ![c] = AfterFailedWrite(memCall[c])]
    /\ told' = told \ {memCall[c].id}
    /\ UNCHANGED <<fileVars, fresh, indexVars, navVars, memCalls, clash, repeated>>

\* Delete removes the file in one step and never fails.
DeleteMemory(c, m) ==
    /\ MemIdle(c) /\ Unlocked /\ m \notin fresh
    /\ memCalls < MaxMemCalls /\ memCalls' = memCalls + 1
    /\ mem' = [mem EXCEPT ![m] = Absent]
    /\ cutOff' = cutOff \ {m}
    /\ memCall' = Overtaken(c, m)
    /\ indexDirty' = TRUE
    /\ told' = told \ {m}
    /\ UNCHANGED <<evidence, fresh, index, leftBehind, navVars, memMishaps, clash, repeated>>

-----------------------------------------------------------------------------
(* Reflection *)

\* StoreIfWorthwhile returns; its goroutine goes on.  A navigation that has read
\* the index does not notice that the cache was invalidated.
InvalidateAfterStore(c) ==
    /\ MemAt(c, "invalidate")
    /\ cached' = NoListing /\ nav' = Misses(nav, memCall[c].id)
    /\ MemGoto(c, "count")
    /\ told' = IF Readable(memCall[c].id) THEN told \cup {memCall[c].id} ELSE told
    /\ UNCHANGED <<fileVars, fresh, indexVars, memCalls, memMishaps, clash, repeated>>

\* maybeReflect
CountFacts(c) ==
    /\ MemAt(c, "count")
    /\ IF Cardinality(ActiveIn(Facts)) >= ReflectThreshold
       THEN memCall' = [memCall EXCEPT ![c] = [NoMemCall EXCEPT !.do = "auto", !.at = "list"]]
       ELSE MemReturn(c)
    /\ UNCHANGED <<fileVars, fresh, indexVars, navVars, memCalls, memMishaps, clash, told, repeated>>

StartReflection(c) ==
    /\ Starts(c, [NoMemCall EXCEPT !.do = "reflect", !.at = "list"])
    /\ UNCHANGED <<fileVars, fresh, indexVars, navVars, memMishaps, clash, told, repeated>>

Covered(obs) == UNION {evidence[o] : o \in obs}

\* Facts that no active observation rests on.
Uncovered(facts, obs) == facts \ Covered(obs)

Reflecting(c) ==
    /\ memCall[c].at \in {"ask", "put", "write", "replace"}
    /\ memCall[c].do \in {"reflect", "auto"}

\* The files are listed without the mutex: one that is being written is missing.
ListMemories(c) ==
    /\ MemAt(c, "list")
    /\ LET facts == ActiveIn(Facts)
           obs == ActiveIn(Observations)
           new == Uncovered(facts, obs)
       IN memCall' = [memCall EXCEPT ![c] =
              IF Cardinality(facts) < 3 \/ Cardinality(new) < 2 THEN EndOfReflection(@.do)
              ELSE [@ EXCEPT !.at = "ask", !.new = new, !.olds = obs]]
    /\ clash' = \/ clash
                \/ \E other \in MemCallers \ {c} :
                      \/ Reflecting(other)
                      \/ MemAt(other, "write") /\ memCall[other].id \in Observations
    /\ UNCHANGED <<fileVars, fresh, indexVars, navVars, memCalls, memMishaps, told, repeated>>

\* The reply holds one more observation, within the rules of the prompt: it cites
\* two of the new facts or more, also some that the reply has cited already, and
\* may replace one that the model was shown.
ModelCondenses(c, o, facts, old) ==
    /\ MemAt(c, "ask") /\ o \in fresh \cap Observations
    /\ facts \subseteq memCall[c].new /\ Cardinality(facts) >= 2
    /\ old \in memCall[c].olds \cup {NoMemory}
    /\ fresh' = fresh \ {o}
    /\ evidence' = [evidence EXCEPT ![o] = facts]
    /\ repeated' = repeated \cup (facts \cap memCall[c].cited)
    /\ memCall' = [memCall EXCEPT ![c] =
           [memCall[c] EXCEPT !.at = "put", !.id = o, !.copy = Active,
                              !.cited = memCall[c].cited \cup facts, !.old = old]]
    /\ UNCHANGED <<mem, cutOff, indexVars, navVars, memCalls, memMishaps, clash, told>>

\* The model fails, or the reply holds no more.
ReplyEnds(c) ==
    /\ MemAt(c, "ask")
    /\ memCall' = [memCall EXCEPT ![c] = EndOfReflection(@.do)]
    /\ UNCHANGED <<fileVars, fresh, indexVars, navVars, memCalls, memMishaps, clash, told, repeated>>

\* MarkStale reads the older observation; that it cannot is ignored.
ReadToReplace(c) ==
    /\ MemAt(c, "replace")
    /\ LET old == memCall[c].old IN
       memCall' = [memCall EXCEPT ![c] =
           IF Readable(old)
           THEN [@ EXCEPT !.at = "put", !.id = old, !.from = "file", !.old = NoMemory,
                          !.copy = [Copied(old) EXCEPT !.is = "stale"]]
           ELSE RestOfReply(@)]
    /\ UNCHANGED <<fileVars, fresh, indexVars, navVars, memCalls, memMishaps, clash, told, repeated>>

InvalidateAfterReflection(c) ==
    /\ MemAt(c, "forget") /\ cached' = NoListing
    /\ MemReturn(c)
    /\ UNCHANGED <<fileVars, fresh, indexVars, nav, memCalls, memMishaps, clash, told, repeated>>

-----------------------------------------------------------------------------
(* The index and the navigator *)

\* rebuildIndex skips what it cannot read.
Rebuilt == [m \in Memories |-> ShownAs(m)]

RebuildIndex ==
    /\ Unlocked
    /\ index' = Rebuilt /\ indexDirty' = FALSE /\ leftBehind' = FALSE
    /\ UNCHANGED <<fileVars, fresh, navVars, memCall, memCalls, memMishaps, clash, told, repeated>>

\* The observations come first; their file is written when the next one fails.
RebuildFails ==
    /\ Unlocked /\ MemMishap
    /\ index' = [m \in Memories |-> IF m \in Observations THEN Rebuilt[m] ELSE index[m]]
    /\ UNCHANGED <<fileVars, fresh, indexDirty, leftBehind, navVars, memCall, memCalls, clash, told, repeated>>

\* NavigateWithReason without a cached entry: ReadIndex, which rebuilds a dirty
\* index, and the choice of the model from what is active in it.
ReadIndex ==
    /\ cached = NoListing /\ nav = NoListing /\ Unlocked
    /\ index' = IF indexDirty THEN Rebuilt ELSE index
    /\ indexDirty' = FALSE
    /\ leftBehind' = (leftBehind /\ ~indexDirty)
    /\ LET seen == {m \in Memories : index'[m] = "active"} IN
           nav' = [at |-> "chosen", seen |-> seen, late |-> IF leftBehind' THEN Facts ELSE {}]
    /\ UNCHANGED <<fileVars, fresh, cached, memCall, memCalls, memMishaps, clash, told, repeated>>

SetCachedEntry ==
    /\ nav.at = "chosen"
    /\ cached' = nav /\ nav' = NoListing
    /\ UNCHANGED <<fileVars, fresh, indexVars, memCall, memCalls, memMishaps, clash, told, repeated>>

\* The model fails, or navigatorCacheTTL is over.
DropListing ==
    /\ \/ nav.at = "chosen" /\ nav' = NoListing /\ cached' = cached
       \/ cached.at = "chosen" /\ cached' = NoListing /\ nav' = nav
    /\ UNCHANGED <<fileVars, fresh, indexVars, memCall, memCalls, memMishaps, clash, told, repeated>>

\* The process ends, also within a write, and another one opens the directory.
MemoryProcessEnds ==
    /\ MemMishap
    /\ leftBehind' = (leftBehind \/ indexDirty)
    /\ indexDirty' = FALSE
    /\ memCall' = [c \in MemCallers |-> NoMemCall]
    /\ cached' = NoListing /\ nav' = NoListing
    /\ told' = told \ cutOff
    /\ UNCHANGED <<fileVars, fresh, index, memCalls, clash, repeated>>

-----------------------------------------------------------------------------
MemoryFilesNext ==
    \/ RebuildIndex \/ RebuildFails \/ ReadIndex \/ SetCachedEntry \/ DropListing
    \/ MemoryProcessEnds
    \/ \E c \in MemCallers :
          \/ \E m \in Memories :
                \/ \E do \in {"access", "update"} : ReadToPut(c, do, m)
                \/ \E do \in {"store", "add"} : StoreFact(c, do, m)
                \/ DeleteMemory(c, m)
          \/ MergeFails(c) \/ TruncateMemory(c) \/ WriteMemory(c) \/ WriteMemoryFails(c)
          \/ InvalidateAfterStore(c) \/ CountFacts(c) \/ StartReflection(c) \/ ListMemories(c)
          \/ \E o \in Observations, facts \in SUBSET Facts, old \in Memories \cup {NoMemory} :
                ModelCondenses(c, o, facts, old)
          \/ ReplyEnds(c) \/ ReadToReplace(c) \/ InvalidateAfterReflection(c)

MemoryFilesSpec == MemoryFilesInit /\ [][MemoryFilesNext]_memoryVars

-----------------------------------------------------------------------------
(* Correctness *)

\* Unless it is marked for a rebuild, the index says what the readable files
\* say; only a process that ended with a dirty index, a mark that is kept in
\* memory alone, leaves one that says otherwise (file_memory.go:636).
IndexIsCurrent ==
    ~indexDirty /\ ~leftBehind =>
        \A m \in Memories \ cutOff : index[m] = mem[m].is

\* No fact counts for two active observations but one that the reply to a single
\* reflection has cited twice, unless a reflection began while another one or a
\* write of an observation was under way (file_memory.go:395, 483).
EvidenceCountedOnce ==
    ~clash => \A o, p \in ActiveIn(Observations) :
        o # p => evidence[o] \cap evidence[p] \subseteq repeated

\* What is cached was chosen from a list of all the facts whose storing has
\* returned, but for those that StoreIfWorthwhile has stored since the index was
\* read for it and before it was cached, and those that Add has stored at any
\* time since; or an index left behind by another process was read
\* (navigator.go:79-151, service.go:371).
NavigatorIsCurrent ==
    cached.at = "chosen" => told \subseteq cached.seen \cup cached.late

\* What was deleted, superseded or rewritten comes back only through a call
\* that had read the memory before (file_memory.go:286, 587; service.go:407).
NothingComesBack ==
    [][mem' # mem => \A m \in Memories \ fresh :
          \/ mem[m].is = "absent" /\ mem'[m].is # "absent"
          \/ mem[m].is = "stale" /\ mem'[m].is = "active"
          \/ mem[m].text = "updated" /\ mem'[m].text = "was" /\ mem'[m].is # "absent"
          => \E c \in MemCallers : memCall[c].id = m /\ memCall[c].from # "file"]_memoryVars

\* The files, their index and the cached choice agree, evidence counts once,
\* and no change to a memory is undone, each with its known exception.
MemoryFilesCorrect ==
    /\ [](MemoryFilesTypeOK /\ IndexIsCurrent /\ EvidenceCountedOnce /\ NavigatorIsCurrent)
    /\ NothingComesBack
=============================================================================
