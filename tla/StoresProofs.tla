---------------------------- MODULE StoresProofs ----------------------------
(***************************************************************************)
(* Proofs about what is kept: memories in files, documents in tables and   *)
(* cut into chunks, and conversations in memory, for any number of each    *)
(* and of callers.                                                         *)
(***************************************************************************)
EXTENDS MemoryFiles, Retrieval, FiniteSetTheorems, SequenceTheorems,
        WellFoundedInduction, TLAPS

-----------------------------------------------------------------------------
(* The memory kept in files *)

MemCallRec ==
    [do : {"none", "access", "update", "store", "add", "reflect", "auto"},
     at : {"idle", "put", "write", "invalidate", "count", "list", "ask", "replace", "forget"},
     id : Memories \cup {NoMemory}, copy : Content, from : {"model", "file", "past"},
     new : SUBSET Facts, cited : SUBSET Facts, olds : SUBSET Observations, old : Observations \cup {NoMemory}]

Listing == [at : {"none", "chosen"}, seen : SUBSET Memories, late : SUBSET Facts]

MemTyped ==
    /\ mem \in [Memories -> Content]
    /\ cutOff \subseteq Memories /\ fresh \subseteq Memories
    /\ evidence \in [Observations -> SUBSET Facts]
    /\ index \in [Memories -> {"absent", "active", "stale"}]
    /\ indexDirty \in BOOLEAN /\ leftBehind \in BOOLEAN /\ clash \in BOOLEAN
    /\ cached \in Listing /\ nav \in Listing
    /\ memCall \in [MemCallers -> MemCallRec]
    /\ told \subseteq Facts /\ repeated \subseteq Facts

\* A call that holds a copy, and one that holds a new observation.
Holds(x) == x.at \in {"put", "write"}
HoldsNew(x) == Holds(x) /\ x.from = "model" /\ x.id \in Observations

\* What a call is at goes with what it does and holds.
MemCallFits(x) ==
    /\ Holds(x) => x.id \in Memories /\ x.do # "none"
    /\ x.do \in {"store", "add"} => x.id \in Facts /\ x.from = "model"
    /\ x.at = "invalidate" => x.do = "store"
    /\ x.from = "file" => Holds(x)
    /\ Holds(x) /\ x.from = "model" => x.copy = Active
    /\ Holds(x) /\ x.id \in Facts => x.copy.is = "active"
    /\ x.at \in {"list", "ask", "replace"} \/ HoldsNew(x) => x.do \in {"reflect", "auto"}
    /\ x.at = "replace" => x.old \in Observations
    /\ x.old # NoMemory => x.do \in {"reflect", "auto"}
    /\ x.from # "model" => x.old = NoMemory /\ x.at \notin {"list", "ask"}

CallsFit == \A c \in MemCallers : MemCallFits(memCall[c])

\* Nobody has seen an identity that is not given out.
FreshUnseen ==
    \A m \in fresh : mem[m].is = "absent" /\ \A c \in MemCallers : memCall[c].id # m

\* A new memory is known to its call only.
NewIsOwn ==
    \A c \in MemCallers : Holds(memCall[c]) /\ memCall[c].from = "model" =>
        /\ mem[memCall[c].id].is = "absent"
        /\ \A d \in MemCallers \ {c} : memCall[d].id # memCall[c].id

\* One call writes at a time.
OneWrites == \A c, d \in MemCallers : MemAt(c, "write") /\ MemAt(d, "write") => c = d

BeingWritten(m) == \E c \in MemCallers : MemAt(c, "write") /\ memCall[c].id = m

\* A copy that is not of the past is what the file says, but for what its call changes.
CopiesAreCurrent ==
    \A c \in MemCallers : memCall[c].from = "file" =>
        LET m == memCall[c].id IN
        /\ mem[m].is # "absent" /\ memCall[c].copy.is \in {mem[m].is, "stale"}
        /\ memCall[c].copy.text \in {mem[m].text, "updated"}
        /\ m \in cutOff => BeingWritten(m)

\* A fact is never superseded, and one that was stored is there.
FactsAreThere ==
    \A m \in Facts :
        /\ mem[m].is # "stale"
        /\ m \in told => mem[m].is = "active" /\ (m \in cutOff => BeingWritten(m))

\* A choice that is on its way or cached knows all that was stored.
ListingsAreCurrent ==
    \A listing \in {cached, nav} :
        listing.at = "chosen" => told \subseteq listing.seen \cup listing.late

\* An observation that is active, or will be when the call that writes its file is done.
Alive(o) ==
    /\ mem[o].is = "active"
    /\ o \in cutOff => \E c \in MemCallers :
           MemAt(c, "write") /\ memCall[c].id = o /\ memCall[c].from = "file"

AliveObs == {o \in Observations : Alive(o)}

\* Of the facts that a reflection was shown, those that count for an observation
\* are the ones its reply has cited; what counts twice, one reply has cited twice.
EvidenceFits ==
    ~clash =>
        /\ \A o, p \in AliveObs : o # p => evidence[o] \cap evidence[p] \subseteq repeated
        /\ \A c \in MemCallers : Reflecting(c) =>
               /\ \A o \in AliveObs : memCall[c].new \cap evidence[o] \subseteq memCall[c].cited
               /\ HoldsNew(memCall[c]) =>
                      /\ evidence[memCall[c].id] \subseteq memCall[c].cited
                      /\ \A o \in AliveObs :
                             evidence[memCall[c].id] \cap evidence[o] \subseteq repeated
        /\ \A c, d \in MemCallers : Reflecting(c) /\ Reflecting(d) => c = d

MemInductive ==
    /\ MemTyped /\ CallsFit /\ FreshUnseen /\ NewIsOwn /\ OneWrites /\ CopiesAreCurrent
    /\ FactsAreThere /\ ListingsAreCurrent /\ IndexIsCurrent /\ EvidenceFits

-----------------------------------------------------------------------------
\* What a call is replaced by.

LEMMA NoCallIsOne == NoMemCall \in MemCallRec /\ MemCallFits(NoMemCall) /\ ~Holds(NoMemCall)
  BY DEF NoMemCall, MemCallRec, MemCallFits, Holds, HoldsNew, Absent, Content

\* The end of a reflection, whoever has started it, and what is left of a reply.
LEMMA EndsFit ==
    ASSUME NEW do \in {"none", "access", "update", "store", "add", "reflect", "auto"}
    PROVE  LET x == EndOfReflection(do) IN
           /\ x \in MemCallRec /\ MemCallFits(x) /\ x.at \in {"idle", "forget"}
           /\ x.id = NoMemory /\ x.from = "model"
<1> DEFINE y == [NoMemCall EXCEPT !.do = "auto", !.at = "forget"]
<1>1. /\ y \in MemCallRec /\ y.do = "auto" /\ y.at = "forget" /\ y.from = "model"
      /\ y.id = NoMemory /\ y.old = NoMemory
  BY NoCallIsOne DEF MemCallRec, NoMemCall
<1> HIDE DEF y
<1>2. MemCallFits(y)
  BY <1>1 DEF MemCallFits, Holds, HoldsNew
<1>3. CASE do = "auto"
  BY <1>1, <1>2, <1>3 DEF EndOfReflection, y
<1>4. CASE do # "auto"
  BY <1>4, NoCallIsOne DEF EndOfReflection, NoMemCall
<1>5. QED
  BY <1>3, <1>4

LEMMA RestFits ==
    ASSUME NEW call \in MemCallRec, call.do \in {"reflect", "auto"}
    PROVE  LET x == RestOfReply(call) IN
           /\ x \in MemCallRec /\ MemCallFits(x) /\ x.at = "ask" /\ x.do = call.do
           /\ x.id = NoMemory /\ x.from = "model" /\ ~HoldsNew(x)
           /\ x.new = call.new /\ x.cited = call.cited
<1> DEFINE x == RestOfReply(call)
<1>1. Absent \in Content
  BY DEF Absent, Content
<1>2. /\ x \in MemCallRec /\ x.at = "ask" /\ x.do = call.do /\ x.id = NoMemory
      /\ x.from = "model" /\ x.old = NoMemory /\ x.new = call.new /\ x.cited = call.cited
  BY <1>1 DEF RestOfReply, MemCallRec
<1> HIDE DEF x
<1>3. MemCallFits(x) /\ ~HoldsNew(x)
  BY <1>2 DEF MemCallFits, Holds, HoldsNew
<1>4. QED
  BY <1>2, <1>3 DEF x

LEMMA OneMemCall ==
    ASSUME MemTyped, NEW c \in MemCallers, NEW x \in MemCallRec, memCall' = [memCall EXCEPT ![c] = x]
    PROVE  /\ memCall' \in [MemCallers -> MemCallRec] /\ memCall'[c] = x
           /\ \A d \in MemCallers \ {c} : memCall'[d] = memCall[d]
  BY DEF MemTyped

LEMMA CallMovesTo ==
    ASSUME NEW x \in MemCallRec,
           NEW p \in {"idle", "put", "write", "invalidate", "count", "list", "ask", "replace", "forget"}
    PROVE  LET y == [x EXCEPT !.at = p] IN
           /\ y \in MemCallRec /\ y.at = p /\ y.do = x.do /\ y.id = x.id /\ y.copy = x.copy
           /\ y.from = x.from /\ y.new = x.new /\ y.cited = x.cited /\ y.old = x.old
  BY DEF MemCallRec

LEMMA MemGoes ==
    ASSUME MemTyped, NEW c \in MemCallers,
           NEW p \in {"idle", "put", "write", "invalidate", "count", "list", "ask", "replace", "forget"},
           MemGoto(c, p)
    PROVE  memCall' = [memCall EXCEPT ![c] = [memCall[c] EXCEPT !.at = p]]
  BY DEF MemGoto, MemTyped

LEMMA MemStart == MemoryFilesInit => MemInductive
<1> SUFFICES ASSUME MemoryFilesInit PROVE MemInductive
  OBVIOUS
<1>1. /\ Facts \cap Observations = {} /\ NoMemory \notin Memories
      /\ OldObservation \in Observations /\ OldEvidence \subseteq Facts /\ NewFacts \subseteq Facts
  BY MemoryFilesAssumption DEF Memories
<1>2. /\ fresh \subseteq Memories /\ told = {} /\ cutOff = {}
      /\ mem = [m \in Memories |-> IF m \in fresh THEN Absent ELSE Active]
      /\ index = [m \in Memories |-> mem[m].is]
      /\ memCall = [c \in MemCallers |-> NoMemCall]
      /\ cached = NoListing /\ nav = NoListing /\ repeated = {}
  BY <1>1 DEF MemoryFilesInit, Memories
<1>3. \A m \in Memories : mem[m] \in Content /\ mem[m].is = IF m \in fresh THEN "absent" ELSE "active"
  BY <1>2 DEF Absent, Active, Content
<1>4. \A c \in MemCallers : memCall[c] = NoMemCall
  BY <1>2
<1>5. MemTyped
  <2>1. evidence \in [Observations -> SUBSET Facts]
    BY <1>1 DEF MemoryFilesInit
  <2>2. index \in [Memories -> {"absent", "active", "stale"}] /\ mem \in [Memories -> Content]
    BY <1>2, <1>3
  <2>3. NoListing \in Listing
    BY DEF NoListing, Listing
  <2>4. QED
    BY <1>2, <2>1, <2>2, <2>3, NoCallIsOne DEF MemoryFilesInit, MemTyped
<1>6. CallsFit
  BY <1>4, NoCallIsOne DEF CallsFit
<1>7. FreshUnseen
  BY <1>1, <1>2, <1>3, <1>4 DEF FreshUnseen, NoMemCall
<1>8. NewIsOwn /\ OneWrites /\ CopiesAreCurrent
  BY <1>4 DEF NewIsOwn, OneWrites, CopiesAreCurrent, MemAt, NoMemCall, Holds
<1>9. FactsAreThere
  BY <1>2, <1>3 DEF FactsAreThere, Memories
<1>10. ListingsAreCurrent
  BY <1>2 DEF ListingsAreCurrent, NoListing
<1>11. IndexIsCurrent
  BY <1>2 DEF IndexIsCurrent
<1>12. EvidenceFits
  <2>1. \A o \in AliveObs : o = OldObservation
    BY <1>1, <1>3 DEF AliveObs, Alive, Memories, MemoryFilesInit
  <2>2. \A c \in MemCallers : ~Reflecting(c)
    BY <1>4 DEF NoMemCall, Reflecting
  <2>3. QED
    BY <2>1, <2>2 DEF EvidenceFits
<1>13. QED
  BY <1>5, <1>6, <1>7, <1>8, <1>9, <1>10, <1>11, <1>12 DEF MemInductive

-----------------------------------------------------------------------------
\* What the steps leave alone.

\* Evidence counts once as long as no observation comes to life and nobody is
\* shown, or begins to store, anything new.
LEMMA EvidenceStays ==
    ASSUME EvidenceFits, clash => clash', evidence' = evidence, repeated' = repeated,
           \A o \in Observations : Alive(o)' => Alive(o),
           \A d \in MemCallers :
               /\ Reflecting(d)' =>
                      /\ Reflecting(d) /\ memCall'[d].new = memCall[d].new
                      /\ memCall'[d].cited = memCall[d].cited
               /\ HoldsNew(memCall'[d]) => HoldsNew(memCall[d]) /\ memCall'[d].id = memCall[d].id
    PROVE  EvidenceFits'
<1> SUFFICES ASSUME ~clash'
             PROVE  /\ \A o, p \in AliveObs' : o # p => evidence'[o] \cap evidence'[p] \subseteq repeated'
                    /\ \A c \in MemCallers : Reflecting(c)' =>
                           /\ \A o \in AliveObs' :
                                  memCall'[c].new \cap evidence'[o] \subseteq memCall'[c].cited
                           /\ HoldsNew(memCall'[c]) =>
                                  /\ evidence'[memCall'[c].id] \subseteq memCall'[c].cited
                                  /\ \A o \in AliveObs' :
                                         evidence'[memCall'[c].id] \cap evidence'[o] \subseteq repeated'
                    /\ \A c, d \in MemCallers : Reflecting(c)' /\ Reflecting(d)' => c = d
  BY DEF EvidenceFits
<1>1. ~clash /\ AliveObs' \subseteq AliveObs
  BY DEF AliveObs
<1>2. \A c, d \in MemCallers : Reflecting(c)' /\ Reflecting(d)' => c = d
  BY <1>1 DEF EvidenceFits
<1>3. \A o, p \in AliveObs' : o # p => evidence'[o] \cap evidence'[p] \subseteq repeated'
  BY <1>1 DEF EvidenceFits
<1>4. ASSUME NEW c \in MemCallers, Reflecting(c)'
      PROVE  /\ \A o \in AliveObs' : memCall'[c].new \cap evidence'[o] \subseteq memCall'[c].cited
             /\ HoldsNew(memCall'[c]) =>
                    /\ evidence'[memCall'[c].id] \subseteq memCall'[c].cited
                    /\ \A o \in AliveObs' :
                           evidence'[memCall'[c].id] \cap evidence'[o] \subseteq repeated'
  <2>1. /\ Reflecting(c) /\ memCall'[c].new = memCall[c].new /\ memCall'[c].cited = memCall[c].cited
        /\ HoldsNew(memCall'[c]) => HoldsNew(memCall[c]) /\ memCall'[c].id = memCall[c].id
    BY <1>4
  <2>2. QED
    BY <1>1, <2>1 DEF EvidenceFits
<1>5. QED
  BY <1>2, <1>3, <1>4

\* A call goes on that is neither writing nor begins to.
LEMMA MemCallStep ==
    ASSUME MemInductive, NEW c \in MemCallers, NEW x \in MemCallRec, MemCallFits(x),
           memCall' = [memCall EXCEPT ![c] = x],
           memCall[c].at # "write", x.at # "write",
           UNCHANGED <<mem, cutOff, index, indexDirty, leftBehind>>,
           fresh' \subseteq fresh, x.id \notin fresh',
           told' \subseteq Facts, \A m \in told' : m \in told \/ Readable(m),
           repeated' \subseteq Facts,
           cached' \in Listing, nav' \in Listing, ListingsAreCurrent',
           Holds(x) /\ x.from = "model" =>
               mem[x.id].is = "absent" /\ \A d \in MemCallers \ {c} : memCall[d].id # x.id,
           \A d \in MemCallers \ {c} :
               Holds(memCall[d]) /\ memCall[d].from = "model" => memCall[d].id # x.id,
           x.from = "file" =>
               /\ mem[x.id].is # "absent" /\ x.copy.is \in {mem[x.id].is, "stale"}
               /\ x.copy.text \in {mem[x.id].text, "updated"} /\ x.id \notin cutOff,
           evidence' \in [Observations -> SUBSET Facts], clash' \in BOOLEAN, EvidenceFits'
    PROVE  MemInductive'
<1> USE DEF MemInductive
<1>1. /\ memCall' \in [MemCallers -> MemCallRec] /\ memCall'[c] = x
      /\ \A d \in MemCallers \ {c} : memCall'[d] = memCall[d]
  BY OneMemCall
<1>2. MemTyped'
  BY <1>1 DEF MemTyped
<1>3. CallsFit'
  BY <1>1 DEF CallsFit
<1>4. FreshUnseen'
  BY <1>1 DEF FreshUnseen
<1>5. NewIsOwn'
  BY <1>1 DEF NewIsOwn
<1>6. OneWrites'
  BY <1>1 DEF OneWrites, MemAt
<1>7. \A m \in Memories : BeingWritten(m)' <=> BeingWritten(m)
  BY <1>1 DEF BeingWritten, MemAt
<1>8. CopiesAreCurrent'
  <2> SUFFICES ASSUME NEW d \in MemCallers, memCall'[d].from = "file"
               PROVE  /\ mem'[memCall'[d].id].is # "absent"
                      /\ memCall'[d].copy.is \in {mem'[memCall'[d].id].is, "stale"}
                      /\ memCall'[d].copy.text \in {mem'[memCall'[d].id].text, "updated"}
                      /\ memCall'[d].id \in cutOff' => BeingWritten(memCall[d].id)'
    BY DEF CopiesAreCurrent, BeingWritten, MemAt
  <2>1. CASE d = c
    BY <1>1, <2>1
  <2>2. CASE d # c
    BY <1>1, <1>7, <2>2 DEF CopiesAreCurrent, MemTyped
  <2>3. QED
    BY <2>1, <2>2
<1>9. FactsAreThere'
  <2> SUFFICES ASSUME NEW m \in Facts
               PROVE  /\ mem'[m].is # "stale"
                      /\ m \in told' => mem'[m].is = "active" /\ (m \in cutOff' => BeingWritten(m)')
    BY DEF FactsAreThere
  <2>1. mem[m] \in Content /\ m \in Memories
    BY DEF MemTyped, Memories
  <2>2. Readable(m) => mem[m].is = "active" /\ m \notin cutOff
    BY <2>1 DEF Readable, Content, FactsAreThere
  <2>3. QED
    BY <1>7, <2>1, <2>2 DEF FactsAreThere
<1>10. IndexIsCurrent'
  BY DEF IndexIsCurrent
<1>11. QED
  BY <1>2, <1>3, <1>4, <1>5, <1>6, <1>8, <1>9, <1>10

\* Nothing comes to life while the files stay and nobody begins or ends a write.
LEMMA AliveStays ==
    ASSUME MemTyped, NEW c \in MemCallers, NEW x \in MemCallRec,
           memCall' = [memCall EXCEPT ![c] = x], memCall[c].at # "write", x.at # "write",
           UNCHANGED <<mem, cutOff>>
    PROVE  \A o \in Observations : Alive(o)' <=> Alive(o)
<1>1. memCall'[c] = x /\ \A d \in MemCallers \ {c} : memCall'[d] = memCall[d]
  BY OneMemCall
<1>2. \A d \in MemCallers : MemAt(d, "write")' <=> MemAt(d, "write")
  BY <1>1 DEF MemAt
<1>3. \A d \in MemCallers : MemAt(d, "write") => memCall'[d] = memCall[d]
  BY <1>1 DEF MemAt
<1>4. QED
  BY <1>2, <1>3 DEF Alive

\* A call goes on, or ends, with no copy in its hands.
LEMMA QuietStep ==
    ASSUME MemInductive, NEW c \in MemCallers, NEW x \in MemCallRec, MemCallFits(x),
           memCall' = [memCall EXCEPT ![c] = x],
           memCall[c].at # "write", ~Holds(x), x.at \notin {"ask", "replace"},
           x.id \in {NoMemory, memCall[c].id},
           UNCHANGED <<mem, cutOff, evidence, fresh, index, indexDirty, leftBehind, clash, repeated>>,
           told' \subseteq Facts, \A m \in told' : m \in told \/ Readable(m),
           cached' \in Listing, nav' \in Listing, ListingsAreCurrent'
    PROVE  MemInductive'
<1>1. MemTyped /\ FreshUnseen /\ NewIsOwn /\ EvidenceFits /\ CallsFit
  BY DEF MemInductive
<1>2. NoMemory \notin Memories
  BY MemoryFilesAssumption DEF Memories
<1>3. x.at # "write" /\ x.from # "file"
  BY DEF Holds, MemCallFits
<1>4. x.id \notin fresh
  BY <1>1, <1>2 DEF FreshUnseen, MemTyped
<1>5. \A d \in MemCallers \ {c} :
          Holds(memCall[d]) /\ memCall[d].from = "model" => memCall[d].id # x.id
  BY <1>1, <1>2 DEF NewIsOwn, CallsFit, MemCallFits
<1>6. memCall'[c] = x /\ \A d \in MemCallers \ {c} : memCall'[d] = memCall[d]
  BY <1>1, OneMemCall
<1>7. EvidenceFits'
  <2>1. \A o \in Observations : Alive(o)' => Alive(o)
    BY <1>1, <1>3, AliveStays
  <2>2. ~HoldsNew(x) /\ ~Reflecting(c)'
    BY <1>6 DEF HoldsNew, Holds, Reflecting
  <2>3. \A d \in MemCallers \ {c} :
            /\ Reflecting(d)' <=> Reflecting(d)
            /\ memCall'[d] = memCall[d]
    BY <1>6 DEF Reflecting
  <2>4. QED
    BY <1>1, <1>6, <2>1, <2>2, <2>3, EvidenceStays
<1>8. QED
  BY <1>1, <1>3, <1>4, <1>5, <1>7, MemCallStep DEF MemTyped

LEMMA QuietSteps ==
    ASSUME MemInductive, NEW c \in MemCallers,
           MergeFails(c) \/ CountFacts(c) \/ ReplyEnds(c) \/ StartReflection(c)
    PROVE  MemInductive'
<1> USE DEF fileVars, indexVars, navVars
<1>t. /\ MemTyped /\ CallsFit /\ ListingsAreCurrent /\ memCall[c] \in MemCallRec
      /\ memCall[c].do \in {"none", "access", "update", "store", "add", "reflect", "auto"}
  BY DEF MemInductive, MemTyped, MemCallRec
<1>1. /\ UNCHANGED <<mem, cutOff, evidence, fresh, index, indexDirty, leftBehind, clash, told,
                     cached, nav, repeated>>
      /\ memCall[c].at # "write"
  BY DEF MergeFails, CountFacts, ReplyEnds, StartReflection, MemAt, Starts, MemIdle
<1>2. ListingsAreCurrent'
  BY <1>t, <1>1 DEF ListingsAreCurrent
<1>3. PICK x \in MemCallRec : /\ memCall' = [memCall EXCEPT ![c] = x]
                              /\ MemCallFits(x) /\ ~Holds(x) /\ x.at \notin {"ask", "replace"}
                              /\ x.id = NoMemory
  <2>1. ASSUME NEW do \in {"reflect", "auto"}
        PROVE  LET y == [NoMemCall EXCEPT !.do = do, !.at = "list"] IN
               /\ y \in MemCallRec /\ MemCallFits(y) /\ ~Holds(y) /\ y.at \notin {"ask", "replace"}
               /\ y.id = NoMemory
    <3> DEFINE y == [NoMemCall EXCEPT !.do = do, !.at = "list"]
    <3>1. /\ y \in MemCallRec /\ y.do = do /\ y.at = "list" /\ y.from = "model"
          /\ y.id = NoMemory /\ y.old = NoMemory
      BY NoCallIsOne DEF MemCallRec, NoMemCall
    <3> HIDE DEF y
    <3>2. MemCallFits(y) /\ ~Holds(y)
      BY <3>1 DEF MemCallFits, Holds, HoldsNew
    <3>3. QED
      BY <3>1, <3>2 DEF y
  <2>2. NoMemCall.at \notin {"ask", "replace"} /\ NoMemCall.id = NoMemory
    BY DEF NoMemCall
  <2>3. CASE memCall' = [memCall EXCEPT ![c] = NoMemCall]
    BY <2>2, <2>3, NoCallIsOne
  <2>4. CASE \E do \in {"reflect", "auto"} :
                 memCall' = [memCall EXCEPT ![c] = [NoMemCall EXCEPT !.do = do, !.at = "list"]]
    BY <2>1, <2>4
  <2>5. CASE memCall' = [memCall EXCEPT ![c] = EndOfReflection(memCall[c].do)]
    <3>1. LET x == EndOfReflection(memCall[c].do) IN
          x \in MemCallRec /\ MemCallFits(x) /\ x.at \in {"idle", "forget"} /\ x.id = NoMemory
      BY <1>t, EndsFit
    <3>2. QED
      BY <2>5, <3>1 DEF Holds
  <2>6. QED
    BY <1>t, <2>3, <2>4, <2>5
    DEF MergeFails, CountFacts, ReplyEnds, StartReflection, MemReturn, Starts, MemTyped
<1>4. QED
  BY <1>t, <1>1, <1>2, <1>3, QuietStep DEF MemTyped

\* A listing that misses a fact says so.
LEMMA MissedIsLate ==
    ASSUME NEW listing \in Listing, NEW m \in Facts
    PROVE  /\ Misses(listing, m) \in Listing
           /\ Misses(listing, m).at = listing.at /\ Misses(listing, m).seen = listing.seen
           /\ listing.at = "chosen" => Misses(listing, m).late = listing.late \cup {m}
<1>1. CASE listing.at = "chosen"
  <2> DEFINE late == listing.late \cup {m}
  <2>1. late \in SUBSET Facts /\ Misses(listing, m) = [listing EXCEPT !.late = late]
    BY <1>1 DEF Listing, Misses
  <2> HIDE DEF late
  <2>2. /\ Misses(listing, m) \in Listing /\ Misses(listing, m).at = listing.at
        /\ Misses(listing, m).seen = listing.seen /\ Misses(listing, m).late = late
    BY <2>1 DEF Listing
  <2>3. QED
    BY <2>2 DEF late
<1>2. CASE listing.at # "chosen"
  BY <1>2 DEF Misses
<1>3. QED
  BY <1>1, <1>2

LEMMA InvalidateSteps ==
    ASSUME MemInductive, NEW c \in MemCallers,
           InvalidateAfterStore(c) \/ InvalidateAfterReflection(c)
    PROVE  MemInductive'
<1> USE DEF fileVars, indexVars
<1>t. /\ MemTyped /\ CallsFit /\ ListingsAreCurrent /\ memCall[c] \in MemCallRec
      /\ MemCallFits(memCall[c])
  BY DEF MemInductive, MemTyped, CallsFit
<1>1. /\ UNCHANGED <<mem, cutOff, evidence, fresh, index, indexDirty, leftBehind, clash, repeated>>
      /\ cached' = NoListing
  BY DEF InvalidateAfterStore, InvalidateAfterReflection
<1>2. NoListing \in Listing /\ NoListing.at # "chosen" /\ nav \in Listing
  BY <1>t DEF NoListing, Listing, MemTyped
<1>3. CASE InvalidateAfterStore(c)
  <2>1. /\ memCall[c].at = "invalidate" /\ MemGoto(c, "count")
        /\ told' = (IF Readable(memCall[c].id) THEN told \cup {memCall[c].id} ELSE told)
        /\ nav' = Misses(nav, memCall[c].id)
    BY <1>3 DEF InvalidateAfterStore, MemAt
  <2>2. memCall[c].id \in Facts
    BY <1>t, <2>1 DEF MemCallFits
  <2>3. told' \subseteq Facts /\ \A m \in told' : m \in told \/ Readable(m)
    BY <1>t, <2>1, <2>2 DEF MemTyped
  <2> DEFINE x == [memCall[c] EXCEPT !.at = "count"]
  <2>4. memCall' = [memCall EXCEPT ![c] = x]
    BY <1>t, <2>1, MemGoes
  <2>5. /\ x \in MemCallRec /\ x.at = "count" /\ x.do = memCall[c].do /\ x.id = memCall[c].id
        /\ x.from = memCall[c].from /\ x.old = memCall[c].old
    BY <1>t, CallMovesTo
  <2> HIDE DEF x
  <2>6. MemCallFits(x) /\ ~Holds(x)
    BY <1>t, <2>1, <2>5 DEF MemCallFits, Holds, HoldsNew
  <2>7. /\ nav' \in Listing /\ nav'.at = nav.at /\ nav'.seen = nav.seen
        /\ nav.at = "chosen" => nav'.late = nav.late \cup {memCall[c].id}
    BY <1>2, <2>1, <2>2, MissedIsLate
  <2>8. ListingsAreCurrent'
    BY <1>t, <1>1, <1>2, <2>1, <2>7 DEF ListingsAreCurrent
  <2>9. QED
    BY <1>1, <1>2, <2>1, <2>3, <2>4, <2>5, <2>6, <2>7, <2>8, QuietStep
<1>4. CASE InvalidateAfterReflection(c)
  <2>1. /\ memCall[c].at = "forget" /\ memCall' = [memCall EXCEPT ![c] = NoMemCall]
        /\ told' = told /\ nav' = nav
    BY <1>4 DEF InvalidateAfterReflection, MemAt, MemReturn
  <2>2. NoMemCall.at \notin {"ask", "replace"} /\ NoMemCall.id = NoMemory
    BY DEF NoMemCall
  <2>3. ListingsAreCurrent'
    BY <1>t, <1>1, <1>2, <2>1 DEF ListingsAreCurrent
  <2>4. QED
    BY <1>t, <1>1, <1>2, <2>1, <2>2, <2>3, NoCallIsOne, QuietStep DEF MemTyped
<1>5. QED
  BY <1>3, <1>4

\* The index is written or read, or what was chosen from it is kept or dropped.
LEMMA IndexStep ==
    ASSUME MemInductive, UNCHANGED <<mem, cutOff, evidence, fresh, memCall, clash, told, repeated>>,
           index' \in [Memories -> {"absent", "active", "stale"}],
           indexDirty' \in BOOLEAN, leftBehind' \in BOOLEAN,
           cached' \in Listing, nav' \in Listing, ListingsAreCurrent', IndexIsCurrent'
    PROVE  MemInductive'
<1> USE DEF MemInductive
<1>1. MemTyped' /\ CallsFit' /\ FreshUnseen' /\ NewIsOwn'
  BY DEF MemTyped, CallsFit, FreshUnseen, NewIsOwn
<1>2. OneWrites' /\ CopiesAreCurrent' /\ FactsAreThere'
  BY DEF OneWrites, CopiesAreCurrent, FactsAreThere, BeingWritten, MemAt
<1>3. \A o \in Observations : Alive(o)' => Alive(o)
  BY DEF Alive, MemAt
<1>4. EvidenceFits'
  BY <1>3, EvidenceStays DEF Reflecting
<1>5. QED
  BY <1>1, <1>2, <1>4

LEMMA IndexSteps ==
    ASSUME MemInductive, RebuildIndex \/ RebuildFails \/ ReadIndex \/ SetCachedEntry \/ DropListing
    PROVE  MemInductive'
<1> USE DEF fileVars, indexVars, navVars
<1>t. MemTyped /\ FactsAreThere /\ ListingsAreCurrent /\ IndexIsCurrent
  BY DEF MemInductive
<1>r. /\ Rebuilt \in [Memories -> {"absent", "active", "stale"}]
      /\ \A m \in Memories \ cutOff : Rebuilt[m] = mem[m].is
  BY <1>t DEF MemTyped, Content, Rebuilt, ShownAs
<1>n. NoListing \in Listing /\ NoListing.at = "none"
  BY DEF NoListing, Listing
<1>1. CASE RebuildIndex \/ RebuildFails
  <2>1. UNCHANGED <<mem, cutOff, evidence, fresh, memCall, clash, told, repeated, cached, nav>>
    BY <1>1 DEF RebuildIndex, RebuildFails
  <2>2. /\ index' \in [Memories -> {"absent", "active", "stale"}]
        /\ indexDirty' \in BOOLEAN /\ leftBehind' \in BOOLEAN
    BY <1>t, <1>r, <1>1 DEF RebuildIndex, RebuildFails, MemTyped
  <2>3. IndexIsCurrent'
    BY <1>t, <1>r, <1>1 DEF RebuildIndex, RebuildFails, IndexIsCurrent
  <2>4. ListingsAreCurrent'
    BY <1>t, <2>1 DEF ListingsAreCurrent
  <2>5. QED
    BY <1>t, <2>1, <2>2, <2>3, <2>4, IndexStep DEF MemTyped
<1>2. CASE ReadIndex
  <2>1. /\ UNCHANGED <<mem, cutOff, evidence, fresh, memCall, clash, told, repeated, cached>>
        /\ index' = (IF indexDirty THEN Rebuilt ELSE index) /\ indexDirty' = FALSE
        /\ leftBehind' = (leftBehind /\ ~indexDirty) /\ cached = NoListing /\ Unlocked
        /\ nav' = [at |-> "chosen", seen |-> {m \in Memories : index'[m] = "active"},
                   late |-> IF leftBehind' THEN Facts ELSE {}]
    BY <1>2 DEF ReadIndex
  <2>2. /\ index' \in [Memories -> {"absent", "active", "stale"}]
        /\ indexDirty' \in BOOLEAN /\ leftBehind' \in BOOLEAN
    BY <1>t, <1>r, <2>1 DEF MemTyped
  <2>3. IndexIsCurrent'
    BY <1>t, <1>r, <2>1 DEF IndexIsCurrent
  <2>4. nav' \in Listing
    BY <2>1, <2>2 DEF Listing
  <2>5. \A m \in told : m \in Memories /\ m \notin cutOff /\ mem[m].is = "active"
    BY <1>t, <2>1 DEF FactsAreThere, MemTyped, Memories, BeingWritten, Unlocked
  <2>6. ~leftBehind' => \A m \in told : index'[m] = "active"
    BY <2>1, <2>3, <2>5 DEF IndexIsCurrent
  <2>7. told' \subseteq nav'.seen \cup nav'.late
    BY <1>t, <2>1, <2>5, <2>6 DEF MemTyped
  <2>8. ListingsAreCurrent'
    BY <1>n, <2>1, <2>7 DEF ListingsAreCurrent
  <2>9. QED
    BY <1>t, <2>1, <2>2, <2>3, <2>4, <2>8, IndexStep DEF MemTyped
<1>3. CASE SetCachedEntry \/ DropListing
  <2>1. UNCHANGED <<mem, cutOff, evidence, fresh, memCall, clash, told, repeated, index, indexDirty,
                    leftBehind>>
    BY <1>3 DEF SetCachedEntry, DropListing
  <2>2. cached' \in {cached, nav, NoListing} /\ nav' \in {nav, NoListing}
    BY <1>3 DEF SetCachedEntry, DropListing
  <2>3. cached' \in Listing /\ nav' \in Listing
    BY <1>t, <1>n, <2>2 DEF MemTyped
  <2>4. ListingsAreCurrent'
    BY <1>t, <1>n, <2>1, <2>2 DEF ListingsAreCurrent
  <2>5. IndexIsCurrent'
    BY <1>t, <2>1 DEF IndexIsCurrent
  <2>6. QED
    BY <1>t, <2>1, <2>3, <2>4, <2>5, IndexStep DEF MemTyped
<1>4. QED
  BY <1>1, <1>2, <1>3

\* Evidence counts once while a call goes on that stores no observation of its own.
LEMMA EvidenceOfStep ==
    ASSUME MemInductive, NEW c \in MemCallers, NEW x \in MemCallRec,
           memCall' = [memCall EXCEPT ![c] = x],
           memCall[c].at # "write", x.at # "write", ~HoldsNew(x),
           x.do \in {"reflect", "auto"} /\ x.at \in {"ask", "put", "replace"} =>
               Reflecting(c) /\ x.new = memCall[c].new /\ x.cited = memCall[c].cited,
           UNCHANGED <<mem, cutOff, evidence, repeated>>, clash => clash'
    PROVE  EvidenceFits'
<1>1. MemTyped /\ EvidenceFits
  BY DEF MemInductive
<1>2. memCall'[c] = x /\ \A d \in MemCallers \ {c} : memCall'[d] = memCall[d]
  BY <1>1, OneMemCall
<1>3. \A o \in Observations : Alive(o)' => Alive(o)
  BY <1>1, AliveStays
<1>4. Reflecting(c)' => Reflecting(c) /\ x.new = memCall[c].new /\ x.cited = memCall[c].cited
  BY <1>2 DEF Reflecting
<1>5. \A d \in MemCallers \ {c} : Reflecting(d)' <=> Reflecting(d)
  BY <1>2 DEF Reflecting
<1>6. \A d \in MemCallers :
          /\ Reflecting(d)' =>
                 /\ Reflecting(d) /\ memCall'[d].new = memCall[d].new
                 /\ memCall'[d].cited = memCall[d].cited
          /\ HoldsNew(memCall'[d]) => HoldsNew(memCall[d]) /\ memCall'[d].id = memCall[d].id
  BY <1>2, <1>4, <1>5
<1>7. QED
  BY <1>1, <1>3, <1>6, EvidenceStays

\* What is readable was given out, and is none of the memories that are being made.
LEMMA ReadableIsKnown ==
    ASSUME MemInductive, NEW m \in Memories, Readable(m)
    PROVE  /\ m \notin fresh /\ m \notin cutOff /\ mem[m] \in Content /\ mem[m].is # "absent"
           /\ m \in Facts => mem[m].is = "active"
           /\ \A d \in MemCallers :
                  Holds(memCall[d]) /\ memCall[d].from = "model" => memCall[d].id # m
<1>1. mem[m] \in Content /\ mem[m].is # "absent" /\ m \notin cutOff
  BY DEF MemInductive, MemTyped, Readable
<1>2. QED
  BY <1>1 DEF MemInductive, FreshUnseen, FactsAreThere, NewIsOwn, Content

LEMMA ReadToPutStep ==
    ASSUME MemInductive, NEW c \in MemCallers, NEW m \in Memories, NEW do \in {"access", "update"},
           ReadToPut(c, do, m)
    PROVE  MemInductive'
<1> USE DEF fileVars, indexVars, navVars
<1>t. MemTyped /\ ListingsAreCurrent
  BY DEF MemInductive
<1> DEFINE k == IF do = "update" THEN [Copied(m) EXCEPT !.text = "updated"] ELSE Copied(m)
           x == [NoMemCall EXCEPT !.do = do, !.at = "put", !.id = m, !.from = "file", !.copy = k]
<1>1. /\ Readable(m) /\ memCall[c].at = "idle" /\ memCall' = [memCall EXCEPT ![c] = x]
      /\ UNCHANGED <<mem, cutOff, evidence, fresh, index, indexDirty, leftBehind, clash, told,
                     repeated, cached, nav>>
  BY DEF ReadToPut, Starts, MemIdle
<1>2. /\ m \notin fresh /\ m \notin cutOff /\ mem[m] \in Content /\ mem[m].is # "absent"
      /\ m \in Facts => mem[m].is = "active"
      /\ \A d \in MemCallers : Holds(memCall[d]) /\ memCall[d].from = "model" => memCall[d].id # m
  BY <1>1, ReadableIsKnown
<1>3. k \in Content /\ k.is = mem[m].is /\ k.text \in {mem[m].text, "updated"}
  BY <1>2 DEF Copied, Content
<1> HIDE DEF k
<1>4. /\ x \in MemCallRec /\ x.do = do /\ x.at = "put" /\ x.id = m /\ x.from = "file"
      /\ x.copy = k /\ x.old = NoMemory
  BY <1>3, NoCallIsOne DEF MemCallRec, NoMemCall
<1> HIDE DEF x
<1>5. MemCallFits(x) /\ ~HoldsNew(x)
  BY <1>2, <1>3, <1>4 DEF MemCallFits, Holds, HoldsNew
<1>6. EvidenceFits'
  BY <1>1, <1>4, <1>5, EvidenceOfStep
<1>7. ListingsAreCurrent'
  BY <1>t, <1>1 DEF ListingsAreCurrent
<1>8. QED
  BY <1>t, <1>1, <1>2, <1>3, <1>4, <1>5, <1>6, <1>7, MemCallStep DEF MemTyped

LEMMA StoreFactStep ==
    ASSUME MemInductive, NEW c \in MemCallers, NEW m \in Memories, NEW do \in {"store", "add"},
           StoreFact(c, do, m)
    PROVE  MemInductive'
<1> USE DEF fileVars, indexVars, navVars
<1>t. MemTyped /\ ListingsAreCurrent /\ FreshUnseen
  BY DEF MemInductive
<1> DEFINE x == [NoMemCall EXCEPT !.do = do, !.at = "put", !.id = m, !.copy = Active]
<1>1. /\ m \in fresh /\ m \in Facts /\ fresh' = fresh \ {m}
      /\ memCall[c].at = "idle" /\ memCall' = [memCall EXCEPT ![c] = x]
      /\ UNCHANGED <<mem, cutOff, evidence, index, indexDirty, leftBehind, clash, told, repeated,
                     cached, nav>>
  BY DEF StoreFact, Starts, MemIdle
<1>2. Active \in Content /\ Active.is = "active"
  BY DEF Active, Content
<1>3. /\ x \in MemCallRec /\ x.do = do /\ x.at = "put" /\ x.id = m /\ x.from = "model"
      /\ x.copy = Active /\ x.old = NoMemory
  BY <1>2, NoCallIsOne DEF MemCallRec, NoMemCall
<1> HIDE DEF x
<1>4. m \notin Observations
  BY <1>1, MemoryFilesAssumption
<1>5. MemCallFits(x) /\ ~HoldsNew(x)
  BY <1>1, <1>2, <1>3, <1>4 DEF MemCallFits, Holds, HoldsNew
<1>6. EvidenceFits'
  BY <1>1, <1>3, <1>5, EvidenceOfStep
<1>7. ListingsAreCurrent'
  BY <1>t, <1>1 DEF ListingsAreCurrent
<1>8. mem[m].is = "absent" /\ \A d \in MemCallers : memCall[d].id # m
  BY <1>t, <1>1 DEF FreshUnseen
<1>9. QED
  BY <1>t, <1>1, <1>3, <1>5, <1>6, <1>7, <1>8, MemCallStep DEF MemTyped

LEMMA ReplaceReadStep ==
    ASSUME MemInductive, NEW c \in MemCallers, ReadToReplace(c)
    PROVE  MemInductive'
<1> USE DEF fileVars, indexVars, navVars
<1>t. /\ MemTyped /\ ListingsAreCurrent /\ memCall[c] \in MemCallRec /\ MemCallFits(memCall[c])
      /\ memCall[c].do \in {"none", "access", "update", "store", "add", "reflect", "auto"}
  BY DEF MemInductive, MemTyped, MemCallRec, CallsFit
<1>c. CallsFit
  BY DEF MemInductive
<1> DEFINE m == memCall[c].old
           k == [Copied(m) EXCEPT !.is = "stale"]
           x == [memCall[c] EXCEPT !.at = "put", !.id = m, !.from = "file", !.old = NoMemory,
                                   !.copy = k]
<1>1. /\ memCall[c].at = "replace"
      /\ UNCHANGED <<mem, cutOff, evidence, fresh, index, indexDirty, leftBehind, clash, told,
                     repeated, cached, nav>>
      /\ memCall' = [memCall EXCEPT ![c] = IF Readable(m) THEN x ELSE RestOfReply(memCall[c])]
  BY <1>t DEF ReadToReplace, MemAt, MemTyped
<1>2. /\ m \in Observations /\ m \in Memories /\ m \notin Facts
      /\ memCall[c].do \in {"reflect", "auto"} /\ Reflecting(c)
  BY <1>t, <1>1, MemoryFilesAssumption DEF MemCallFits, Memories, Reflecting
<1>3. ListingsAreCurrent'
  BY <1>t, <1>1 DEF ListingsAreCurrent
<1>4. CASE Readable(m)
  <2>1. /\ m \notin fresh /\ m \notin cutOff /\ mem[m] \in Content /\ mem[m].is # "absent"
        /\ \A d \in MemCallers : Holds(memCall[d]) /\ memCall[d].from = "model" => memCall[d].id # m
    BY <1>2, <1>4, ReadableIsKnown
  <2>2. k \in Content /\ k.is = "stale" /\ k.text = mem[m].text
    BY <2>1 DEF Copied, Content
  <2> HIDE DEF k
  <2>3. /\ x \in MemCallRec /\ x.do = memCall[c].do /\ x.at = "put" /\ x.id = m /\ x.from = "file"
        /\ x.copy = k /\ x.old = NoMemory /\ x.new = memCall[c].new /\ x.cited = memCall[c].cited
    BY <1>t, <1>2, <2>2 DEF MemCallRec
  <2> HIDE DEF x
  <2>4. MemCallFits(x) /\ ~HoldsNew(x)
    BY <1>2, <2>1, <2>2, <2>3 DEF MemCallFits, Holds, HoldsNew
  <2>5. memCall' = [memCall EXCEPT ![c] = x]
    BY <1>1, <1>4
  <2>6. EvidenceFits'
    BY <1>1, <1>2, <2>3, <2>4, <2>5, EvidenceOfStep
  <2> HIDE DEF m
  <2>7. /\ x.at # "write" /\ x.id \notin fresh' /\ fresh' \subseteq fresh
        /\ memCall[c].at # "write"
        /\ \A d \in MemCallers \ {c} :
               Holds(memCall[d]) /\ memCall[d].from = "model" => memCall[d].id # x.id
    BY <1>1, <2>1, <2>3
  <2>8. /\ mem[x.id].is # "absent" /\ x.copy.is \in {mem[x.id].is, "stale"}
        /\ x.copy.text \in {mem[x.id].text, "updated"} /\ x.id \notin cutOff
    BY <2>1, <2>2, <2>3
  <2>9. /\ told' \subseteq Facts /\ \A n \in told' : n \in told \/ Readable(n)
        /\ cached' \in Listing /\ nav' \in Listing /\ repeated' \subseteq Facts
        /\ evidence' \in [Observations -> SUBSET Facts] /\ clash' \in BOOLEAN
    BY <1>t, <1>1 DEF MemTyped
  <2>10. UNCHANGED <<mem, cutOff, index, indexDirty, leftBehind>> /\ x.from # "model"
    BY <1>1, <2>3
  <2>11. QED
    BY <1>3, <2>3, <2>4, <2>5, <2>6, <2>7, <2>8, <2>9, <2>10, MemCallStep
<1>5. CASE ~Readable(m)
  <2> DEFINE y == RestOfReply(memCall[c])
  <2>1. /\ y \in MemCallRec /\ MemCallFits(y) /\ y.at = "ask" /\ y.id = NoMemory
        /\ y.from = "model" /\ ~HoldsNew(y) /\ y.new = memCall[c].new /\ y.cited = memCall[c].cited
    BY <1>t, <1>2, RestFits
  <2>2. memCall' = [memCall EXCEPT ![c] = y]
    BY <1>1, <1>5
  <2> HIDE DEF y
  <2>3. EvidenceFits'
    BY <1>1, <1>2, <2>1, <2>2, EvidenceOfStep
  <2>4. NoMemory \notin Memories
    BY MemoryFilesAssumption DEF Memories
  <2>5. ~Holds(y) /\ y.id \notin fresh'
    BY <1>t, <1>1, <2>1, <2>4 DEF Holds, MemTyped
  <2>6. \A d \in MemCallers \ {c} :
            Holds(memCall[d]) /\ memCall[d].from = "model" => memCall[d].id # y.id
    BY <1>c, <2>1, <2>4 DEF CallsFit, MemCallFits
  <2>7. QED
    BY <1>t, <1>1, <1>3, <2>1, <2>2, <2>3, <2>5, <2>6, MemCallStep DEF MemTyped
<1>6. QED
  BY <1>4, <1>5

\* A reflection lists what is active: what it finds uncovered is evidence of nothing alive.
LEMMA ListStep ==
    ASSUME MemInductive, NEW c \in MemCallers, ListMemories(c)
    PROVE  MemInductive'
<1> USE DEF fileVars, indexVars, navVars
<1>t. /\ MemTyped /\ ListingsAreCurrent /\ memCall[c] \in MemCallRec /\ MemCallFits(memCall[c])
      /\ memCall[c].do \in {"none", "access", "update", "store", "add", "reflect", "auto"}
      /\ EvidenceFits /\ FreshUnseen /\ CallsFit /\ NewIsOwn
  BY DEF MemInductive, MemTyped, MemCallRec, CallsFit
<1> DEFINE facts == ActiveIn(Facts)
           obs == ActiveIn(Observations)
           new == Uncovered(facts, obs)
           x == [memCall[c] EXCEPT !.at = "ask", !.new = new, !.olds = obs]
           met == \E other \in MemCallers \ {c} :
                      \/ Reflecting(other)
                      \/ MemAt(other, "write") /\ memCall[other].id \in Observations
           stops == Cardinality(facts) < 3 \/ Cardinality(new) < 2
<1>1. /\ memCall[c].at = "list"
      /\ UNCHANGED <<mem, cutOff, evidence, fresh, index, indexDirty, leftBehind, told, repeated,
                     cached, nav>>
      /\ memCall' = [memCall EXCEPT ![c] = IF stops THEN EndOfReflection(memCall[c].do) ELSE x]
      /\ clash' = (clash \/ met)
  BY <1>t DEF ListMemories, MemAt, MemTyped
<1>2. obs \subseteq Observations /\ new \subseteq Facts
  BY DEF ActiveIn, Uncovered
<1>3. /\ x \in MemCallRec /\ x.do = memCall[c].do /\ x.at = "ask" /\ x.id = memCall[c].id
      /\ x.from = memCall[c].from /\ x.new = new /\ x.old = memCall[c].old
  <2> HIDE DEF obs, new
  <2>1. QED
    BY <1>t, <1>2 DEF MemCallRec
<1>4. ListingsAreCurrent' /\ clash' \in BOOLEAN
  BY <1>t, <1>1 DEF ListingsAreCurrent, MemTyped
<1>5. memCall[c].do \in {"reflect", "auto"} /\ memCall[c].from = "model"
  BY <1>t, <1>1 DEF MemCallFits
<1> HIDE DEF x, stops
<1>6. CASE stops
  <2> DEFINE y == EndOfReflection(memCall[c].do)
  <2>1. /\ y \in MemCallRec /\ MemCallFits(y) /\ y.at \in {"idle", "forget"} /\ y.id = NoMemory
        /\ y.from = "model"
    BY <1>t, EndsFit
  <2>2. memCall' = [memCall EXCEPT ![c] = y]
    BY <1>1, <1>6
  <2> HIDE DEF y
  <2>3. ~Holds(y) /\ ~HoldsNew(y)
    BY <2>1 DEF Holds, HoldsNew
  <2>4. EvidenceFits'
    BY <1>1, <2>1, <2>2, <2>3, EvidenceOfStep
  <2>5. NoMemory \notin Memories
    BY MemoryFilesAssumption DEF Memories
  <2>6. \A d \in MemCallers : Holds(memCall[d]) => memCall[d].id # NoMemory
    BY <1>t, <2>5 DEF CallsFit, MemCallFits
  <2>7. y.id \notin fresh
    BY <1>t, <2>1, <2>5 DEF MemTyped
  <2>8. QED
    BY <1>t, <1>1, <1>4, <2>1, <2>2, <2>3, <2>4, <2>6, <2>7, MemCallStep DEF MemTyped
<1>7. CASE ~stops
  <2>1. memCall' = [memCall EXCEPT ![c] = x]
    BY <1>1, <1>7
  <2>2. MemCallFits(x) /\ ~Holds(x) /\ ~HoldsNew(x)
    BY <1>t, <1>1, <1>3, <1>5 DEF MemCallFits, Holds, HoldsNew
  <2>3. memCall'[c] = x /\ \A d \in MemCallers \ {c} : memCall'[d] = memCall[d]
    BY <1>t, <1>3, <2>1, OneMemCall
  <2>4. EvidenceFits'
    <3> SUFFICES ASSUME ~clash'
                 PROVE  /\ \A o, p \in AliveObs' :
                               o # p => evidence'[o] \cap evidence'[p] \subseteq repeated'
                        /\ \A d \in MemCallers : Reflecting(d)' =>
                               /\ ~HoldsNew(memCall'[d])
                               /\ \A o \in AliveObs' : memCall'[d].new \cap evidence'[o] = {}
                        /\ \A d, e \in MemCallers : Reflecting(d)' /\ Reflecting(e)' => d = e
      BY DEF EvidenceFits
    <3>1. ~clash /\ ~met
      BY <1>1
    <3>2. AliveObs' = AliveObs
      BY <1>t, <1>1, <1>3, <2>1, AliveStays DEF AliveObs
    <3>3. \A d \in MemCallers \ {c} : ~Reflecting(d)'
      BY <2>3, <3>1 DEF Reflecting
    <3>4. \A o \in AliveObs : o \in obs
      BY <1>t, <1>1, <3>1 DEF AliveObs, Alive, ActiveIn, Readable, MemAt
    <3>5. \A o \in AliveObs : new \cap evidence[o] = {}
      BY <3>4 DEF Uncovered, Covered
    <3>6. \A o \in AliveObs' : memCall'[c].new \cap evidence'[o] = {}
      BY <1>1, <1>3, <2>3, <3>2, <3>5
    <3>7. \A o, p \in AliveObs' : o # p => evidence'[o] \cap evidence'[p] \subseteq repeated'
      BY <1>t, <1>1, <3>1, <3>2 DEF EvidenceFits
    <3>8. QED
      BY <2>2, <2>3, <3>3, <3>6, <3>7
  <2>5. x.id \notin fresh
    BY <1>t, <1>3 DEF FreshUnseen
  <2>6. \A d \in MemCallers \ {c} :
            Holds(memCall[d]) /\ memCall[d].from = "model" => memCall[d].id # x.id
    BY <1>t, <1>3 DEF NewIsOwn
  <2>7. QED
    BY <1>t, <1>1, <1>3, <1>4, <1>5, <2>1, <2>2, <2>4, <2>5, <2>6, MemCallStep DEF MemTyped
<1>8. QED
  BY <1>6, <1>7

LEMMA CondenseStep ==
    ASSUME MemInductive, NEW c \in MemCallers, NEW o \in Observations, NEW facts \in SUBSET Facts,
           NEW old \in Memories \cup {NoMemory}, ModelCondenses(c, o, facts, old)
    PROVE  MemInductive'
<1> USE DEF fileVars, indexVars, navVars
<1>t. /\ MemTyped /\ ListingsAreCurrent /\ memCall[c] \in MemCallRec /\ MemCallFits(memCall[c])
      /\ EvidenceFits /\ FreshUnseen /\ CallsFit /\ NewIsOwn
  BY DEF MemInductive, MemTyped, CallsFit
<1> DEFINE cited == memCall[c].cited \cup facts
           x == [memCall[c] EXCEPT !.at = "put", !.id = o, !.copy = Active, !.cited = cited,
                                   !.old = old]
<1>1. /\ memCall[c].at = "ask" /\ o \in fresh /\ fresh' = fresh \ {o}
      /\ facts \subseteq memCall[c].new /\ old \in memCall[c].olds \cup {NoMemory}
      /\ evidence' = [evidence EXCEPT ![o] = facts]
      /\ repeated' = repeated \cup (facts \cap memCall[c].cited)
      /\ UNCHANGED <<mem, cutOff, index, indexDirty, leftBehind, told, cached, nav, clash>>
  BY DEF ModelCondenses, MemAt
<1>w. memCall' = [memCall EXCEPT ![c] = x]
  BY Zenon DEF ModelCondenses
<1>2. old \in Observations \cup {NoMemory}
  BY <1>t, <1>1 DEF MemCallRec
<1>3. Active \in Content /\ Active.is = "active" /\ o \in Memories /\ o \notin Facts
  BY MemoryFilesAssumption DEF Active, Content, Memories
<1>4. /\ x \in MemCallRec /\ x.do = memCall[c].do /\ x.at = "put" /\ x.id = o
      /\ x.from = memCall[c].from /\ x.copy = Active /\ x.new = memCall[c].new /\ x.cited = cited
  <2>1. cited \in SUBSET Facts
    BY <1>t DEF MemCallRec
  <2> HIDE DEF cited
  <2>2. QED
    BY <1>t, <1>2, <1>3, <2>1 DEF MemCallRec
<1> HIDE DEF x
<1>5. memCall[c].do \in {"reflect", "auto"} /\ memCall[c].from = "model"
  BY <1>t, <1>1 DEF MemCallFits
<1>6. MemCallFits(x) /\ HoldsNew(x)
  BY <1>3, <1>4, <1>5 DEF MemCallFits, Holds, HoldsNew
<1>7. /\ evidence' \in [Observations -> SUBSET Facts] /\ evidence'[o] = facts
      /\ \A p \in Observations \ {o} : evidence'[p] = evidence[p]
  BY <1>t, <1>1 DEF MemTyped
<1>8. mem[o].is = "absent" /\ \A d \in MemCallers : memCall[d].id # o
  BY <1>t, <1>1 DEF FreshUnseen
<1>9. memCall'[c] = x /\ \A d \in MemCallers \ {c} : memCall'[d] = memCall[d]
  BY <1>t, <1>w, <1>4, OneMemCall
<1>10. EvidenceFits'
  <2> SUFFICES ASSUME ~clash'
               PROVE  /\ \A q, p \in AliveObs' :
                             q # p => evidence'[q] \cap evidence'[p] \subseteq repeated'
                      /\ \A d \in MemCallers : Reflecting(d)' =>
                             /\ d = c /\ evidence'[memCall'[d].id] \subseteq memCall'[d].cited
                             /\ \A p \in AliveObs' :
                                    /\ memCall'[d].new \cap evidence'[p] \subseteq memCall'[d].cited
                                    /\ evidence'[memCall'[d].id] \cap evidence'[p] \subseteq repeated'
    BY DEF EvidenceFits
  <2>1. ~clash
    BY <1>1
  <2>2. AliveObs' = AliveObs
    BY <1>t, <1>1, <1>w, <1>4, AliveStays DEF AliveObs
  <2>3. \A p \in AliveObs : p \in Observations \ {o} /\ evidence'[p] = evidence[p]
    BY <1>7, <1>8 DEF AliveObs, Alive
  <2>4. Reflecting(c) /\ \A d \in MemCallers \ {c} : ~Reflecting(d)
    BY <1>t, <1>1, <1>5, <2>1 DEF EvidenceFits, Reflecting
  <2>5. \A d \in MemCallers \ {c} : ~Reflecting(d)'
    BY <1>9, <2>4 DEF Reflecting
  <2>6. \A p \in AliveObs : memCall[c].new \cap evidence[p] \subseteq memCall[c].cited
    BY <1>t, <2>1, <2>4 DEF EvidenceFits
  <2>7. \A p \in AliveObs' : memCall'[c].new \cap evidence'[p] \subseteq memCall'[c].cited
    BY <1>4, <1>9, <2>2, <2>3, <2>6
  <2>8. \A p \in AliveObs' : evidence'[memCall'[c].id] \cap evidence'[p] \subseteq repeated'
    BY <1>1, <1>4, <1>7, <1>9, <2>2, <2>3, <2>6
  <2>9. \A q, p \in AliveObs' : q # p => evidence'[q] \cap evidence'[p] \subseteq repeated'
    BY <1>t, <1>1, <2>1, <2>2, <2>3 DEF EvidenceFits
  <2>10. evidence'[memCall'[c].id] \subseteq memCall'[c].cited
    BY <1>4, <1>7, <1>9
  <2>11. QED
    BY <2>5, <2>7, <2>8, <2>9, <2>10
<1>11. ListingsAreCurrent'
  BY <1>t, <1>1 DEF ListingsAreCurrent
<1>12. repeated' \subseteq Facts
  BY <1>t, <1>1 DEF MemTyped
<1>13. QED
  BY <1>t, <1>w, <1>1, <1>4, <1>5, <1>6, <1>7, <1>8, <1>10, <1>11, <1>12, MemCallStep DEF MemTyped

-----------------------------------------------------------------------------
\* A write begins: the file is cut off, and only its own call lives by it.
LEMMA TruncateStep ==
    ASSUME MemInductive, NEW c \in MemCallers, TruncateMemory(c)
    PROVE  MemInductive'
<1> USE DEF fileVars, indexVars, navVars
<1>t. /\ MemTyped /\ CallsFit /\ FreshUnseen /\ NewIsOwn /\ CopiesAreCurrent /\ FactsAreThere
      /\ ListingsAreCurrent /\ IndexIsCurrent /\ EvidenceFits
      /\ memCall[c] \in MemCallRec /\ MemCallFits(memCall[c])
  BY DEF MemInductive, MemTyped, CallsFit
<1> DEFINE x == [memCall[c] EXCEPT !.at = "write"]
<1>1. /\ memCall[c].at = "put" /\ MemGoto(c, "write") /\ cutOff' = cutOff \cup {memCall[c].id}
      /\ UNCHANGED <<mem, evidence, fresh, index, indexDirty, leftBehind, clash, told, repeated,
                     cached, nav>>
      /\ \A d \in MemCallers : memCall[d].at # "write"
  BY DEF TruncateMemory, MemAt, Unlocked
<1>2. memCall' = [memCall EXCEPT ![c] = x]
  BY <1>t, <1>1, MemGoes
<1>3. /\ x \in MemCallRec /\ x.at = "write" /\ x.do = memCall[c].do /\ x.id = memCall[c].id
      /\ x.copy = memCall[c].copy /\ x.from = memCall[c].from /\ x.old = memCall[c].old
      /\ x.new = memCall[c].new /\ x.cited = memCall[c].cited
  BY <1>t, CallMovesTo
<1> HIDE DEF x
<1>4. MemCallFits(x) /\ x.id \in Memories
  BY <1>t, <1>1, <1>3 DEF MemCallFits, Holds, HoldsNew
<1>5. /\ memCall' \in [MemCallers -> MemCallRec] /\ memCall'[c] = x
      /\ \A d \in MemCallers \ {c} : memCall'[d] = memCall[d]
  BY <1>t, <1>2, <1>3, OneMemCall
<1>6. /\ \A d \in MemCallers : MemAt(d, "write")' <=> d = c
      /\ \A m \in Memories : BeingWritten(m)' <=> m = x.id
      /\ \A m \in Memories : ~BeingWritten(m)
  BY <1>1, <1>3, <1>5 DEF MemAt, BeingWritten
<1>7. MemTyped'
  BY <1>t, <1>1, <1>3, <1>4, <1>5 DEF MemTyped
<1>8. CallsFit'
  BY <1>t, <1>4, <1>5 DEF CallsFit
<1>9. FreshUnseen'
  BY <1>t, <1>1, <1>3, <1>5 DEF FreshUnseen
<1>10. NewIsOwn'
  <2>1. \A d \in MemCallers : /\ memCall'[d].id = memCall[d].id /\ memCall'[d].from = memCall[d].from
                              /\ Holds(memCall'[d]) => Holds(memCall[d])
    BY <1>1, <1>3, <1>5 DEF Holds
  <2>2. QED
    BY <1>t, <1>1, <2>1 DEF NewIsOwn
<1>11. OneWrites'
  BY <1>6 DEF OneWrites
<1>12. CopiesAreCurrent'
  <2> SUFFICES ASSUME NEW d \in MemCallers, memCall'[d].from = "file"
               PROVE  /\ mem'[memCall'[d].id].is # "absent"
                      /\ memCall'[d].copy.is \in {mem'[memCall'[d].id].is, "stale"}
                      /\ memCall'[d].copy.text \in {mem'[memCall'[d].id].text, "updated"}
                      /\ memCall'[d].id \in cutOff' => BeingWritten(memCall[d].id)'
    <3>1. \A d \in MemCallers : memCall'[d].id = memCall[d].id
      BY <1>3, <1>5
    <3>2. QED
      BY <3>1 DEF CopiesAreCurrent, BeingWritten, MemAt
  <2>1. /\ memCall'[d].id = memCall[d].id /\ memCall'[d].copy = memCall[d].copy
        /\ memCall[d].from = "file"
    BY <1>3, <1>5
  <2>2. memCall[d].id \in Memories
    BY <1>t, <2>1 DEF CallsFit, MemCallFits
  <2>3. QED
    BY <1>t, <1>1, <1>3, <1>6, <2>1, <2>2 DEF CopiesAreCurrent
<1>13. FactsAreThere'
  <2> SUFFICES ASSUME NEW m \in Facts
               PROVE  /\ mem'[m].is # "stale"
                      /\ m \in told' => mem'[m].is = "active" /\ (m \in cutOff' => BeingWritten(m)')
    BY DEF FactsAreThere
  <2>1. m \in Memories
    BY DEF Memories
  <2>2. QED
    BY <1>t, <1>1, <1>3, <1>6, <2>1 DEF FactsAreThere
<1>14. ListingsAreCurrent' /\ IndexIsCurrent'
  BY <1>t, <1>1 DEF ListingsAreCurrent, IndexIsCurrent
<1>15. EvidenceFits'
  <2>1. ASSUME NEW o \in Observations, Alive(o)' PROVE Alive(o)
    <3>1. mem[o].is = "active" /\ o \in Memories
      BY <1>1, <2>1 DEF Alive, Memories
    <3>2. CASE o = x.id
      <4>1. o \in cutOff'
        BY <1>1, <1>3, <3>2
      <4>2. memCall[c].from = "file"
        BY <1>3, <1>5, <1>6, <2>1, <4>1 DEF Alive
      <4>3. o \notin cutOff
        BY <1>t, <1>3, <1>6, <3>1, <3>2, <4>2 DEF CopiesAreCurrent
      <4>4. QED
        BY <3>1, <4>3 DEF Alive
    <3>3. CASE o # x.id
      <4>1. o \notin cutOff'
        BY <1>5, <1>6, <2>1, <3>3 DEF Alive
      <4>2. QED
        BY <1>1, <3>1, <4>1 DEF Alive
    <3>4. QED
      BY <3>2, <3>3
  <2>2. \A d \in MemCallers :
            /\ Reflecting(d)' =>
                   /\ Reflecting(d) /\ memCall'[d].new = memCall[d].new
                   /\ memCall'[d].cited = memCall[d].cited
            /\ HoldsNew(memCall'[d]) => HoldsNew(memCall[d]) /\ memCall'[d].id = memCall[d].id
    <3>1. (Reflecting(c)' => Reflecting(c)) /\ (HoldsNew(x) => HoldsNew(memCall[c]))
      BY <1>1, <1>3, <1>5 DEF HoldsNew, Holds, Reflecting
    <3>2. \A d \in MemCallers \ {c} : memCall'[d] = memCall[d] /\ (Reflecting(d)' <=> Reflecting(d))
      BY <1>5 DEF Reflecting
    <3>3. QED
      BY <1>3, <1>5, <3>1, <3>2
  <2>3. QED
    BY <1>t, <1>1, <2>1, <2>2, EvidenceStays
<1>16. QED
  BY <1>7, <1>8, <1>9, <1>10, <1>11, <1>12, <1>13, <1>14, <1>15 DEF MemInductive

\* What is left of the other calls when a memory changes.
LEMMA OthersOvertaken ==
    ASSUME MemTyped, CallsFit, NEW c \in MemCallers, NEW m \in Memories, NEW x \in MemCallRec,
           memCall' = [Overtaken(c, m) EXCEPT ![c] = x]
    PROVE  /\ memCall' \in [MemCallers -> MemCallRec] /\ memCall'[c] = x
           /\ \A d \in MemCallers \ {c} :
                  /\ memCall'[d].at = memCall[d].at /\ memCall'[d].do = memCall[d].do
                  /\ memCall'[d].id = memCall[d].id /\ memCall'[d].copy = memCall[d].copy
                  /\ memCall'[d].new = memCall[d].new /\ memCall'[d].cited = memCall[d].cited
                  /\ memCall'[d].old = memCall[d].old
                  /\ memCall'[d].from = "file" => memCall[d].from = "file" /\ memCall[d].id # m
                  /\ memCall'[d].from = "model" <=> memCall[d].from = "model"
                  /\ MemCallFits(memCall'[d])
<1>1. \A d \in MemCallers : memCall[d] \in MemCallRec /\ MemCallFits(memCall[d])
  BY DEF MemTyped, CallsFit
<1>2. ASSUME NEW d \in MemCallers, NEW y, y = [memCall[d] EXCEPT !.from = "past"]
      PROVE  /\ y \in MemCallRec /\ y.at = memCall[d].at /\ y.do = memCall[d].do
             /\ y.id = memCall[d].id /\ y.copy = memCall[d].copy /\ y.new = memCall[d].new
             /\ y.cited = memCall[d].cited /\ y.old = memCall[d].old /\ y.from = "past"
  BY <1>1, <1>2 DEF MemCallRec
<1>3. /\ memCall'[c] = x
      /\ \A d \in MemCallers \ {c} :
             memCall'[d] = IF memCall[d].id = m /\ memCall[d].from = "file"
                           THEN [memCall[d] EXCEPT !.from = "past"] ELSE memCall[d]
      /\ DOMAIN memCall' = MemCallers /\ memCall' = [d \in MemCallers |-> memCall'[d]]
  BY DEF Overtaken
<1>4. ASSUME NEW d \in MemCallers \ {c}
      PROVE  /\ memCall'[d] \in MemCallRec
             /\ memCall'[d].at = memCall[d].at /\ memCall'[d].do = memCall[d].do
             /\ memCall'[d].id = memCall[d].id /\ memCall'[d].copy = memCall[d].copy
             /\ memCall'[d].new = memCall[d].new /\ memCall'[d].cited = memCall[d].cited
             /\ memCall'[d].old = memCall[d].old
             /\ memCall'[d].from = "file" => memCall[d].from = "file" /\ memCall[d].id # m
             /\ memCall'[d].from = "model" <=> memCall[d].from = "model"
             /\ MemCallFits(memCall'[d])
  <2>1. CASE memCall[d].id = m /\ memCall[d].from = "file"
    <3>1. memCall'[d] = [memCall[d] EXCEPT !.from = "past"]
      BY <1>3, <2>1
    <3>2. PICK y : y = memCall'[d]
      OBVIOUS
    <3>3. /\ y \in MemCallRec /\ y.at = memCall[d].at /\ y.do = memCall[d].do
          /\ y.id = memCall[d].id /\ y.copy = memCall[d].copy /\ y.new = memCall[d].new
          /\ y.cited = memCall[d].cited /\ y.old = memCall[d].old /\ y.from = "past"
      BY <1>2, <3>1, <3>2
    <3>4. MemCallFits(y)
      BY <1>1, <2>1, <3>3 DEF MemCallFits, Holds, HoldsNew
    <3>5. QED
      BY <2>1, <3>2, <3>3, <3>4
  <2>2. CASE ~(memCall[d].id = m /\ memCall[d].from = "file")
    BY <1>1, <1>3, <2>2
  <2>3. QED
    BY <2>1, <2>2
<1>5. memCall' \in [MemCallers -> MemCallRec]
  BY <1>3, <1>4
<1>6. QED
  BY <1>3, <1>4, <1>5

\* A memory changes, or is given up damaged, by the one call that may.
LEMMA FileStep ==
    ASSUME MemInductive, NEW c \in MemCallers, NEW m \in Memories, m \notin fresh,
           NEW x \in MemCallRec, MemCallFits(x), ~Holds(x),
           x.id \in {NoMemory, memCall[c].id},
           memCall' = [Overtaken(c, m) EXCEPT ![c] = x],
           \A d \in MemCallers : memCall[d].at = "write" => d = c /\ memCall[c].id = m,
           UNCHANGED <<fresh, evidence, index, leftBehind, repeated>>,
           told' \subseteq Facts, told' \subseteq told \cup {m},
           cached' \in Listing, nav' \in Listing, ListingsAreCurrent',
           mem' \in [Memories -> Content], cutOff' \subseteq Memories,
           \A n \in Memories \ {m} : mem'[n] = mem[n] /\ (n \in cutOff' <=> n \in cutOff),
           m \in Facts => mem'[m].is # "stale",
           m \in told' => mem'[m].is = "active" /\ m \notin cutOff',
           \A d \in MemCallers \ {c} :
               Holds(memCall[d]) /\ memCall[d].from = "model" /\ memCall[d].id = m =>
                   mem'[m].is = "absent",
           indexDirty' \in BOOLEAN, IndexIsCurrent', clash' \in BOOLEAN, EvidenceFits'
    PROVE  MemInductive'
<1>t. /\ MemTyped /\ CallsFit /\ FreshUnseen /\ NewIsOwn /\ CopiesAreCurrent /\ FactsAreThere
      /\ ListingsAreCurrent
  BY DEF MemInductive
<1>1. /\ memCall' \in [MemCallers -> MemCallRec] /\ memCall'[c] = x
      /\ \A d \in MemCallers \ {c} :
             /\ memCall'[d].at = memCall[d].at /\ memCall'[d].do = memCall[d].do
             /\ memCall'[d].id = memCall[d].id /\ memCall'[d].copy = memCall[d].copy
             /\ memCall'[d].new = memCall[d].new /\ memCall'[d].cited = memCall[d].cited
             /\ memCall'[d].old = memCall[d].old
             /\ memCall'[d].from = "file" => memCall[d].from = "file" /\ memCall[d].id # m
             /\ memCall'[d].from = "model" <=> memCall[d].from = "model"
             /\ MemCallFits(memCall'[d])
  BY <1>t, OthersOvertaken
<1>2. \A n \in Memories \ {m} : ~BeingWritten(n)
  BY DEF BeingWritten, MemAt
<1>3. NoMemory \notin Memories
  BY MemoryFilesAssumption DEF Memories
<1>4. MemTyped'
  BY <1>t, <1>1 DEF MemTyped
<1>5. CallsFit'
  BY <1>1 DEF CallsFit
<1>6. FreshUnseen'
  <2> SUFFICES ASSUME NEW n \in fresh
               PROVE  mem'[n].is = "absent" /\ \A d \in MemCallers : memCall'[d].id # n
    BY DEF FreshUnseen
  <2>1. n \in Memories \ {m} /\ mem[n].is = "absent" /\ \A d \in MemCallers : memCall[d].id # n
    BY <1>t DEF FreshUnseen, MemTyped
  <2>2. QED
    BY <1>1, <1>3, <2>1
<1>7. NewIsOwn'
  <2> SUFFICES ASSUME NEW d \in MemCallers, Holds(memCall'[d]), memCall'[d].from = "model"
               PROVE  /\ mem'[memCall'[d].id].is = "absent"
                      /\ \A e \in MemCallers \ {d} : memCall'[e].id # memCall'[d].id
    BY DEF NewIsOwn
  <2>1. d # c /\ Holds(memCall[d]) /\ memCall[d].from = "model" /\ memCall'[d].id = memCall[d].id
    BY <1>1 DEF Holds
  <2>2. memCall[d].id \in Memories
    BY <1>t, <2>1 DEF CallsFit, MemCallFits
  <2>3. /\ mem[memCall[d].id].is = "absent"
        /\ \A e \in MemCallers \ {d} : memCall[e].id # memCall[d].id
    BY <1>t, <2>1 DEF NewIsOwn
  <2>4. mem'[memCall[d].id].is = "absent"
    BY <2>1, <2>2, <2>3
  <2>5. \A e \in MemCallers \ {d} : memCall'[e].id # memCall[d].id
    BY <1>1, <1>3, <2>1, <2>2, <2>3
  <2>6. QED
    BY <2>1, <2>4, <2>5
<1>8. OneWrites'
  <2>1. \A d \in MemCallers : memCall'[d].at # "write"
    BY <1>1 DEF Holds
  <2>2. QED
    BY <2>1 DEF OneWrites, MemAt
<1>9. CopiesAreCurrent'
  <2>1. \A d \in MemCallers : memCall'[d].from = "file" =>
            /\ d # c /\ memCall[d].from = "file" /\ memCall[d].id # m
            /\ memCall'[d].id = memCall[d].id /\ memCall'[d].copy = memCall[d].copy
    BY <1>1 DEF MemCallFits
  <2>2. \A d \in MemCallers : memCall'[d].from = "file" => memCall[d].id \in Memories \ {m}
    BY <1>t, <2>1 DEF CallsFit, MemCallFits
  <2>3. \A d \in MemCallers : memCall'[d].from = "file" =>
            /\ mem'[memCall'[d].id].is # "absent"
            /\ memCall'[d].copy.is \in {mem'[memCall'[d].id].is, "stale"}
            /\ memCall'[d].copy.text \in {mem'[memCall'[d].id].text, "updated"}
            /\ memCall'[d].id \notin cutOff'
    BY <1>t, <1>2, <2>1, <2>2 DEF CopiesAreCurrent
  <2>4. QED
    BY <2>3 DEF CopiesAreCurrent
<1>10. FactsAreThere'
  <2> SUFFICES ASSUME NEW f \in Facts
               PROVE  /\ mem'[f].is # "stale"
                      /\ f \in told' => mem'[f].is = "active" /\ f \notin cutOff'
    BY DEF FactsAreThere
  <2>1. f \in Memories
    BY DEF Memories
  <2>2. QED
    BY <1>t, <1>2, <2>1 DEF FactsAreThere
<1>11. QED
  BY <1>4, <1>5, <1>6, <1>7, <1>8, <1>9, <1>10 DEF MemInductive

LEMMA WriteStep ==
    ASSUME MemInductive, NEW c \in MemCallers, WriteMemory(c)
    PROVE  MemInductive'
<1> USE DEF navVars
<1>t. /\ MemTyped /\ CallsFit /\ FreshUnseen /\ NewIsOwn /\ OneWrites /\ CopiesAreCurrent
      /\ EvidenceFits /\ ListingsAreCurrent
      /\ memCall[c] \in MemCallRec /\ MemCallFits(memCall[c])
  BY DEF MemInductive, MemTyped, CallsFit
<1>m. PICK m \in Memories \cup {NoMemory} : m = memCall[c].id
  BY <1>t DEF MemCallRec
<1>x. PICK x : x = AfterMemWrite(memCall[c])
  OBVIOUS
<1>1. /\ memCall[c].at = "write" /\ mem' = [mem EXCEPT ![m] = memCall[c].copy]
      /\ cutOff' = cutOff \ {m} /\ memCall' = [Overtaken(c, m) EXCEPT ![c] = x]
      /\ clash' = (clash \/ (memCall[c].from = "past" /\ m \in Observations))
      /\ indexDirty' = TRUE
      /\ UNCHANGED <<evidence, fresh, index, leftBehind, repeated>>
      /\ IF memCall[c].do = "add"
         THEN told' = told \cup {m} /\ cached' = Misses(cached, m) /\ nav' = Misses(nav, m)
         ELSE UNCHANGED <<told, cached, nav>>
  BY <1>m, <1>x DEF WriteMemory, MemAt
<1>2. /\ m \in Memories /\ memCall[c].copy \in Content
      /\ memCall[c].do \in {"access", "update", "store", "add", "reflect", "auto"}
      /\ memCall[c].from \in {"model", "file", "past"}
  BY <1>m, <1>t, <1>1 DEF MemCallFits, Holds, MemCallRec
<1>3. /\ x \in MemCallRec /\ MemCallFits(x) /\ x.at \notin {"put", "write"}
      /\ x.id \in {NoMemory, m}
      /\ x.at \in {"ask", "replace"} =>
             /\ memCall[c].do \in {"reflect", "auto"}
             /\ x.new = memCall[c].new /\ x.cited = memCall[c].cited
  <2>1. CASE memCall[c].do \in {"access", "update", "add"}
    <3>1. x = NoMemCall
      BY <1>t, <1>x, <2>1 DEF AfterMemWrite, MemCallFits
    <3>2. NoMemCall.at = "idle" /\ NoMemCall.id = NoMemory
      BY DEF NoMemCall
    <3>3. QED
      BY <3>1, <3>2, NoCallIsOne
  <2>2. CASE memCall[c].do = "store"
    <3>1. x = [memCall[c] EXCEPT !.at = "invalidate"]
      BY <1>t, <1>x, <2>2 DEF AfterMemWrite, MemCallFits
    <3>2. /\ x \in MemCallRec /\ x.at = "invalidate" /\ x.do = "store" /\ x.id = memCall[c].id
          /\ x.copy = memCall[c].copy /\ x.from = memCall[c].from /\ x.old = memCall[c].old
      BY <1>t, <2>2, <3>1, CallMovesTo
    <3>3. MemCallFits(x)
      BY <1>t, <2>2, <3>2 DEF MemCallFits, Holds, HoldsNew
    <3>4. QED
      BY <1>m, <3>2, <3>3
  <2>3. CASE memCall[c].do \in {"reflect", "auto"} /\ memCall[c].old # NoMemory
    <3>1. x = [memCall[c] EXCEPT !.at = "replace"]
      BY <1>x, <2>3 DEF AfterMemWrite
    <3>2. /\ x \in MemCallRec /\ x.at = "replace" /\ x.do = memCall[c].do /\ x.id = memCall[c].id
          /\ x.copy = memCall[c].copy /\ x.from = memCall[c].from /\ x.old = memCall[c].old
          /\ x.new = memCall[c].new /\ x.cited = memCall[c].cited
      BY <1>t, <2>3, <3>1, CallMovesTo
    <3>3. memCall[c].from = "model" /\ memCall[c].old \in Observations
      BY <1>t, <2>3 DEF MemCallFits, MemCallRec
    <3>4. MemCallFits(x)
      BY <1>t, <2>3, <3>2, <3>3 DEF MemCallFits, Holds, HoldsNew
    <3>5. QED
      BY <1>m, <2>3, <3>2, <3>4
  <2>4. CASE memCall[c].do \in {"reflect", "auto"} /\ memCall[c].old = NoMemory
    <3>1. x = RestOfReply(memCall[c])
      BY <1>x, <2>4 DEF AfterMemWrite
    <3>2. /\ x \in MemCallRec /\ MemCallFits(x) /\ x.at = "ask" /\ x.id = NoMemory
          /\ x.new = memCall[c].new /\ x.cited = memCall[c].cited
      BY <1>t, <2>4, <3>1, RestFits
    <3>3. QED
      BY <2>4, <3>2
  <2>5. QED
    BY <1>2, <2>1, <2>2, <2>3, <2>4
<1>4. \A d \in MemCallers : memCall[d].at = "write" => d = c
  BY <1>t, <1>1 DEF OneWrites, MemAt
<1>5. m \notin fresh /\ m \in Facts => memCall[c].copy.is = "active"
  BY <1>m, <1>t, <1>1 DEF FreshUnseen, MemCallFits, Holds
<1>6. /\ mem' \in [Memories -> Content] /\ mem'[m] = memCall[c].copy
      /\ \A n \in Memories \ {m} : mem'[n] = mem[n]
  BY <1>t, <1>1, <1>2 DEF MemTyped
<1>7. \A d \in MemCallers \ {c} :
          ~(Holds(memCall[d]) /\ memCall[d].from = "model" /\ memCall[d].id = m)
  BY <1>m, <1>t DEF NewIsOwn
<1>8. /\ memCall'[c] = x
      /\ \A d \in MemCallers \ {c} :
             /\ memCall'[d].at = memCall[d].at /\ memCall'[d].do = memCall[d].do
             /\ memCall'[d].id = memCall[d].id
             /\ memCall'[d].new = memCall[d].new /\ memCall'[d].cited = memCall[d].cited
             /\ memCall'[d].from = "model" <=> memCall[d].from = "model"
  BY <1>t, <1>1, <1>2, <1>3, OthersOvertaken
<1>9. \A d \in MemCallers : memCall'[d].at # "write"
  BY <1>3, <1>4, <1>8
<1>10. \A d \in MemCallers :
           /\ Reflecting(d)' => /\ Reflecting(d) /\ memCall'[d].new = memCall[d].new
                                /\ memCall'[d].cited = memCall[d].cited
           /\ HoldsNew(memCall'[d]) => d # c /\ HoldsNew(memCall[d]) /\ memCall'[d].id = memCall[d].id
  <2>1. ASSUME NEW d \in MemCallers \ {c}
        PROVE  /\ Reflecting(d)' <=> Reflecting(d)
               /\ memCall'[d].new = memCall[d].new /\ memCall'[d].cited = memCall[d].cited
               /\ HoldsNew(memCall'[d]) => HoldsNew(memCall[d]) /\ memCall'[d].id = memCall[d].id
    BY <1>8, <2>1 DEF HoldsNew, Holds, Reflecting
  <2>2. ~HoldsNew(memCall'[c])
    BY <1>3, <1>8 DEF HoldsNew, Holds
  <2>3. Reflecting(c)' => x.at \in {"ask", "replace"}
    BY <1>3, <1>8 DEF Reflecting
  <2>4. memCall[c].do \in {"reflect", "auto"} => Reflecting(c)
    BY <1>1 DEF Reflecting
  <2>5. QED
    BY <1>3, <1>8, <2>1, <2>2, <2>3, <2>4
<1>11. \A o \in Observations \ {m} : Alive(o)' => Alive(o)
  BY <1>1, <1>6, <1>9 DEF Alive, Memories, MemAt
<1>12. EvidenceFits'
  <2>1. CASE clash' = TRUE
    BY <2>1 DEF EvidenceFits
  <2>2. CASE m \notin Observations \/ memCall[c].from = "file"
    <3>1. memCall[c].from = "file" => memCall[c].copy.is \in {mem[m].is, "stale"}
      BY <1>m, <1>t DEF CopiesAreCurrent
    <3>2. m \in Observations => (Alive(m)' => Alive(m))
      BY <1>m, <1>1, <1>6, <1>9, <2>2, <3>1 DEF Alive, MemAt
    <3>3. \A o \in Observations : Alive(o)' => Alive(o)
      BY <1>11, <3>2
    <3>4. QED
      BY <1>t, <1>1, <1>10, <3>3, EvidenceStays
  <2>3. CASE m \in Observations /\ memCall[c].from = "model" /\ ~clash
    <3>1. HoldsNew(memCall[c])
      BY <1>m, <1>1, <2>3 DEF HoldsNew, Holds
    <3>2. Reflecting(c)
      BY <1>t, <1>1, <3>1 DEF MemCallFits, Reflecting
    <3>3. /\ evidence[m] \subseteq memCall[c].cited
          /\ \A o \in AliveObs : evidence[m] \cap evidence[o] \subseteq repeated
          /\ \A o \in AliveObs : memCall[c].new \cap evidence[o] \subseteq memCall[c].cited
          /\ \A o, p \in AliveObs : o # p => evidence[o] \cap evidence[p] \subseteq repeated
          /\ \A d, e \in MemCallers : Reflecting(d) /\ Reflecting(e) => d = e
      BY <1>m, <1>t, <2>3, <3>1, <3>2 DEF EvidenceFits
    <3>4. \A o \in AliveObs' : o \in Observations /\ (o = m \/ o \in AliveObs)
      BY <1>11 DEF AliveObs
    <3>5. \A o, p \in AliveObs' : o # p => evidence'[o] \cap evidence'[p] \subseteq repeated'
      <4> SUFFICES ASSUME NEW o \in AliveObs', NEW p \in AliveObs', o # p
                   PROVE  evidence[o] \cap evidence[p] \subseteq repeated
        BY <1>1
      <4>1. (o = m \/ o \in AliveObs) /\ (p = m \/ p \in AliveObs)
        BY <3>4
      <4>2. QED
        BY <3>3, <4>1
    <3>6. \A d \in MemCallers : Reflecting(d)' => d = c /\ ~HoldsNew(memCall'[d])
      BY <1>10, <3>2, <3>3
    <3>7. Reflecting(c)' => \A o \in AliveObs' :
              memCall'[c].new \cap evidence'[o] \subseteq memCall'[c].cited
      BY <1>1, <1>10, <3>3, <3>4
    <3>8. QED
      BY <3>5, <3>6, <3>7 DEF EvidenceFits
  <2>4. QED
    BY <1>1, <1>2, <2>1, <2>2, <2>3
<1>13. IndexIsCurrent' /\ clash' \in BOOLEAN
  BY <1>t, <1>1 DEF IndexIsCurrent, MemTyped
<1>14. /\ cached' \in Listing /\ nav' \in Listing /\ ListingsAreCurrent'
       /\ told' \subseteq Facts /\ told' \subseteq told \cup {m}
  <2>1. CASE memCall[c].do = "add"
    <3>1. m \in Facts /\ cached \in Listing /\ nav \in Listing
      BY <1>m, <1>t, <2>1 DEF MemCallFits, MemTyped
    <3>2. /\ cached' \in Listing /\ cached'.at = cached.at /\ cached'.seen = cached.seen
          /\ cached.at = "chosen" => cached'.late = cached.late \cup {m}
      BY <1>1, <2>1, <3>1, MissedIsLate
    <3>3. /\ nav' \in Listing /\ nav'.at = nav.at /\ nav'.seen = nav.seen
          /\ nav.at = "chosen" => nav'.late = nav.late \cup {m}
      BY <1>1, <2>1, <3>1, MissedIsLate
    <3>4. told' = told \cup {m}
      BY <1>1, <2>1
    <3>5. ListingsAreCurrent'
      BY <1>t, <3>2, <3>3, <3>4 DEF ListingsAreCurrent
    <3>6. QED
      BY <1>t, <3>1, <3>2, <3>3, <3>4, <3>5 DEF MemTyped
  <2>2. CASE memCall[c].do # "add"
    <3>1. UNCHANGED <<told, cached, nav>>
      BY <1>1, <2>2
    <3>2. ListingsAreCurrent'
      BY <1>t, <3>1 DEF ListingsAreCurrent
    <3>3. QED
      BY <1>t, <3>1, <3>2 DEF MemTyped
  <2>3. QED
    BY <2>1, <2>2
<1>15. QED
  <2>1. cutOff' \subseteq Memories /\ \A n \in Memories \ {m} : n \in cutOff' <=> n \in cutOff
    BY <1>t, <1>1 DEF MemTyped
  <2>2. m \notin cutOff' /\ ~Holds(x) /\ indexDirty' \in BOOLEAN
    BY <1>1, <1>3 DEF Holds
  <2>3. m \notin fresh
    BY <1>m, <1>t DEF FreshUnseen
  <2>4. m \in Facts => mem'[m].is = "active"
    BY <1>5, <1>6, <1>t, <1>1, <1>m DEF MemCallFits, Holds
  <2>5. QED
    BY <1>1, <1>2, <1>3, <1>4, <1>6, <1>7, <1>12, <1>13, <1>14, <2>1, <2>2, <2>3, <2>4, <1>m,
       FileStep

LEMMA WriteFailsStep ==
    ASSUME MemInductive, NEW c \in MemCallers, WriteMemoryFails(c)
    PROVE  MemInductive'
<1> USE DEF fileVars, indexVars, navVars
<1>t. /\ MemTyped /\ CallsFit /\ FreshUnseen /\ NewIsOwn /\ OneWrites /\ FactsAreThere
      /\ EvidenceFits /\ IndexIsCurrent /\ ListingsAreCurrent
      /\ memCall[c] \in MemCallRec /\ MemCallFits(memCall[c])
  BY DEF MemInductive, MemTyped, CallsFit
<1>m. PICK m \in Memories \cup {NoMemory} : m = memCall[c].id
  BY <1>t DEF MemCallRec
<1>x. PICK x : x = AfterFailedWrite(memCall[c])
  OBVIOUS
<1>1. /\ memCall[c].at = "write" /\ told' = told \ {m}
      /\ memCall' = [Overtaken(c, m) EXCEPT ![c] = x]
      /\ UNCHANGED <<mem, cutOff, evidence, fresh, index, indexDirty, leftBehind, clash, cached, nav,
                     repeated>>
  BY <1>m, <1>x DEF WriteMemoryFails, MemAt
<1>2. m \in Memories /\ m \notin fresh /\ memCall[c].do \in {"access", "update", "store", "add", "reflect", "auto"}
  BY <1>m, <1>t, <1>1 DEF MemCallFits, Holds, MemCallRec, FreshUnseen
<1>3. /\ x \in MemCallRec /\ MemCallFits(x) /\ x.at \notin {"put", "write", "replace"}
      /\ x.id \in {NoMemory, m}
      /\ x.at = "ask" => /\ memCall[c].do \in {"reflect", "auto"}
                         /\ x.new = memCall[c].new /\ x.cited = memCall[c].cited
  <2>1. CASE memCall[c].do \in {"access", "update", "add"}
    <3>1. x = NoMemCall
      BY <1>x, <2>1 DEF AfterFailedWrite
    <3>2. NoMemCall.at = "idle" /\ NoMemCall.id = NoMemory
      BY DEF NoMemCall
    <3>3. QED
      BY <3>1, <3>2, NoCallIsOne
  <2>2. CASE memCall[c].do = "store"
    <3>1. x = [memCall[c] EXCEPT !.at = "invalidate"]
      BY <1>x, <2>2 DEF AfterFailedWrite
    <3>2. /\ x \in MemCallRec /\ x.at = "invalidate" /\ x.do = "store" /\ x.id = memCall[c].id
          /\ x.copy = memCall[c].copy /\ x.from = memCall[c].from /\ x.old = memCall[c].old
      BY <1>t, <2>2, <3>1, CallMovesTo
    <3>3. MemCallFits(x)
      BY <1>t, <2>2, <3>2 DEF MemCallFits, Holds, HoldsNew
    <3>4. QED
      BY <1>m, <3>2, <3>3
  <2>3. CASE memCall[c].do \in {"reflect", "auto"}
    <3>1. x = RestOfReply(memCall[c])
      BY <1>x, <2>3 DEF AfterFailedWrite
    <3>2. /\ x \in MemCallRec /\ MemCallFits(x) /\ x.at = "ask" /\ x.id = NoMemory
          /\ x.new = memCall[c].new /\ x.cited = memCall[c].cited
      BY <1>t, <2>3, <3>1, RestFits
    <3>3. QED
      BY <2>3, <3>2
  <2>4. QED
    BY <1>2, <2>1, <2>2, <2>3
<1>4. \A d \in MemCallers : memCall[d].at = "write" => d = c
  BY <1>t, <1>1 DEF OneWrites, MemAt
<1>5. /\ memCall'[c] = x
      /\ \A d \in MemCallers \ {c} :
             /\ memCall'[d].at = memCall[d].at /\ memCall'[d].do = memCall[d].do
             /\ memCall'[d].id = memCall[d].id
             /\ memCall'[d].new = memCall[d].new /\ memCall'[d].cited = memCall[d].cited
             /\ memCall'[d].from = "model" <=> memCall[d].from = "model"
  BY <1>t, <1>1, <1>2, <1>3, OthersOvertaken
<1>6. \A d \in MemCallers : memCall'[d].at # "write"
  BY <1>3, <1>4, <1>5
<1>7. \A d \in MemCallers :
          /\ Reflecting(d)' => /\ Reflecting(d) /\ memCall'[d].new = memCall[d].new
                               /\ memCall'[d].cited = memCall[d].cited
          /\ HoldsNew(memCall'[d]) => HoldsNew(memCall[d]) /\ memCall'[d].id = memCall[d].id
  <2>1. ASSUME NEW d \in MemCallers \ {c}
        PROVE  /\ Reflecting(d)' <=> Reflecting(d)
               /\ memCall'[d].new = memCall[d].new /\ memCall'[d].cited = memCall[d].cited
               /\ HoldsNew(memCall'[d]) => HoldsNew(memCall[d]) /\ memCall'[d].id = memCall[d].id
    BY <1>5, <2>1 DEF HoldsNew, Holds, Reflecting
  <2>2. ~HoldsNew(memCall'[c]) /\ (Reflecting(c)' => x.at = "ask")
    BY <1>3, <1>5 DEF HoldsNew, Holds, Reflecting
  <2>3. memCall[c].do \in {"reflect", "auto"} => Reflecting(c)
    BY <1>1 DEF Reflecting
  <2>4. QED
    BY <1>3, <1>5, <2>1, <2>2, <2>3
<1>8. \A o \in Observations : Alive(o)' => Alive(o)
  BY <1>1, <1>6 DEF Alive, MemAt
<1>9. EvidenceFits'
  BY <1>t, <1>1, <1>7, <1>8, EvidenceStays
<1>10. IndexIsCurrent' /\ clash' \in BOOLEAN
  BY <1>t, <1>1 DEF IndexIsCurrent, MemTyped
<1>11. /\ mem' \in [Memories -> Content] /\ cutOff' \subseteq Memories
       /\ told' \subseteq Facts /\ told' \subseteq told \cup {m}
       /\ cached' \in Listing /\ nav' \in Listing /\ ListingsAreCurrent'
       /\ m \notin told' /\ (m \in Facts => mem'[m].is # "stale")
       /\ indexDirty' \in BOOLEAN /\ ~Holds(x)
  BY <1>t, <1>1, <1>3 DEF MemTyped, FactsAreThere, Holds, ListingsAreCurrent
<1>12. \A d \in MemCallers \ {c} :
          ~(Holds(memCall[d]) /\ memCall[d].from = "model" /\ memCall[d].id = m)
  BY <1>m, <1>t DEF NewIsOwn
<1>13. QED
  BY <1>1, <1>2, <1>3, <1>4, <1>9, <1>10, <1>11, <1>12, <1>m, FileStep

LEMMA DeleteStep ==
    ASSUME MemInductive, NEW c \in MemCallers, NEW m \in Memories, DeleteMemory(c, m)
    PROVE  MemInductive'
<1> USE DEF navVars
<1>t. /\ MemTyped /\ CallsFit /\ EvidenceFits /\ ListingsAreCurrent
      /\ memCall[c] \in MemCallRec /\ MemCallFits(memCall[c])
  BY DEF MemInductive, MemTyped, CallsFit
<1>1. /\ memCall[c].at = "idle" /\ m \notin fresh /\ \A d \in MemCallers : memCall[d].at # "write"
      /\ mem' = [mem EXCEPT ![m] = Absent] /\ cutOff' = cutOff \ {m}
      /\ memCall' = Overtaken(c, m) /\ indexDirty' = TRUE /\ told' = told \ {m}
      /\ UNCHANGED <<evidence, fresh, index, leftBehind, clash, cached, nav, repeated>>
  BY DEF DeleteMemory, MemIdle, Unlocked, MemAt
<1>2. Overtaken(c, m) = [Overtaken(c, m) EXCEPT ![c] = memCall[c]]
  BY DEF Overtaken
<1>x. PICK x \in MemCallRec : x = memCall[c]
  BY <1>t
<1>y. x \in MemCallRec /\ MemTyped /\ CallsFit
  BY <1>x, <1>t
<1>3. memCall' = [Overtaken(c, m) EXCEPT ![c] = x]
  BY <1>x, <1>1, <1>2
<1>4. ~Holds(x) /\ x.at = "idle" /\ MemCallFits(x)
  BY <1>t, <1>x, <1>1 DEF Holds
<1>5. Absent \in Content /\ Absent.is = "absent"
  BY DEF Absent, Content
<1>6. /\ mem' \in [Memories -> Content] /\ mem'[m].is = "absent"
      /\ \A n \in Memories \ {m} : mem'[n] = mem[n] /\ (n \in cutOff' <=> n \in cutOff)
      /\ cutOff' \subseteq Memories /\ told' \subseteq Facts /\ told' \subseteq told /\ m \notin told'
      /\ indexDirty' \in BOOLEAN /\ clash' \in BOOLEAN /\ cached' \in Listing /\ nav' \in Listing
  BY <1>t, <1>1, <1>5 DEF MemTyped
<1>l. ListingsAreCurrent' /\ told' \subseteq told \cup {m}
  BY <1>t, <1>1, <1>6 DEF ListingsAreCurrent
<1>7. /\ memCall'[c] = x
      /\ \A d \in MemCallers \ {c} :
             /\ memCall'[d].at = memCall[d].at /\ memCall'[d].do = memCall[d].do
             /\ memCall'[d].id = memCall[d].id /\ memCall'[d].copy = memCall[d].copy
             /\ memCall'[d].new = memCall[d].new /\ memCall'[d].cited = memCall[d].cited
             /\ memCall'[d].old = memCall[d].old
             /\ memCall'[d].from = "file" => memCall[d].from = "file" /\ memCall[d].id # m
             /\ memCall'[d].from = "model" <=> memCall[d].from = "model"
             /\ MemCallFits(memCall'[d])
  BY <1>y, <1>3, OthersOvertaken
<1>8. \A d \in MemCallers : memCall'[d].at # "write"
  BY <1>1, <1>x, <1>7
<1>9. \A d \in MemCallers :
          /\ Reflecting(d)' => /\ Reflecting(d) /\ memCall'[d].new = memCall[d].new
                               /\ memCall'[d].cited = memCall[d].cited
          /\ HoldsNew(memCall'[d]) => HoldsNew(memCall[d]) /\ memCall'[d].id = memCall[d].id
  <2>1. ASSUME NEW d \in MemCallers \ {c}
        PROVE  /\ Reflecting(d)' <=> Reflecting(d)
               /\ memCall'[d].new = memCall[d].new /\ memCall'[d].cited = memCall[d].cited
               /\ HoldsNew(memCall'[d]) => HoldsNew(memCall[d]) /\ memCall'[d].id = memCall[d].id
    BY <1>7, <2>1 DEF HoldsNew, Holds, Reflecting
  <2>2. ~Reflecting(c)' /\ ~HoldsNew(memCall'[c])
    BY <1>4, <1>7 DEF Reflecting, HoldsNew
  <2>3. QED
    BY <2>1, <2>2
<1>10. \A o \in Observations : Alive(o)' => Alive(o)
  <2> SUFFICES ASSUME NEW o \in Observations, Alive(o)' PROVE Alive(o)
    OBVIOUS
  <2>1. mem'[o].is = "active" /\ o \notin cutOff'
    BY <1>8 DEF Alive, MemAt
  <2>2. o \in Memories /\ o # m
    BY <1>6, <2>1 DEF Memories
  <2>3. QED
    BY <1>6, <2>1, <2>2 DEF Alive
<1>11. EvidenceFits'
  BY <1>t, <1>1, <1>9, <1>10, EvidenceStays
<1>12. IndexIsCurrent'
  BY <1>1 DEF IndexIsCurrent
<1>13. /\ x.id \in {NoMemory, memCall[c].id} /\ UNCHANGED <<fresh, evidence, index, leftBehind, repeated>>
       /\ \A d \in MemCallers : memCall[d].at = "write" => d = c /\ memCall[c].id = m
       /\ m \in Facts => mem'[m].is # "stale"
  BY <1>x, <1>1, <1>6
<1>14. QED
  <2>1. UNCHANGED <<fresh, evidence, index, leftBehind, repeated>> /\ m \notin fresh
    BY <1>1
  <2>2. QED
    BY <1>l, <1>y, <1>3, <1>4, <1>6, <1>11, <1>12, <1>13, <2>1, FileStep

LEMMA MemProcessEnds ==
    ASSUME MemInductive, MemoryProcessEnds
    PROVE  MemInductive'
<1> USE DEF fileVars
<1>t. MemTyped /\ FreshUnseen /\ FactsAreThere /\ IndexIsCurrent /\ EvidenceFits
  BY DEF MemInductive
<1>0. PICK x : x = NoMemCall
  OBVIOUS
<1>1. /\ UNCHANGED <<mem, cutOff, evidence, fresh, index, clash, repeated>>
      /\ indexDirty' = FALSE /\ leftBehind' = (leftBehind \/ indexDirty)
      /\ memCall' = [c \in MemCallers |-> x]
      /\ cached' = NoListing /\ nav' = NoListing /\ told' = told \ cutOff
  BY <1>0 DEF MemoryProcessEnds
<1>2. /\ x \in MemCallRec /\ MemCallFits(x) /\ ~Holds(x) /\ ~HoldsNew(x)
      /\ x.at = "idle" /\ x.id = NoMemory /\ x.from = "model"
  BY <1>0, NoCallIsOne DEF NoMemCall, HoldsNew
<1>3. \A c \in MemCallers : memCall'[c] = x
  BY <1>1
<1>4. NoListing \in Listing /\ NoListing.at # "chosen"
  BY DEF NoListing, Listing
<1>5. MemTyped'
  BY <1>t, <1>1, <1>2, <1>4 DEF MemTyped
<1>6. CallsFit' /\ NewIsOwn'
  BY <1>2, <1>3 DEF CallsFit, NewIsOwn
<1>7. FreshUnseen'
  <2>1. NoMemory \notin fresh
    BY <1>t, MemoryFilesAssumption DEF Memories, MemTyped
  <2>2. QED
    BY <1>t, <1>1, <1>2, <1>3, <2>1 DEF FreshUnseen
<1>8. OneWrites' /\ CopiesAreCurrent'
  BY <1>2, <1>3 DEF OneWrites, CopiesAreCurrent, MemAt
<1>9. FactsAreThere'
  BY <1>t, <1>1 DEF FactsAreThere
<1>10. ListingsAreCurrent'
  BY <1>1, <1>4 DEF ListingsAreCurrent
<1>11. IndexIsCurrent'
  BY <1>t, <1>1 DEF IndexIsCurrent
<1>12. EvidenceFits'
  <2>1. \A o \in Observations : Alive(o)' => Alive(o)
    BY <1>1, <1>2, <1>3 DEF Alive, MemAt
  <2>2. \A d \in MemCallers : ~Reflecting(d)' /\ ~HoldsNew(memCall'[d])
    BY <1>2, <1>3 DEF Reflecting
  <2>3. QED
    BY <1>t, <1>1, <2>1, <2>2, EvidenceStays
<1>13. QED
  BY <1>5, <1>6, <1>7, <1>8, <1>9, <1>10, <1>11, <1>12 DEF MemInductive

-----------------------------------------------------------------------------
LEMMA MemStays == MemInductive /\ [MemoryFilesNext]_memoryVars => MemInductive'
<1> SUFFICES ASSUME MemInductive, [MemoryFilesNext]_memoryVars PROVE MemInductive'
  OBVIOUS
<1>1. CASE RebuildIndex \/ RebuildFails \/ ReadIndex \/ SetCachedEntry \/ DropListing
  BY <1>1, IndexSteps
<1>2. CASE MemoryProcessEnds
  BY <1>2, MemProcessEnds
<1>3. ASSUME NEW c \in MemCallers, NEW m \in Memories,
             \/ \E do \in {"access", "update"} : ReadToPut(c, do, m)
             \/ (\E do \in {"store", "add"} : StoreFact(c, do, m)) \/ DeleteMemory(c, m)
      PROVE  MemInductive'
  BY <1>3, ReadToPutStep, StoreFactStep, DeleteStep
<1>4. ASSUME NEW c \in MemCallers,
             MergeFails(c) \/ CountFacts(c) \/ ReplyEnds(c) \/ StartReflection(c)
      PROVE  MemInductive'
  BY <1>4, QuietSteps
<1>5. ASSUME NEW c \in MemCallers, InvalidateAfterStore(c) \/ InvalidateAfterReflection(c)
      PROVE  MemInductive'
  BY <1>5, InvalidateSteps
<1>6. ASSUME NEW c \in MemCallers, TruncateMemory(c) \/ WriteMemory(c) \/ WriteMemoryFails(c)
      PROVE  MemInductive'
  BY <1>6, TruncateStep, WriteStep, WriteFailsStep
<1>7. ASSUME NEW c \in MemCallers, ListMemories(c) \/ ReadToReplace(c)
      PROVE  MemInductive'
  BY <1>7, ListStep, ReplaceReadStep
<1>8. ASSUME NEW c \in MemCallers, NEW o \in Observations, NEW facts \in SUBSET Facts,
             NEW old \in Memories \cup {NoMemory}, ModelCondenses(c, o, facts, old)
      PROVE  MemInductive'
  BY <1>8, CondenseStep
<1>9. CASE UNCHANGED memoryVars
  <2>1. /\ UNCHANGED <<mem, cutOff, evidence, fresh, index, indexDirty, leftBehind>>
        /\ UNCHANGED <<cached, nav, memCall, clash, told, repeated>>
    BY <1>9 DEF memoryVars, fileVars, indexVars, navVars
  <2>2. MemTyped /\ ListingsAreCurrent /\ IndexIsCurrent
    BY DEF MemInductive
  <2>3. ListingsAreCurrent' /\ IndexIsCurrent'
    BY <2>1, <2>2 DEF ListingsAreCurrent, IndexIsCurrent
  <2>4. QED
    BY <2>1, <2>2, <2>3, IndexStep DEF MemTyped
<1>10. QED
  BY <1>1, <1>2, <1>3, <1>4, <1>5, <1>6, <1>7, <1>8, <1>9 DEF MemoryFilesNext

\* Only a write and a deletion change what a file says.
LEMMA ChangesAreWrites ==
    ASSUME MemoryFilesNext, mem' # mem
    PROVE  \E c \in MemCallers : WriteMemory(c) \/ \E m \in Memories : DeleteMemory(c, m)
<1>1. ~(RebuildIndex \/ RebuildFails \/ ReadIndex \/ SetCachedEntry \/ DropListing
        \/ MemoryProcessEnds)
  BY DEF RebuildIndex, RebuildFails, ReadIndex, SetCachedEntry, DropListing, MemoryProcessEnds,
         fileVars
<1>2. ASSUME NEW c \in MemCallers, NEW m \in Memories
      PROVE  ~((\E do \in {"store", "add"} : StoreFact(c, do, m)) \/ \E do \in {"access", "update"} : ReadToPut(c, do, m))
  BY DEF StoreFact, ReadToPut, fileVars
<1>3. ASSUME NEW c \in MemCallers
      PROVE  /\ ~(MergeFails(c) \/ TruncateMemory(c) \/ WriteMemoryFails(c))
             /\ ~(InvalidateAfterStore(c) \/ CountFacts(c) \/ StartReflection(c) \/ ListMemories(c))
             /\ ~(ReplyEnds(c) \/ ReadToReplace(c) \/ InvalidateAfterReflection(c))
  BY DEF MergeFails, TruncateMemory, WriteMemoryFails, InvalidateAfterStore, CountFacts,
         StartReflection, ListMemories, ReplyEnds, ReadToReplace, InvalidateAfterReflection,
         fileVars
<1>4. ASSUME NEW c \in MemCallers, NEW o \in Observations, NEW facts \in SUBSET Facts,
             NEW old \in Memories \cup {NoMemory}
      PROVE  ~ModelCondenses(c, o, facts, old)
  BY DEF ModelCondenses
<1>5. QED
  BY <1>1, <1>2, <1>3, <1>4 DEF MemoryFilesNext

\* A call with a copy that is not of the past undoes nothing: what it writes is
\* what the file says, but for what it changes itself.
LEMMA NothingIsUndone ==
    MemInductive /\ [MemoryFilesNext]_memoryVars =>
        (mem' # mem => \A m \in Memories \ fresh :
             \/ mem[m].is = "absent" /\ mem'[m].is # "absent"
             \/ mem[m].is = "stale" /\ mem'[m].is = "active"
             \/ mem[m].text = "updated" /\ mem'[m].text = "was" /\ mem'[m].is # "absent"
             => \E c \in MemCallers : memCall[c].id = m /\ memCall[c].from # "file")
<1> SUFFICES ASSUME MemInductive, MemoryFilesNext, mem' # mem, NEW m \in Memories \ fresh,
                    \/ mem[m].is = "absent" /\ mem'[m].is # "absent"
                    \/ mem[m].is = "stale" /\ mem'[m].is = "active"
                    \/ mem[m].text = "updated" /\ mem'[m].text = "was" /\ mem'[m].is # "absent"
             PROVE  \E c \in MemCallers : memCall[c].id = m /\ memCall[c].from # "file"
  BY DEF memoryVars, fileVars
<1>t. MemTyped /\ CopiesAreCurrent
  BY DEF MemInductive
<1>1. CASE \E c \in MemCallers, n \in Memories : DeleteMemory(c, n)
  <2>1. PICK n \in Memories : mem' = [mem EXCEPT ![n] = Absent]
    BY <1>1 DEF DeleteMemory
  <2>2. mem'[m].is = "absent" \/ mem'[m] = mem[m]
    BY <1>t, <2>1 DEF MemTyped, Absent
  <2>3. QED
    BY <2>2
<1>2. CASE \E c \in MemCallers : WriteMemory(c)
  <2>1. PICK c \in MemCallers : mem' = [mem EXCEPT ![memCall[c].id] = memCall[c].copy]
    BY <1>2 DEF WriteMemory
  <2>2. memCall[c].id = m /\ mem'[m] = memCall[c].copy
    BY <1>t, <2>1 DEF MemTyped
  <2>3. memCall[c].from # "file"
    BY <1>t, <2>2 DEF CopiesAreCurrent
  <2>4. QED
    BY <2>2, <2>3
<1>3. QED
  BY <1>1, <1>2, ChangesAreWrites

\* The inductive invariant is what the properties need.
LEMMA MemInductiveSuffices ==
    MemInductive => MemoryFilesTypeOK /\ IndexIsCurrent /\ EvidenceCountedOnce /\ NavigatorIsCurrent
<1> SUFFICES ASSUME MemInductive
             PROVE  MemoryFilesTypeOK /\ IndexIsCurrent /\ EvidenceCountedOnce /\ NavigatorIsCurrent
  OBVIOUS
<1>1. MemoryFilesTypeOK
  <2>1. \A c \in MemCallers : memCall[c] \in MemCallRec
    BY DEF MemInductive, MemTyped
  <2>2. QED
    BY <2>1 DEF MemInductive, MemTyped, MemoryFilesTypeOK, MemCallRec, Listing
<1>2. EvidenceCountedOnce
  <2>1. ActiveIn(Observations) \subseteq AliveObs
    BY DEF ActiveIn, AliveObs, Alive, Readable
  <2>2. QED
    BY <2>1 DEF MemInductive, EvidenceFits, EvidenceCountedOnce
<1>3. NavigatorIsCurrent
  BY DEF MemInductive, ListingsAreCurrent, NavigatorIsCurrent
<1>4. QED
  BY <1>1, <1>2, <1>3 DEF MemInductive

\* For every number of callers, facts and observations: unless a process ended
\* with a dirty index, the index agrees with the files; unless reflections met, a
\* fact counts for two observations only if one reply cited it twice; what is
\* cached knows what was stored, but for what is stored while it is chosen or by
\* Add at any time since; and a memory that was deleted, superseded or rewritten comes back only by a copy of the past or
\* by a call that makes it.
THEOREM MemoryFilesAreCorrect == MemoryFilesSpec => MemoryFilesCorrect
<1>1. MemoryFilesSpec => []MemInductive
  BY MemStart, MemStays, PTL DEF MemoryFilesSpec
<1>2. MemoryFilesSpec => [](MemoryFilesTypeOK /\ IndexIsCurrent /\ EvidenceCountedOnce
                            /\ NavigatorIsCurrent)
  BY <1>1, MemInductiveSuffices, PTL
<1>3. MemoryFilesSpec => NothingComesBack
  BY <1>1, NothingIsUndone, PTL DEF MemoryFilesSpec, NothingComesBack
<1>4. QED
  BY <1>2, <1>3 DEF MemoryFilesCorrect

-----------------------------------------------------------------------------
(* The knowledge base *)

IngestRec ==
    [at : {"idle", "document", "chunks", "over", "told", "lost"},
     out : {"none", "ok", "empty", "error"}, next : 1..LastChunk + 1, blank : SUBSET Chunks]

KnowledgeTyped ==
    /\ documents \subseteq Documents /\ vectors \subseteq Documents \X Chunks
    /\ ingest \in [Documents -> IngestRec]
    /\ batch \in {"idle", "runs", "over", "lost"} /\ responses \subseteq InBatch
    /\ deletion \in [Documents -> {"idle", "row", "ok"}]
    /\ rowTroubles \in 0..MaxRowTroubles
    /\ removedFrom \subseteq Documents

\* An ingest has an answer exactly when it is over, and before its rows there
\* are none of it.
IngestFits(d) ==
    LET x == ingest[d] IN
    /\ x.at \in {"idle", "document", "chunks"} => x.out = "none"
    /\ x.at \in {"over", "told"} => x.out # "none"
    /\ x.at \in {"idle", "document"} => x.next = 1 /\ d \notin documents /\ deletion[d] = "idle"

\* The chunks that are behind an ingest are stored, unless they were removed.
StoredSoFar(d) ==
    LET x == ingest[d] IN
    d \notin removedFrom /\ (x.at = "chunks" \/ x.out = "ok") =>
        /\ d \in documents
        /\ \A c \in Chunks \ x.blank :
               c < x.next \/ x.out = "ok" => <<d, c>> \in vectors

\* What a batch has collected so far, and what it will never see again.
BatchFits ==
    /\ batch = "idle" => responses = {} /\ \A d \in InBatch : ingest[d].at = "idle"
    /\ batch = "runs" =>
           /\ \A d \in InBatch : ingest[d].at # "lost"
           /\ responses = {d \in InBatch : ingest[d].at = "told" /\ ingest[d].out # "error"}
    /\ batch = "over" =>
           /\ \A d \in InBatch : ingest[d].at \in {"told", "lost"} /\ ingest[d].out # "none"
           /\ responses = {d \in InBatch : ingest[d].out # "error"}

KnowledgeInductive ==
    /\ KnowledgeTyped
    /\ \A d \in Documents : IngestFits(d) /\ StoredSoFar(d)
    /\ DeletedStaysGone
    /\ BatchFits

LEMMA KnowledgeStart == KnowledgeInit => KnowledgeInductive
<1> SUFFICES ASSUME KnowledgeInit PROVE KnowledgeInductive
  OBVIOUS
<1>0. PICK x : x = [at |-> "idle", out |-> "none", next |-> 1, blank |-> {}]
  OBVIOUS
<1>1. ingest = [d \in Documents |-> x] /\ x \in IngestRec /\ x.at = "idle" /\ x.out = "none"
  BY <1>0, KnowledgeAssumption DEF KnowledgeInit, IngestRec, Chunks
<1>2. \A d \in Documents : ingest[d] = x
  BY <1>1
<1>3. KnowledgeTyped
  <2>1. ingest \in [Documents -> IngestRec] /\ deletion \in [Documents -> {"idle", "row", "ok"}]
    BY <1>1 DEF KnowledgeInit
  <2>2. QED
    BY <2>1, KnowledgeAssumption DEF KnowledgeInit, KnowledgeTyped
<1>4. \A d \in Documents : IngestFits(d) /\ StoredSoFar(d)
  BY <1>1, <1>2 DEF KnowledgeInit, IngestFits, StoredSoFar
<1>5. DeletedStaysGone /\ BatchFits
  BY <1>1, <1>2, KnowledgeAssumption DEF KnowledgeInit, DeletedStaysGone, BatchFits
<1>6. QED
  BY <1>3, <1>4, <1>5 DEF KnowledgeInductive

\* One ingest goes on.
LEMMA OneIngest ==
    ASSUME KnowledgeTyped, NEW d \in Documents, NEW x \in IngestRec,
           ingest' = [ingest EXCEPT ![d] = x]
    PROVE  /\ ingest' \in [Documents -> IngestRec] /\ ingest'[d] = x
           /\ \A e \in Documents \ {d} : ingest'[e] = ingest[e]
  BY DEF KnowledgeTyped

\* A step of one ingest, which adds rows of its document only.
LEMMA IngestGoesOn ==
    ASSUME KnowledgeInductive, NEW d \in Documents, NEW x \in IngestRec,
           ingest' = [ingest EXCEPT ![d] = x],
           UNCHANGED <<removalVars, removedFrom, batch>>,
           rowTroubles' \in 0..MaxRowTroubles,
           documents \subseteq documents', documents' \subseteq documents \cup {d},
           vectors \subseteq vectors',
           \A v \in vectors' \ vectors : v[1] = d /\ v \in Documents \X Chunks,
           deletion[d] = "ok" => d \notin documents' /\ vectors' = vectors,
           IngestFits(d)', StoredSoFar(d)', BatchFits', responses' \subseteq InBatch
    PROVE  KnowledgeInductive'
<1>t. KnowledgeTyped
  BY DEF KnowledgeInductive
<1>1. /\ ingest' \in [Documents -> IngestRec] /\ ingest'[d] = x
      /\ \A e \in Documents \ {d} : ingest'[e] = ingest[e]
  BY <1>t, OneIngest
<1>2. UNCHANGED <<deletion, resetCall, removedFrom, batch>>
  BY DEF removalVars
<1>3. KnowledgeTyped'
  BY <1>t, <1>1, <1>2 DEF KnowledgeTyped
<1>4. ASSUME NEW e \in Documents PROVE IngestFits(e)' /\ StoredSoFar(e)'
  <2>1. CASE e # d
    <3>1. IngestFits(e) /\ StoredSoFar(e)
      BY DEF KnowledgeInductive
    <3>2. e \in documents' <=> e \in documents
      BY <2>1
    <3>3. QED
      BY <1>1, <1>2, <2>1, <3>1, <3>2 DEF IngestFits, StoredSoFar
  <2>2. QED
    BY <2>1
<1>5. DeletedStaysGone'
  <2>1. SUFFICES ASSUME NEW e \in Documents, deletion[e] = "ok"
                 PROVE  e \notin documents' /\ \A v \in vectors' : v[1] # e
    BY <1>2 DEF DeletedStaysGone, RowsOf
  <2>2. e \notin documents /\ \A v \in vectors : v[1] # e
    BY <2>1 DEF KnowledgeInductive, DeletedStaysGone, RowsOf
  <2>3. CASE e = d
    BY <2>1, <2>2, <2>3
  <2>4. CASE e # d
    BY <2>2, <2>4
  <2>5. QED
    BY <2>3, <2>4
<1>6. QED
  BY <1>3, <1>4, <1>5 DEF KnowledgeInductive

\* The batch knows nothing of what goes on before an ingest is collected.
LEMMA BatchWaits ==
    ASSUME BatchFits, NEW d \in Documents, KnowledgeTyped,
           UNCHANGED <<batch, responses>>,
           \A e \in Documents \ {d} : ingest'[e] = ingest[e],
           d \in InBatch => batch # "idle" \/ ingest[d].at # "idle",
           ingest[d].at \notin {"told", "lost"}, ingest'[d].at \notin {"told", "lost"}
    PROVE  BatchFits'
<1>1. d \in InBatch => batch \notin {"idle", "over"}
  BY DEF BatchFits
<1>2. InBatch \subseteq Documents
  BY KnowledgeAssumption
<1>3. CASE batch = "idle"
  BY <1>1, <1>2, <1>3 DEF BatchFits
<1>4. CASE batch = "runs"
  BY <1>1, <1>2, <1>4 DEF BatchFits
<1>5. CASE batch = "over"
  BY <1>1, <1>2, <1>5 DEF BatchFits
<1>6. QED
  BY <1>3, <1>4, <1>5 DEF BatchFits

\* Where the record of an ingest goes when it returns, or takes the next chunk.
LEMMA IngestRecMoves ==
    ASSUME NEW x \in IngestRec, NEW out \in {"ok", "empty", "error"}
    PROVE  /\ \E y \in IngestRec :
                  /\ y = [x EXCEPT !.at = "over", !.out = out]
                  /\ y.at = "over" /\ y.out = out /\ y.next = x.next /\ y.blank = x.blank
           /\ \E z \in IngestRec :
                  /\ z = [x EXCEPT !.at = "chunks"]
                  /\ z.at = "chunks" /\ z.out = x.out /\ z.next = x.next /\ z.blank = x.blank
<1>1. PICK y : y = [x EXCEPT !.at = "over", !.out = out]
  OBVIOUS
<1>2. PICK z : z = [x EXCEPT !.at = "chunks"]
  OBVIOUS
<1>3. y \in IngestRec /\ y.at = "over" /\ y.out = out /\ y.next = x.next /\ y.blank = x.blank
  BY <1>1 DEF IngestRec
<1>4. z \in IngestRec /\ z.at = "chunks" /\ z.out = x.out /\ z.next = x.next /\ z.blank = x.blank
  BY <1>2 DEF IngestRec
<1>5. QED
  BY <1>1, <1>2, <1>3, <1>4

LEMMA PrepareStep ==
    ASSUME KnowledgeInductive, NEW d \in Documents, Prepare(d)
    PROVE  KnowledgeInductive'
<1>t. KnowledgeTyped /\ BatchFits /\ IngestFits(d) /\ ingest[d] \in IngestRec
  BY DEF KnowledgeInductive, KnowledgeTyped
<1>0. ingest[d].at = "idle" /\ (d \in InBatch => batch = "runs")
  BY DEF Prepare, IngestIs
<1>w. PICK w \in IngestRec : w = ingest[d]
  BY <1>t
<1>1. PICK x \in IngestRec :
          /\ ingest' = [ingest EXCEPT ![d] = x]
          /\ x.next = w.next
          /\ \/ x.at = "document" /\ x.out = w.out
             \/ x.at = "over" /\ x.out \in {"error", "empty"}
  <2>1. CASE \E out \in {"error", "empty"} : IngestReturns(d, out)
    <3>1. PICK out \in {"error", "empty"} : IngestReturns(d, out)
      BY <2>1
    <3>o. out \in {"ok", "empty", "error"}
      OBVIOUS
    <3>2. PICK y \in IngestRec :
              /\ y = [w EXCEPT !.at = "over", !.out = out]
              /\ y.at = "over" /\ y.out = out /\ y.next = w.next /\ y.blank = w.blank
      BY <3>o, IngestRecMoves
    <3>3. ingest' = [ingest EXCEPT ![d] = y]
      BY <1>t, <1>w, <3>1, <3>2 DEF IngestReturns, KnowledgeTyped
    <3>4. QED
      BY <3>2, <3>3
  <2>2. CASE \E blank \in Blanks :
                 ingest' = [ingest EXCEPT ![d].at = "document", ![d].blank = blank]
    <3>1. PICK blank \in Blanks :
              ingest' = [ingest EXCEPT ![d].at = "document", ![d].blank = blank]
      BY <2>2
    <3>2. PICK x : x = [w EXCEPT !.at = "document", !.blank = blank]
      OBVIOUS
    <3>3. blank \in SUBSET Chunks
      BY KnowledgeAssumption DEF Chunks
    <3>4. x \in IngestRec /\ x.at = "document" /\ x.out = w.out /\ x.next = w.next
      BY <3>2, <3>3 DEF IngestRec
    <3>5. ingest' = [ingest EXCEPT ![d] = x]
      BY <1>t, <1>w, <3>1, <3>2 DEF KnowledgeTyped
    <3>6. QED
      BY <3>4, <3>5
  <2>3. QED
    BY <2>1, <2>2 DEF Prepare
<1>2. UNCHANGED <<documents, vectors, removedFrom, batch, responses, deletion, resetCall, rowTroubles>>
  BY DEF Prepare, storedVars, removalVars
<1>3. ingest'[d] = x /\ \A e \in Documents \ {d} : ingest'[e] = ingest[e]
  BY <1>t, <1>1, OneIngest
<1>4. IngestFits(d)' /\ StoredSoFar(d)'
  BY <1>t, <1>w, <1>0, <1>1, <1>2, <1>3 DEF IngestFits, StoredSoFar
<1>5. BatchFits'
  BY <1>t, <1>0, <1>1, <1>2, <1>3, BatchWaits
<1>6. UNCHANGED removalVars /\ rowTroubles' \in 0..MaxRowTroubles /\ responses' \subseteq InBatch
  BY <1>t, <1>2 DEF KnowledgeTyped, removalVars
<1>7. deletion[d] = "ok" => d \notin documents'
  BY <1>t, <1>0 DEF IngestFits
<1>8. QED
  BY <1>1, <1>2, <1>4, <1>5, <1>6, <1>7, IngestGoesOn

\* A step of an ingest that no other call sees, but for its rows.
LEMMA IngestStatement ==
    ASSUME KnowledgeInductive, NEW d \in Documents, NEW x \in IngestRec,
           ingest' = [ingest EXCEPT ![d] = x],
           ingest[d].at \in {"document", "chunks"}, x.at \in {"chunks", "over"},
           UNCHANGED removalVars, UNCHANGED <<removedFrom, batch, responses>>,
           rowTroubles' \in 0..MaxRowTroubles,
           \/ documents' = documents
           \/ documents' = documents \cup {d} /\ ingest[d].at = "document",
           \/ vectors' = vectors
           \/ \E c \in Chunks : vectors' = vectors \cup {<<d, c>>} /\ d \in documents,
           x.at = "over" <=> x.out # "none",
           x.at = "chunks" \/ x.out = "ok" => StoredSoFar(d)'
    PROVE  KnowledgeInductive'
<1>t. KnowledgeTyped /\ BatchFits /\ IngestFits(d) /\ DeletedStaysGone
  BY DEF KnowledgeInductive
<1>1. ingest'[d] = x /\ \A e \in Documents \ {d} : ingest'[e] = ingest[e]
  BY <1>t, OneIngest
<1>2. UNCHANGED <<removedFrom, batch, responses, deletion>>
  BY DEF removalVars
<1>3. BatchFits'
  BY <1>t, <1>1, <1>2, BatchWaits
<1>4. IngestFits(d)'
  BY <1>1 DEF IngestFits
<1>5. StoredSoFar(d)'
  BY <1>1 DEF StoredSoFar
<1>6. deletion[d] = "ok" => d \notin documents' /\ vectors' = vectors
  <2>1. ingest[d].at = "document" => deletion[d] = "idle"
    BY <1>t DEF IngestFits
  <2>2. deletion[d] = "ok" => d \notin documents
    BY <1>t DEF DeletedStaysGone
  <2>3. QED
    BY <2>1, <2>2
<1>7. /\ vectors \subseteq vectors'
      /\ \A v \in vectors' \ vectors : v[1] = d /\ v \in Documents \X Chunks
  OBVIOUS
<1>8. documents \subseteq documents' /\ documents' \subseteq documents \cup {d}
  OBVIOUS
<1>9. responses' \subseteq InBatch
  BY <1>t, <1>2 DEF KnowledgeTyped
<1>10. UNCHANGED <<removalVars, removedFrom, batch>>
  OBVIOUS
<1>11. QED
  BY <1>3, <1>4, <1>5, <1>6, <1>7, <1>8, <1>9, <1>10, IngestGoesOn

LEMMA StoreDocumentSteps ==
    ASSUME KnowledgeInductive, NEW d \in Documents, StoreDocument(d) \/ StoreDocumentFails(d)
    PROVE  KnowledgeInductive'
<1>t. KnowledgeTyped /\ ingest[d] \in IngestRec /\ IngestFits(d)
  BY DEF KnowledgeInductive, KnowledgeTyped
<1>0. PICK x \in IngestRec : x = ingest[d]
  BY <1>t
<1>1. UNCHANGED <<vectors, removedFrom, batch, responses, deletion, resetCall>>
  BY DEF StoreDocument, StoreDocumentFails, storedVars, removalVars
<1>2. UNCHANGED removalVars /\ ingest[d].at = "document" /\ x.out = "none"
  BY <1>t, <1>0, <1>1 DEF StoreDocument, StoreDocumentFails, IngestIs, removalVars, IngestFits
<1>3. rowTroubles' \in 0..MaxRowTroubles
  BY <1>t, KnowledgeAssumption DEF StoreDocument, StoreDocumentFails, RowTrouble, KnowledgeTyped
<1>4. CASE StoreDocument(d)
  <2>1. PICK z \in IngestRec :
            /\ z = [x EXCEPT !.at = "chunks"]
            /\ z.at = "chunks" /\ z.out = x.out /\ z.next = x.next /\ z.blank = x.blank
    BY IngestRecMoves
  <2>2. ingest' = [ingest EXCEPT ![d] = z] /\ documents' = documents \cup {d}
    BY <1>t, <1>0, <1>4, <2>1 DEF StoreDocument, KnowledgeTyped
  <2>3. StoredSoFar(d)'
    <3>1. ingest'[d] = z /\ z.next = 1
      BY <1>t, <1>0, <1>2, <2>1, <2>2, OneIngest, ZenonT(60) DEF IngestFits, IngestRec
    <3>2. \A c \in Chunks : ~(c < 1)
      BY DEF Chunks
    <3>3. QED
      BY <1>2, <2>1, <2>2, <3>1, <3>2 DEF StoredSoFar
  <2>4. QED
    BY <1>1, <1>2, <1>3, <2>1, <2>2, <2>3, IngestStatement
<1>5. CASE StoreDocumentFails(d)
  <2>1. PICK y \in IngestRec :
            /\ y = [x EXCEPT !.at = "over", !.out = "error"]
            /\ y.at = "over" /\ y.out = "error" /\ y.next = x.next /\ y.blank = x.blank
    BY IngestRecMoves
  <2>2. ingest' = [ingest EXCEPT ![d] = y] /\ documents' = documents
    BY <1>t, <1>0, <1>5, <2>1 DEF StoreDocumentFails, IngestReturns, storedVars, KnowledgeTyped
  <2>3. QED
    BY <1>1, <1>2, <1>3, <2>1, <2>2, IngestStatement
<1>6. QED
  BY <1>4, <1>5

\* The next chunk is stored, or has no vector.
LEMMA StoreChunkStep ==
    ASSUME KnowledgeInductive, NEW d \in Documents, StoreChunk(d)
    PROVE  KnowledgeInductive'
<1>t. KnowledgeTyped /\ ingest[d] \in IngestRec /\ IngestFits(d) /\ StoredSoFar(d)
  BY DEF KnowledgeInductive, KnowledgeTyped
<1>0. PICK x \in IngestRec : x = ingest[d]
  BY <1>t
<1>1. /\ UNCHANGED <<documents, removedFrom, batch, responses, removalVars, rowTroubles>>
      /\ ingest[d].at = "chunks" /\ x.at = "chunks" /\ x.next <= LastChunk /\ x.out = "none"
  BY <1>t, <1>0 DEF StoreChunk, MoreChunks, IngestIs, IngestFits
<1>2. x.next \in Chunks /\ x.next + 1 \in 1..LastChunk + 1
  BY <1>1, KnowledgeAssumption DEF IngestRec, Chunks
<1>3. PICK y : y = [x EXCEPT !.next = x.next + 1]
  OBVIOUS
<1>4. /\ y \in IngestRec /\ y.at = x.at /\ y.out = x.out /\ y.next = x.next + 1
      /\ y.blank = x.blank
  BY <1>2, <1>3 DEF IngestRec
<1>5. ingest' = [ingest EXCEPT ![d] = y]
  BY <1>t, <1>0, <1>3 DEF StoreChunk, GoToNextChunk, KnowledgeTyped
<1>6. PICK n \in Chunks : n = x.next
  BY <1>2
<1>7. \/ vectors' = vectors /\ n \in x.blank
      \/ vectors' = vectors \cup {<<d, n>>} /\ d \in documents
  BY <1>0, <1>6 DEF StoreChunk, Skips
<1>8. ingest'[d] = y
  BY <1>t, <1>4, <1>5, OneIngest
<1>9. StoredSoFar(d)'
  <2>1. SUFFICES ASSUME d \notin removedFrom
                 PROVE  /\ d \in documents
                        /\ \A c \in Chunks \ x.blank : c < x.next + 1 => <<d, c>> \in vectors'
    BY <1>1, <1>4, <1>8 DEF StoredSoFar
  <2>2. d \in documents /\ \A c \in Chunks \ x.blank : c < x.next => <<d, c>> \in vectors
    BY <1>t, <1>0, <1>1, <2>1 DEF StoredSoFar
  <2>3. \A c \in Chunks : c < x.next + 1 => c < x.next \/ c = n
    BY <1>6 DEF Chunks
  <2>4. QED
    BY <1>7, <2>2, <2>3
<1>10. rowTroubles' \in 0..MaxRowTroubles
  BY <1>t, <1>1 DEF KnowledgeTyped
<1>11. \/ vectors' = vectors
       \/ \E c \in Chunks : vectors' = vectors \cup {<<d, c>>} /\ d \in documents
  BY <1>7
<1>12. /\ UNCHANGED removalVars /\ UNCHANGED <<removedFrom, batch, responses>>
       /\ documents' = documents
  BY <1>1
<1>13. y \in IngestRec /\ y.at = "chunks" /\ y.out = "none" /\ ingest[d].at = "chunks"
  BY <1>1, <1>4
<1>14. QED
  BY <1>5, <1>13, <1>9, <1>10, <1>11, <1>12, IngestStatement

\* An ingest returns: with success after its last chunk, or with an error.
LEMMA IngestReturnSteps ==
    ASSUME KnowledgeInductive, NEW d \in Documents, StoreChunkFails(d) \/ IngestSucceeds(d)
    PROVE  KnowledgeInductive'
<1>t. KnowledgeTyped /\ ingest[d] \in IngestRec /\ StoredSoFar(d)
  BY DEF KnowledgeInductive, KnowledgeTyped
<1>0. PICK x \in IngestRec : x = ingest[d]
  BY <1>t
<1>1. PICK out \in {"ok", "error"} :
          /\ ingest' = [ingest EXCEPT ![d].at = "over", ![d].out = out]
          /\ out = "ok" => x.next > LastChunk
  BY <1>0 DEF StoreChunkFails, AfterChunkFails, IngestSucceeds, IngestReturns
<1>2. UNCHANGED <<documents, vectors, removedFrom, batch, responses, removalVars>>
  BY DEF StoreChunkFails, IngestSucceeds, storedVars
<1>3. ingest[d].at = "chunks" /\ x.at = "chunks"
  BY <1>0 DEF StoreChunkFails, IngestSucceeds, MoreChunks, IngestIs
<1>4. rowTroubles' \in 0..MaxRowTroubles
  BY <1>t, KnowledgeAssumption DEF StoreChunkFails, IngestSucceeds, RowTrouble, KnowledgeTyped
<1>5. PICK y \in IngestRec :
          /\ y = [x EXCEPT !.at = "over", !.out = out]
          /\ y.at = "over" /\ y.out = out /\ y.next = x.next /\ y.blank = x.blank
  <2>1. out \in {"ok", "empty", "error"}
    BY <1>1
  <2>2. QED
    BY <2>1, IngestRecMoves
<1>6. ingest' = [ingest EXCEPT ![d] = y]
  BY <1>t, <1>0, <1>1, <1>5 DEF KnowledgeTyped
<1>7. ingest'[d] = y
  BY <1>t, <1>6, OneIngest
<1>8. y.out = "ok" => StoredSoFar(d)'
  <2>1. SUFFICES ASSUME x.next > LastChunk, d \notin removedFrom
                 PROVE  d \in documents /\ \A c \in Chunks \ x.blank : <<d, c>> \in vectors
    BY <1>1, <1>2, <1>5, <1>7 DEF StoredSoFar
  <2>2. d \in documents /\ \A c \in Chunks \ x.blank : c < x.next => <<d, c>> \in vectors
    BY <1>t, <1>0, <1>3, <2>1 DEF StoredSoFar
  <2>3. \A c \in Chunks : c < x.next
    BY <2>1, KnowledgeAssumption DEF Chunks, IngestRec
  <2>4. QED
    BY <2>2, <2>3
<1>9. documents' = documents /\ vectors' = vectors /\ (y.at = "over" <=> y.out # "none")
      /\ UNCHANGED removalVars /\ UNCHANGED <<removedFrom, batch, responses>>
  BY <1>1, <1>2, <1>5
<1>10. QED
  BY <1>3, <1>4, <1>5, <1>6, <1>8, <1>9, IngestStatement

LEMMA CollectStep ==
    ASSUME KnowledgeInductive, NEW d \in Documents, CollectResponse(d)
    PROVE  KnowledgeInductive'
<1>t. KnowledgeTyped /\ BatchFits /\ IngestFits(d) /\ StoredSoFar(d) /\ ingest[d] \in IngestRec
  BY DEF KnowledgeInductive, KnowledgeTyped
<1>0. PICK x \in IngestRec : x = ingest[d]
  BY <1>t
<1>1. /\ UNCHANGED <<documents, vectors, removedFrom, batch, deletion, removalVars, rowTroubles>>
      /\ batch = "runs" /\ d \in InBatch /\ x.at = "over"
  BY <1>0 DEF CollectResponse, IngestIs, storedVars, removalVars
<1>2. PICK y : y = [x EXCEPT !.at = "told"]
  OBVIOUS
<1>3. /\ y \in IngestRec /\ y.at = "told" /\ y.out = x.out /\ y.next = x.next
      /\ y.blank = x.blank
  BY <1>2 DEF IngestRec
<1>4. ingest' = [ingest EXCEPT ![d] = y]
  BY <1>t, <1>0, <1>2 DEF CollectResponse, KnowledgeTyped
<1>5. ingest'[d] = y /\ \A e \in Documents \ {d} : ingest'[e] = ingest[e]
  BY <1>t, <1>3, <1>4, OneIngest
<1>6. responses' = IF x.out = "error" THEN responses ELSE responses \cup {d}
  BY <1>0 DEF CollectResponse, TakesIn
<1>7. BatchFits'
  <2>1. InBatch \subseteq Documents
    BY KnowledgeAssumption
  <2>2. /\ \A e \in InBatch : ingest[e].at # "lost"
        /\ responses = {e \in InBatch : ingest[e].at = "told" /\ ingest[e].out # "error"}
    BY <1>t, <1>1 DEF BatchFits
  <2>3. responses' = {e \in InBatch : ingest'[e].at = "told" /\ ingest'[e].out # "error"}
    BY <1>0, <1>1, <1>3, <1>5, <1>6, <2>1, <2>2
  <2>4. \A e \in InBatch : ingest'[e].at # "lost"
    BY <1>3, <1>5, <2>1, <2>2
  <2>5. QED
    BY <1>1, <2>3, <2>4 DEF BatchFits
<1>8. IngestFits(d)' /\ StoredSoFar(d)'
  BY <1>t, <1>0, <1>1, <1>3, <1>5 DEF IngestFits, StoredSoFar
<1>9. rowTroubles' \in 0..MaxRowTroubles /\ responses' \subseteq InBatch
  BY <1>t, <1>1, <1>6 DEF KnowledgeTyped
<1>10. deletion[d] = "ok" => d \notin documents' /\ vectors' = vectors
  BY <1>1 DEF KnowledgeInductive, DeletedStaysGone
<1>11. /\ UNCHANGED <<removalVars, removedFrom, batch>>
       /\ documents \subseteq documents' /\ documents' \subseteq documents \cup {d}
       /\ vectors \subseteq vectors' /\ \A v \in vectors' \ vectors : v[1] = d /\ v \in Documents \X Chunks
  BY <1>1
<1>12. QED
  BY <1>3, <1>4, <1>7, <1>8, <1>9, <1>10, <1>11, IngestGoesOn

\* A step that takes rows away, and says so.
LEMMA RowsGo ==
    ASSUME KnowledgeInductive, UNCHANGED ingestVars, rowTroubles' \in 0..MaxRowTroubles,
           documents' \subseteq documents, vectors' \subseteq vectors,
           \A d \in Documents \ removedFrom' :
               /\ d \notin removedFrom
               /\ d \in documents =>
                      /\ d \in documents'
                      /\ \A c \in Chunks : <<d, c>> \in vectors => <<d, c>> \in vectors',
           removedFrom' \subseteq Documents,
           deletion' \in [Documents -> {"idle", "row", "ok"}],
           \A d \in Documents : deletion'[d] = "row" => deletion[d] = "row" \/ d \in documents,
           \A d \in Documents : deletion'[d] = "ok" =>
               deletion[d] # "idle" /\ d \notin documents' /\ \A v \in vectors' : v[1] # d
    PROVE  KnowledgeInductive'
<1>t. KnowledgeTyped /\ BatchFits /\ UNCHANGED <<ingest, batch, responses>>
  BY DEF KnowledgeInductive, ingestVars
<1>1. KnowledgeTyped'
  BY <1>t DEF KnowledgeTyped
<1>2. BatchFits'
  BY <1>t DEF BatchFits
<1>3. ASSUME NEW d \in Documents PROVE IngestFits(d)' /\ StoredSoFar(d)'
  <2>1. IngestFits(d) /\ StoredSoFar(d)
    BY DEF KnowledgeInductive
  <2>2. deletion'[d] \in {"idle", "row", "ok"}
    OBVIOUS
  <2>3. IngestFits(d)'
    BY <1>t, <2>1, <2>2 DEF IngestFits
  <2>4. StoredSoFar(d)'
    BY <1>t, <2>1 DEF StoredSoFar
  <2>5. QED
    BY <2>3, <2>4
<1>4. DeletedStaysGone'
  BY DEF DeletedStaysGone, RowsOf
<1>5. QED
  BY <1>1, <1>2, <1>3, <1>4 DEF KnowledgeInductive

LEMMA DeletionSteps ==
    ASSUME KnowledgeInductive, NEW d \in Documents, DeleteVectors(d) \/ DeleteRow(d)
    PROVE  KnowledgeInductive'
<1>t. KnowledgeTyped /\ DeletedStaysGone
  BY DEF KnowledgeInductive
<1>1. PICK s \in {"row", "ok"} : deletion' = [deletion EXCEPT ![d] = s] /\ (s = "ok" => deletion[d] = "row")
          /\ (s = "ok" => documents' = documents \ {d}) /\ (s = "row" => documents' = documents)
  BY DEF DeleteVectors, DeleteRow
<1>2. /\ UNCHANGED ingestVars /\ rowTroubles' = rowTroubles /\ d \in documents
      /\ vectors' = vectors \ RowsOf(d) /\ removedFrom' = removedFrom \cup {d}
  BY DEF DeleteVectors, DeleteRow
<1>3. documents' \subseteq documents /\ \A e \in documents \ {d} : e \in documents'
  BY <1>1
<1>4. /\ vectors' \subseteq vectors
      /\ \A e \in Documents \ {d} : \A c \in Chunks : <<e, c>> \in vectors => <<e, c>> \in vectors'
      /\ \A v \in vectors' : v[1] # d
  BY <1>2 DEF RowsOf
<1>5. \A e \in Documents \ {d} : deletion'[e] = deletion[e]
  BY <1>t, <1>1 DEF KnowledgeTyped
<1>6. deletion'[d] = s
  BY <1>t, <1>1 DEF KnowledgeTyped
<1>7. \A e \in Documents : deletion'[e] = "row" => deletion[e] = "row" \/ e \in documents
  BY <1>2, <1>5
<1>8. ASSUME NEW e \in Documents, deletion'[e] = "ok"
      PROVE  deletion[e] # "idle" /\ e \notin documents' /\ \A v \in vectors' : v[1] # e
  <2>1. CASE e = d
    BY <1>1, <1>4, <1>6, <1>8, <2>1
  <2>2. CASE e # d
    <3>1. deletion[e] = "ok" /\ e \notin documents /\ \A v \in vectors : v[1] # e
      BY <1>t, <1>5, <1>8, <2>2 DEF DeletedStaysGone, RowsOf
    <3>2. QED
      BY <1>3, <1>4, <3>1
  <2>3. QED
    BY <2>1, <2>2
<1>9. deletion' \in [Documents -> {"idle", "row", "ok"}]
  BY <1>t, <1>1 DEF KnowledgeTyped
<1>10. rowTroubles' \in 0..MaxRowTroubles /\ removedFrom' \subseteq Documents
  BY <1>t, <1>2 DEF KnowledgeTyped
<1>11. ASSUME NEW e \in Documents \ removedFrom'
       PROVE  /\ e \notin removedFrom
              /\ e \in documents =>
                     /\ e \in documents'
                     /\ \A c \in Chunks : <<e, c>> \in vectors => <<e, c>> \in vectors'
  BY <1>2, <1>3, <1>4, <1>11
<1>12. QED
  BY <1>2, <1>3, <1>4, <1>7, <1>8, <1>9, <1>10, <1>11, RowsGo

\* A deletion or a reset that fails, and a step of a reset.
LEMMA RemovalSteps ==
    ASSUME KnowledgeInductive,
           \/ \E d \in Documents : DeleteFails(d)
           \/ ResetVectors \/ ResetDocuments \/ ResetFails
    PROVE  KnowledgeInductive'
<1>t. KnowledgeTyped /\ DeletedStaysGone
  BY DEF KnowledgeInductive
<1>1. CASE \E d \in Documents : DeleteFails(d)
  <2>1. PICK d \in Documents : DeleteFails(d)
    BY <1>1
  <2>2. /\ UNCHANGED <<documents, vectors, removedFrom, ingestVars>>
        /\ deletion' = [deletion EXCEPT ![d] = "idle"]
    BY <2>1 DEF DeleteFails, storedVars
  <2>3. rowTroubles' \in 0..MaxRowTroubles
    BY <1>t, <2>1, KnowledgeAssumption DEF DeleteFails, RowTrouble, KnowledgeTyped
  <2>4. /\ deletion' \in [Documents -> {"idle", "row", "ok"}]
        /\ \A e \in Documents : deletion'[e] \in {"idle", deletion[e]}
    BY <1>t, <2>2 DEF KnowledgeTyped
  <2>5. \A e \in Documents : deletion[e] = "ok" => e \notin documents /\ \A v \in vectors : v[1] # e
    BY <1>t DEF DeletedStaysGone, RowsOf
  <2>6. removedFrom' \subseteq Documents /\ \A e \in Documents : deletion'[e] = "row" => deletion[e] = "row"
    BY <1>t, <2>2, <2>4 DEF KnowledgeTyped
  <2>7. \A e \in Documents : deletion'[e] = "ok" =>
            deletion[e] # "idle" /\ e \notin documents' /\ \A v \in vectors' : v[1] # e
    BY <2>2, <2>4, <2>5
  <2>8. QED
    BY <2>2, <2>3, <2>4, <2>6, <2>7, RowsGo
<1>2. CASE ResetVectors \/ ResetDocuments
  <2>1. /\ documents' = {} /\ vectors' = {} /\ removedFrom' = removedFrom \cup documents
        /\ UNCHANGED <<ingestVars, deletion, rowTroubles>>
    BY <1>2 DEF ResetVectors, ResetDocuments, ClearStore
  <2>2. /\ documents' \subseteq documents /\ vectors' \subseteq vectors
        /\ rowTroubles' \in 0..MaxRowTroubles /\ removedFrom' \subseteq Documents
        /\ deletion' \in [Documents -> {"idle", "row", "ok"}]
    BY <1>t, <2>1 DEF KnowledgeTyped
  <2>3. \A d \in Documents \ removedFrom' : d \notin removedFrom /\ d \notin documents
    BY <2>1
  <2>4. \A d \in Documents : deletion'[d] = "ok" =>
            deletion[d] # "idle" /\ d \notin documents' /\ \A v \in vectors' : v[1] # d
    BY <2>1
  <2>5. QED
    BY <2>1, <2>2, <2>3, <2>4, RowsGo
<1>3. CASE ResetFails
  <2>1. /\ UNCHANGED <<documents, vectors, removedFrom, ingestVars, deletion>>
        /\ rowTroubles' \in 0..MaxRowTroubles
    BY <1>t, <1>3, KnowledgeAssumption DEF ResetFails, RowTrouble, storedVars, KnowledgeTyped
  <2>2. QED
    BY <1>t, <2>1, RowsGo DEF KnowledgeTyped, DeletedStaysGone, RowsOf
<1>4. QED
  BY <1>1, <1>2, <1>3

LEMMA BatchSteps ==
    ASSUME KnowledgeInductive, StartBatch \/ BatchReturns
    PROVE  KnowledgeInductive'
<1>t. KnowledgeTyped /\ DeletedStaysGone /\ BatchFits
  BY DEF KnowledgeInductive
<1>1. UNCHANGED <<documents, vectors, removedFrom, ingest, responses, deletion, rowTroubles>>
  BY DEF StartBatch, BatchReturns, storedVars, removalVars
<1>2. KnowledgeTyped'
  BY <1>t, <1>1 DEF KnowledgeTyped, StartBatch, BatchReturns
<1>3. ASSUME NEW d \in Documents PROVE IngestFits(d)' /\ StoredSoFar(d)'
  BY <1>1 DEF KnowledgeInductive, IngestFits, StoredSoFar
<1>4. DeletedStaysGone'
  BY <1>t, <1>1 DEF DeletedStaysGone, RowsOf
<1>5. BatchFits'
  <2>1. InBatch \subseteq Documents
    BY KnowledgeAssumption
  <2>2. CASE StartBatch
    BY <1>t, <1>1, <2>1, <2>2 DEF BatchFits, StartBatch
  <2>3. CASE BatchReturns
    <3>1. \A d \in InBatch : ingest[d].at = "told" /\ ingest[d].out # "none"
      BY <2>1, <2>3 DEF BatchReturns, IngestIs, KnowledgeInductive, IngestFits
    <3>2. QED
      BY <1>t, <1>1, <2>3, <3>1 DEF BatchFits, BatchReturns
  <2>4. QED
    BY <2>2, <2>3
<1>6. QED
  BY <1>2, <1>3, <1>4, <1>5 DEF KnowledgeInductive

LEMMA ProcessEndStep ==
    ASSUME KnowledgeInductive, KnowledgeProcessEnds
    PROVE  KnowledgeInductive'
<1>t. KnowledgeTyped /\ DeletedStaysGone /\ BatchFits
  BY DEF KnowledgeInductive
<1>1. /\ UNCHANGED <<documents, vectors, removedFrom, responses>>
      /\ rowTroubles' \in 0..MaxRowTroubles
      /\ batch' = IF batch = "runs" THEN "lost" ELSE batch
  BY <1>t, KnowledgeAssumption DEF KnowledgeProcessEnds, RowTrouble, storedVars, KnowledgeTyped
<1>2. ASSUME NEW d \in Documents
      PROVE  /\ ingest'[d] \in IngestRec /\ ingest'[d].out = ingest[d].out
             /\ ingest'[d].next = ingest[d].next /\ ingest'[d].blank = ingest[d].blank
             /\ ingest'[d].at = IF ingest[d].at = "idle" THEN "idle" ELSE "lost"
  <2>1. PICK x \in IngestRec : x = ingest[d]
    BY <1>t DEF KnowledgeTyped
  <2>2. ingest'[d] = IF x.at = "idle" THEN x ELSE [x EXCEPT !.at = "lost"]
    BY <2>1 DEF KnowledgeProcessEnds, IngestIs
  <2>3. PICK y : y = [x EXCEPT !.at = "lost"]
    OBVIOUS
  <2>4. y \in IngestRec /\ y.at = "lost" /\ y.out = x.out /\ y.next = x.next /\ y.blank = x.blank
    BY <2>3 DEF IngestRec
  <2>5. QED
    BY <2>1, <2>2, <2>3, <2>4
<1>3. ingest' \in [Documents -> IngestRec]
  <2>1. ingest' = [d \in Documents |-> ingest'[d]]
    BY DEF KnowledgeProcessEnds
  <2>2. QED
    BY <1>2, <2>1
<1>4. /\ deletion' \in [Documents -> {"idle", "row", "ok"}]
      /\ \A d \in Documents : deletion'[d] = IF deletion[d] = "row" THEN "idle" ELSE deletion[d]
  BY <1>t DEF KnowledgeProcessEnds, KnowledgeTyped
<1>5. KnowledgeTyped'
  BY <1>t, <1>1, <1>3, <1>4 DEF KnowledgeTyped
<1>6. ASSUME NEW d \in Documents PROVE IngestFits(d)' /\ StoredSoFar(d)'
  <2>1. IngestFits(d) /\ StoredSoFar(d)
    BY DEF KnowledgeInductive
  <2>2. IngestFits(d)'
    BY <1>1, <1>2, <1>4, <2>1 DEF IngestFits
  <2>3. StoredSoFar(d)'
    BY <1>1, <1>2, <2>1 DEF StoredSoFar
  <2>4. QED
    BY <2>2, <2>3
<1>7. DeletedStaysGone'
  BY <1>t, <1>1, <1>4 DEF DeletedStaysGone, RowsOf
<1>8. BatchFits'
  <2>1. InBatch \subseteq Documents
    BY KnowledgeAssumption
  <2>2. CASE batch = "idle"
    <3>1. \A d \in InBatch : ingest'[d].at = "idle"
      BY <1>t, <1>2, <2>1, <2>2 DEF BatchFits
    <3>2. QED
      BY <1>t, <1>1, <2>2, <3>1 DEF BatchFits
  <2>3. CASE batch = "over"
    <3>1. \A d \in InBatch : ingest'[d].at = "lost" /\ ingest'[d].out = ingest[d].out
      BY <1>t, <1>2, <2>1, <2>3 DEF BatchFits
    <3>2. QED
      BY <1>t, <1>1, <2>1, <2>3, <3>1 DEF BatchFits
  <2>4. CASE batch \notin {"idle", "over"}
    BY <1>1, <1>t, <2>4 DEF BatchFits, KnowledgeTyped
  <2>5. QED
    BY <2>2, <2>3, <2>4
<1>9. QED
  BY <1>5, <1>6, <1>7, <1>8 DEF KnowledgeInductive

LEMMA KnowledgeStays == KnowledgeInductive /\ [KnowledgeNext]_knowledgeVars => KnowledgeInductive'
<1> SUFFICES ASSUME KnowledgeInductive, [KnowledgeNext]_knowledgeVars PROVE KnowledgeInductive'
  OBVIOUS
<1>1. CASE StartBatch \/ BatchReturns
  BY <1>1, BatchSteps
<1>2. CASE ResetVectors \/ ResetDocuments \/ ResetFails
  BY <1>2, RemovalSteps
<1>3. CASE KnowledgeProcessEnds
  BY <1>3, ProcessEndStep
<1>4. ASSUME NEW d \in Documents, IngestStep(d)
      PROVE  KnowledgeInductive'
  BY <1>4, PrepareStep, StoreDocumentSteps, StoreChunkStep, IngestReturnSteps, CollectStep
     DEF IngestStep
<1>5. ASSUME NEW d \in Documents, DeleteVectors(d) \/ DeleteRow(d) \/ DeleteFails(d)
      PROVE  KnowledgeInductive'
  BY <1>5, DeletionSteps, RemovalSteps
<1>6. CASE UNCHANGED knowledgeVars
  <2>1. UNCHANGED <<documents, vectors, removedFrom, ingest, batch, responses, deletion, rowTroubles>>
    BY <1>6 DEF knowledgeVars, storedVars, ingestVars, removalVars
  <2>2. QED
    BY <2>1 DEF KnowledgeInductive, KnowledgeTyped, IngestFits, StoredSoFar, DeletedStaysGone,
                RowsOf, BatchFits
<1>7. QED
  BY <1>1, <1>2, <1>3, <1>4, <1>5, <1>6 DEF KnowledgeNext

LEMMA KnowledgeInductiveSuffices == KnowledgeInductive => KnowledgeInv
<1> SUFFICES ASSUME KnowledgeInductive PROVE KnowledgeInv
  OBVIOUS
<1>t. KnowledgeTyped /\ BatchFits
  BY DEF KnowledgeInductive
<1>1. KnowledgeTypeOK
  <2>1. \A d \in Documents : ingest[d] \in IngestRec
    BY <1>t DEF KnowledgeTyped
  <2>2. QED
    BY <1>t, <2>1, KnowledgeAssumption DEF KnowledgeTyped, KnowledgeTypeOK, IngestRec
<1>2. IngestedIsWhole
  BY DEF KnowledgeInductive, StoredSoFar, IngestedIsWhole
<1>3. BatchTellsSuccesses
  <2>1. SUFFICES ASSUME batch = "over"
                 PROVE  responses = {d \in InBatch : ingest[d].out \in {"ok", "empty"}}
    BY DEF BatchTellsSuccesses
  <2>2. \A d \in InBatch : ingest[d].out \in {"ok", "empty", "error"}
    BY <1>t, <2>1, KnowledgeAssumption DEF BatchFits, KnowledgeTyped, IngestRec
  <2>3. QED
    BY <1>t, <2>1, <2>2 DEF BatchFits
<1>4. QED
  BY <1>1, <1>2, <1>3 DEF KnowledgeInductive, KnowledgeInv

\* For every set of documents, every batch among them and any number of
\* failures and ends of the process: a document whose ingest succeeded is whole
\* unless someone removed rows of it, one whose deletion succeeded is gone for
\* good, and a batch tells of the ingests that ended without an error.
THEOREM KnowledgeBaseIsCorrect == KnowledgeSpec => []KnowledgeInv
  BY KnowledgeStart, KnowledgeStays, KnowledgeInductiveSuffices, PTL DEF KnowledgeSpec

-----------------------------------------------------------------------------
(* Conversations *)

\* What a message more, or a new system prompt, makes of a sequence of messages.

LEMMA AppendSays ==
    ASSUME NEW M, NEW s \in Seq(M), NEW m \in M
    PROVE  LET t == Append(s, m) IN
           /\ t \in Seq(M) /\ t # <<>> /\ Last(t) = m /\ Len(t) = Len(s) + 1
           /\ \A n \in 1..Len(s) : t[n] = s[n]
           /\ Range(t) = Range(s) \cup {m}
           /\ IsInjective(s) /\ m \notin Range(s) => IsInjective(t)
<1> DEFINE t == Append(s, m)
<1>1. /\ t \in Seq(M) /\ Len(t) = Len(s) + 1 /\ Len(s) \in Nat
      /\ \A n \in 1..Len(s) : t[n] = s[n]
      /\ t[Len(s) + 1] = m
  BY AppendProperties
<1>2. DOMAIN s = 1..Len(s) /\ DOMAIN t = 1..Len(s) + 1
  BY <1>1
<1> HIDE DEF t
<1>3. t # <<>> /\ Last(t) = m
  BY <1>1 DEF Last
<1>4. \A n \in DOMAIN t : n \in DOMAIN s \/ n = Len(s) + 1
  BY <1>1, <1>2
<1>5. \A n \in DOMAIN s : n \in DOMAIN t /\ t[n] = s[n]
  BY <1>1, <1>2
<1>6. Len(s) + 1 \in DOMAIN t
  BY <1>1, <1>2
<1>7. Range(t) = Range(s) \cup {m}
  BY <1>1, <1>4, <1>5, <1>6 DEF Range
<1>8. IsInjective(s) /\ m \notin Range(s) => IsInjective(t)
  <2>1. SUFFICES ASSUME IsInjective(s), m \notin Range(s), NEW a \in DOMAIN t, NEW b \in DOMAIN t,
                        t[a] = t[b]
                 PROVE  a = b
    BY DEF IsInjective
  <2>2. \A n \in DOMAIN s : t[n] # m
    BY <1>5, <2>1 DEF Range
  <2>3. CASE a \in DOMAIN s /\ b \in DOMAIN s
    BY <1>5, <2>1, <2>3 DEF IsInjective
  <2>4. CASE a = Len(s) + 1 \/ b = Len(s) + 1
    BY <1>1, <1>4, <2>1, <2>2, <2>4
  <2>5. QED
    BY <1>4, <2>3, <2>4
<1>9. QED
  BY <1>1, <1>3, <1>7, <1>8 DEF t

\* Somewhere in t, v follows u.
InTurn(t, u, v) == \E n \in 1..Len(t) - 1 : t[n] = u /\ t[n + 1] = v

\* m comes in front of s, or of what follows the first of s.
Fronted(s, m, k) == <<m>> \o (IF k = 0 THEN s ELSE Tail(s))

LEMMA FrontedSays ==
    ASSUME NEW s \in Seq(Message), NEW m \in Message, NEW k \in {0, 1}, k = 1 => s # <<>>,
           NEW t, t = Fronted(s, m, k)
    PROVE  /\ t \in Seq(Message)
           /\ Range(t) \subseteq Range(s) \cup {m}
           /\ \A n \in k + 1..Len(s) : s[n] \in Range(t)
           /\ \A n \in k + 1..Len(s) - 1 : InTurn(t, s[n], s[n + 1])
           /\ IsInjective(s) /\ m \notin Range(s) => IsInjective(t)
<1>0. Len(s) \in Nat /\ DOMAIN s = 1..Len(s)
  OBVIOUS
<1>1. PICK r : r = IF k = 0 THEN s ELSE Tail(s)
  OBVIOUS
<1>2. /\ r \in Seq(Message) /\ Len(r) = Len(s) - k
      /\ \A n \in 1..Len(r) : n + k \in 1..Len(s) /\ r[n] = s[n + k]
      /\ \A n \in 1..Len(s) : n > k => n - k \in 1..Len(r) /\ r[n - k] = s[n]
  <2>1. CASE k = 0
    <3>1. r = s
      BY <1>1, <2>1
    <3>2. \A n \in 1..Len(s) : n + k = n /\ n - k = n
      BY <1>0, <2>1
    <3>3. Len(s) - k = Len(s)
      BY <1>0, <2>1
    <3>4. QED
      BY <3>1, <3>2, <3>3
  <2>2. CASE k = 1
    <3>1. r \in Seq(Message) /\ Len(r) = Len(s) - 1 /\ \A n \in 1..Len(r) : r[n] = s[n + 1]
      BY <1>1, <2>2, HeadTailProperties
    <3>2. \A n \in 1..Len(r) : n + 1 \in 1..Len(s)
      BY <1>0, <3>1
    <3>3. \A n \in 1..Len(s) : n > 1 => n - 1 \in 1..Len(r) /\ (n - 1) + 1 = n
      BY <1>0, <3>1
    <3>4. \A n \in 1..Len(s) : n > 1 => r[n - 1] = s[n]
      BY <3>1, <3>3
    <3>5. QED
      BY <2>2, <3>1, <3>2, <3>3, <3>4
  <2>3. QED
    BY <2>1, <2>2
<1>3. /\ t \in Seq(Message) /\ Len(t) = Len(r) + 1 /\ t[1] = m /\ Len(r) \in Nat
      /\ \A n \in 1..Len(r) : t[n + 1] = r[n]
  <2>1. <<m>> \in Seq(Message) /\ Len(<<m>>) = 1 /\ <<m>>[1] = m
    OBVIOUS
  <2>2. QED
    BY <1>1, <1>2, <2>1, ConcatProperties DEF Fronted
<1>4. DOMAIN t = 1..Len(r) + 1
  BY <1>3
<1>5. ASSUME NEW a \in DOMAIN t, a # 1
      PROVE  /\ a - 1 + k \in DOMAIN s /\ t[a] = s[a - 1 + k]
  <2>1. a - 1 \in 1..Len(r) /\ (a - 1) + 1 = a
    BY <1>3, <1>4, <1>5
  <2>2. t[a] = r[a - 1]
    BY <1>3, <2>1
  <2>3. QED
    BY <1>0, <1>2, <2>1, <2>2
<1>6. Range(t) \subseteq Range(s) \cup {m}
  BY <1>3, <1>5 DEF Range
<1>7. ASSUME NEW n \in 1..Len(s), n > k
      PROVE  (n - k) + 1 \in 1..Len(t) /\ t[(n - k) + 1] = s[n]
  <2>1. n - k \in 1..Len(r) /\ r[n - k] = s[n]
    BY <1>2, <1>7
  <2>2. QED
    BY <1>3, <2>1
<1>8. \A n \in k + 1..Len(s) : s[n] \in Range(t)
  <2>1. \A n \in k + 1..Len(s) : n \in 1..Len(s) /\ n > k
    BY <1>0
  <2>2. QED
    BY <1>3, <1>4, <1>7, <2>1 DEF Range
<1>9. ASSUME NEW n \in k + 1..Len(s) - 1
      PROVE  InTurn(t, s[n], s[n + 1])
  <2>1. n \in 1..Len(s) /\ n + 1 \in 1..Len(s) /\ n > k /\ n + 1 > k
    BY <1>0, <1>9
  <2>2. t[(n - k) + 1] = s[n] /\ t[((n + 1) - k) + 1] = s[n + 1]
    BY <1>7, <1>9, <2>1
  <2>3. (n - k) + 1 \in 1..Len(t) - 1 /\ ((n - k) + 1) + 1 = ((n + 1) - k) + 1
    BY <1>0, <1>2, <1>3, <1>9
  <2>4. QED
    BY <2>2, <2>3 DEF InTurn
<1>10. IsInjective(s) /\ m \notin Range(s) => IsInjective(t)
  <2>1. SUFFICES ASSUME IsInjective(s), m \notin Range(s), NEW a \in DOMAIN t, NEW b \in DOMAIN t,
                        t[a] = t[b]
                 PROVE  a = b
    BY DEF IsInjective
  <2>2. \A n \in DOMAIN t : n # 1 => t[n] # m
    BY <1>5, <2>1 DEF Range
  <2>3. CASE a # 1 /\ b # 1
    <3>1. a - 1 + k = b - 1 + k
      BY <1>5, <2>1, <2>3 DEF IsInjective
    <3>2. QED
      BY <1>4, <3>1
  <2>4. CASE a = 1 \/ b = 1
    BY <1>3, <2>1, <2>2, <2>4
  <2>5. QED
    BY <2>3, <2>4
<1>11. QED
  BY <1>3, <1>6, <1>8, <1>9, <1>10

ChatRec == [at : ChatAt, conv : 0..MaxConversations, read : Seq(Message)]

ConvTyped ==
    /\ conversationOf \in [ConvIds -> 0..MaxConversations]
    /\ conversations \in 0..MaxConversations
    /\ messages \in [Conversation -> Seq(Message)]
    /\ chat \in [ChatCalls -> ChatRec]
    /\ sentPrompt \in [ChatCalls -> Seq(Message)]
    /\ prompts \in 0..MaxPrompts
    /\ \A k \in ChatCalls : chat[k].at # "idle" => chat[k].conv \in Conversation

HasSpoken(k) == chat[k].at \notin {"idle", "found", "asking"}
IsOn(k) == chat[k].at \notin {"idle", "answered", "failed"}

\* Messages that conversation c may have: each once, of its own calls, as far as they are.
FitsIn(s, c) ==
    /\ IsInjective(s)
    /\ \A k \in ChatCalls : QuestionOf(k) \in Range(s) => chat[k].conv = c /\ HasSpoken(k)
    /\ \A k \in ChatCalls : AnswerTo(k) \in Range(s) => chat[k].conv = c /\ chat[k].at = "answered"
    /\ \A n \in 1..MaxPrompts : System(n) \in Range(s) => n <= prompts

AllFit ==
    /\ \A c \in Conversation, s \in Seq(Message) : s = messages[c] => FitsIn(s, c)
    /\ \A k \in ChatCalls, c \in Conversation, s \in Seq(Message) :
           /\ chat[k].at \in {"asking", "answering"}
           /\ s = chat[k].read /\ c = chat[k].conv
           => FitsIn(s, c)

\* A conversation in which nothing crossed has one call at a time.
OneByOne ==
    \A j, k \in ChatCalls :
        IsOn(j) /\ IsOn(k) /\ chat[j].conv = chat[k].conv /\ chat[k].conv \notin interleaved => j = k

Answered(s, k) == InTurn(s, QuestionOf(k), AnswerTo(k))

\* What a call finds in such a conversation.
AskedInOrder(k) ==
    LET x == chat[k]
        said == messages[x.conv] IN
    x.at # "idle" /\ x.conv \notin interleaved =>
        /\ x.at \in {"asking", "answering"} => x.read = said
        /\ x.at \in {"asked", "sent", "answering"} => said # <<>> /\ Last(said) = QuestionOf(k)
        /\ HasSpoken(k) => QuestionOf(k) \in Range(said)
        /\ x.at = "answered" => Answered(said, k)
        /\ sentPrompt[k] # <<>> =>
               /\ Last(sentPrompt[k]) = QuestionOf(k)
               /\ \A j \in ChatCalls \ {k} : QuestionOf(j) \in Range(said) =>
                      \/ QuestionOf(j) \in Range(sentPrompt[k])
                      \/ QuestionOf(k) \in Range(sentPrompt[j])
                      \/ sentPrompt[j] = <<>>

SentAfterSpeaking ==
    \A k \in ChatCalls :
        sentPrompt[k] # <<>> => chat[k].at \in {"sent", "answering", "answered", "failed"}

ConvInductive ==
    /\ ConvTyped /\ AllFit /\ OneByOne /\ SentAfterSpeaking
    /\ \A k \in ChatCalls : AskedInOrder(k)

LEMMA ConvStart == ConversationsInit => ConvInductive
<1> SUFFICES ASSUME ConversationsInit PROVE ConvInductive
  OBVIOUS
<1>0. PICK x : x = [at |-> "idle", conv |-> 0, read |-> <<>>]
  OBVIOUS
<1>1. /\ chat = [k \in ChatCalls |-> x] /\ x \in ChatRec /\ x.at = "idle"
      /\ messages = [c \in Conversation |-> <<>>] /\ sentPrompt = [k \in ChatCalls |-> <<>>]
      /\ conversationOf = [i \in ConvIds |-> 0] /\ conversations = 0 /\ prompts = 0
  BY <1>0, ConversationsAssumption DEF ConversationsInit, ChatRec, ChatAt
<1>2. \A k \in ChatCalls : chat[k] = x /\ sentPrompt[k] = <<>>
  BY <1>1
<1>3. ConvTyped
  <2>1. <<>> \in Seq(Message) /\ 0 \in 0..MaxConversations /\ 0 \in 0..MaxPrompts
    BY ConversationsAssumption
  <2>2. QED
    BY <1>1, <1>2, <2>1 DEF ConvTyped
<1>4. AllFit
  <2>1. IsInjective(<<>>) /\ Range(<<>>) = {}
    BY DEF IsInjective, Range
  <2>2. QED
    BY <1>1, <1>2, <2>1 DEF AllFit, FitsIn
<1>5. QED
  BY <1>1, <1>2, <1>3, <1>4 DEF ConvInductive, OneByOne, IsOn, SentAfterSpeaking, AskedInOrder

\* Calls go on and prompts are counted: what fitted fits.
LEMMA FitsStays ==
    ASSUME prompts \in Nat, prompts' \in Nat, prompts <= prompts',
           \A k \in ChatCalls : HasSpoken(k) => HasSpoken(k)' /\ chat'[k].conv = chat[k].conv,
           \A k \in ChatCalls : chat[k].at = "answered" => chat'[k].at = "answered"
    PROVE  \A s, c : FitsIn(s, c) => FitsIn(s, c)'
<1> SUFFICES ASSUME NEW s, NEW c, FitsIn(s, c) PROVE FitsIn(s, c)'
  OBVIOUS
<1>1. \A k \in ChatCalls : chat[k].at = "answered" => HasSpoken(k)
  BY DEF HasSpoken
<1>2. \A n \in 1..MaxPrompts : n <= prompts => n <= prompts'
  OBVIOUS
<1>3. QED
  BY <1>1, <1>2 DEF FitsIn

\* One call goes on.
LEMMA OneChat ==
    ASSUME ConvTyped, NEW k \in ChatCalls, NEW y \in ChatRec, y.conv \in Conversation,
           chat' = [chat EXCEPT ![k] = y]
    PROVE  /\ chat' \in [ChatCalls -> ChatRec] /\ chat'[k] = y
           /\ \A j \in ChatCalls \ {k} : chat'[j] = chat[j]
           /\ \A j \in ChatCalls : chat'[j].at # "idle" => chat'[j].conv \in Conversation
  BY DEF ConvTyped

\* What t keeps of s: the questions, and the answers after them.
KeepsTalk(s, t) ==
    \A k \in ChatCalls :
        /\ QuestionOf(k) \in Range(s) => QuestionOf(k) \in Range(t)
        /\ Answered(s, k) => Answered(t, k)

\* A call that is not the one that moves, when nothing in its conversation
\* changed, or it is over and its conversation goes on.
LEMMA OthersInOrder ==
    ASSUME NEW j \in ChatCalls, AskedInOrder(j), chat'[j] = chat[j], interleaved \subseteq interleaved',
           sentPrompt'[j] = sentPrompt[j], sentPrompt[j] # <<>> => HasSpoken(j),
           LET c == chat[j].conv IN
           c \notin interleaved' /\ chat[j].at # "idle" =>
               /\ \/ messages'[c] = messages[c]
                  \/ ~IsOn(j) /\ KeepsTalk(messages[c], messages'[c])
               /\ \A i \in ChatCalls \ {j} : QuestionOf(i) \in Range(messages'[c]) =>
                      /\ QuestionOf(i) \in Range(messages[c]) \/ sentPrompt'[i] = <<>>
                      /\ \/ sentPrompt'[i] = sentPrompt[i]
                         \/ QuestionOf(j) \in Range(messages[c]) =>
                                QuestionOf(j) \in Range(sentPrompt'[i])
    PROVE  AskedInOrder(j)'
<1> SUFFICES ASSUME chat[j].at # "idle", chat[j].conv \notin interleaved'
             PROVE  AskedInOrder(j)'
  BY DEF AskedInOrder
<1>c. PICK c : c = chat[j].conv
  OBVIOUS
<1>s. PICK s : s = messages[c]
  OBVIOUS
<1>t. PICK t : t = messages'[c]
  OBVIOUS
<1>0. c = chat[j].conv /\ s = messages[c] /\ t = messages'[c] /\ c \notin interleaved'
  BY <1>c, <1>s, <1>t
<1>1. /\ t = s \/ (~IsOn(j) /\ KeepsTalk(s, t))
      /\ \A i \in ChatCalls \ {j} : QuestionOf(i) \in Range(t) =>
             /\ QuestionOf(i) \in Range(s) \/ sentPrompt'[i] = <<>>
             /\ \/ sentPrompt'[i] = sentPrompt[i]
                \/ QuestionOf(j) \in Range(s) => QuestionOf(j) \in Range(sentPrompt'[i])
  BY <1>0
<1>2. /\ chat[j].at \in {"asking", "answering"} => chat[j].read = s
      /\ chat[j].at \in {"asked", "sent", "answering"} => s # <<>> /\ Last(s) = QuestionOf(j)
      /\ HasSpoken(j) => QuestionOf(j) \in Range(s)
      /\ chat[j].at = "answered" => Answered(s, j)
      /\ sentPrompt[j] # <<>> =>
             /\ Last(sentPrompt[j]) = QuestionOf(j)
             /\ \A i \in ChatCalls \ {j} : QuestionOf(i) \in Range(s) =>
                    \/ QuestionOf(i) \in Range(sentPrompt[j])
                    \/ QuestionOf(j) \in Range(sentPrompt[i])
                    \/ sentPrompt[i] = <<>>
  BY <1>0 DEF AskedInOrder
<1>3. /\ chat[j].at \in {"asking", "answering"} => chat[j].read = t
      /\ chat[j].at \in {"asked", "sent", "answering"} => t # <<>> /\ Last(t) = QuestionOf(j)
      /\ HasSpoken(j) => QuestionOf(j) \in Range(t)
      /\ chat[j].at = "answered" => Answered(t, j)
  <2>1. IsOn(j) => t = s
    BY <1>1
  <2>2. KeepsTalk(s, t)
    BY <1>1 DEF KeepsTalk
  <2>3. QED
    BY <1>2, <2>1, <2>2 DEF IsOn, KeepsTalk
<1>4. ASSUME sentPrompt[j] # <<>>, NEW i \in ChatCalls \ {j}, QuestionOf(i) \in Range(t)
      PROVE  \/ QuestionOf(i) \in Range(sentPrompt[j])
             \/ QuestionOf(j) \in Range(sentPrompt'[i])
             \/ sentPrompt'[i] = <<>>
  <2>1. CASE sentPrompt'[i] = sentPrompt[i]
    BY <1>1, <1>2, <1>4, <2>1
  <2>2. QuestionOf(j) \in Range(s)
    BY <1>2, <1>4
  <2>3. QED
    BY <1>1, <1>4, <2>1, <2>2
<1>5. HasSpoken(j)' <=> HasSpoken(j)
  BY DEF HasSpoken
<1>6. QED
  BY <1>0, <1>2, <1>3, <1>4, <1>5 DEF AskedInOrder

\* What fitted still fits when a call goes on.
LEMMA ChatFits ==
    ASSUME ConvTyped, NEW k \in ChatCalls, NEW y \in ChatRec, y.conv \in Conversation,
           chat' = [chat EXCEPT ![k] = y], y.at # "idle",
           chat[k].at \notin {"answered", "failed"},
           chat[k].at # "idle" => y.conv = chat[k].conv,
           HasSpoken(k) => y.at \notin {"found", "asking"}, prompts' = prompts
    PROVE  \A s, c : FitsIn(s, c) => FitsIn(s, c)'
<1>1. chat'[k] = y /\ \A j \in ChatCalls \ {k} : chat'[j] = chat[j]
  BY OneChat
<1>2. prompts \in Nat /\ prompts' \in Nat /\ prompts <= prompts'
  BY ConversationsAssumption DEF ConvTyped
<1>3. \A j \in ChatCalls : HasSpoken(j) => HasSpoken(j)' /\ chat'[j].conv = chat[j].conv
  BY <1>1 DEF HasSpoken
<1>4. \A j \in ChatCalls : chat[j].at = "answered" => chat'[j].at = "answered"
  BY <1>1
<1>5. QED
  BY <1>2, <1>3, <1>4, FitsStays

\* A call that goes on, and what it has to know of its conversation.
LEMMA CallGoesOn ==
    ASSUME ConvInductive, NEW k \in ChatCalls, NEW y \in ChatRec,
           chat' = [chat EXCEPT ![k] = y], y.conv \in Conversation, y.at # "idle",
           chat[k].at \notin {"answered", "failed"},
           chat[k].at # "idle" => y.conv = chat[k].conv,
           HasSpoken(k) => y.at \notin {"found", "asking"},
           conversationOf' \in [ConvIds -> 0..MaxConversations],
           conversations' \in 0..MaxConversations, prompts' = prompts,
           interleaved \subseteq interleaved',
           sentPrompt' \in [ChatCalls -> Seq(Message)],
           \A j \in ChatCalls \ {k} : sentPrompt'[j] = sentPrompt[j],
           sentPrompt'[k] # <<>> => y.at \in {"sent", "answering", "answered", "failed"},
           NEW t \in Seq(Message), messages' = [messages EXCEPT ![y.conv] = t],
           FitsIn(t, y.conv)', y.at \in {"asking", "answering"} => FitsIn(y.read, y.conv)',
           y.conv \notin interleaved' =>
               /\ \/ t = messages[y.conv]
                  \/ chat[k].at # "idle" /\ KeepsTalk(messages[y.conv], t)
               /\ chat[k].at = "idle" =>
                      \A j \in ChatCalls \ {k} : IsOn(j) => chat[j].conv # y.conv
               /\ \A i \in ChatCalls : QuestionOf(i) \in Range(t) =>
                      QuestionOf(i) \in Range(messages[y.conv]) \/ sentPrompt'[i] = <<>>
               /\ \/ sentPrompt'[k] = sentPrompt[k]
                  \/ \A j \in ChatCalls \ {k} :
                         QuestionOf(j) \in Range(messages[y.conv]) =>
                             QuestionOf(j) \in Range(sentPrompt'[k]),
           AskedInOrder(k)'
    PROVE  ConvInductive'
<1>t. ConvTyped /\ AllFit /\ OneByOne /\ SentAfterSpeaking /\ \A j \in ChatCalls : AskedInOrder(j)
  BY DEF ConvInductive
<1>1. /\ chat' \in [ChatCalls -> ChatRec] /\ chat'[k] = y
      /\ \A j \in ChatCalls \ {k} : chat'[j] = chat[j]
      /\ \A j \in ChatCalls : chat'[j].at # "idle" => chat'[j].conv \in Conversation
  BY <1>t, OneChat
<1>2. /\ messages' \in [Conversation -> Seq(Message)] /\ messages'[y.conv] = t
      /\ \A c \in Conversation \ {y.conv} : messages'[c] = messages[c]
  BY <1>t DEF ConvTyped
<1>3. ConvTyped'
  BY <1>t, <1>1, <1>2 DEF ConvTyped
<1>4. \A s, c : FitsIn(s, c) => FitsIn(s, c)'
  BY <1>t, ChatFits
<1>5. AllFit'
  <2>1. ASSUME NEW c \in Conversation, NEW s \in Seq(Message), s = messages'[c]
        PROVE  FitsIn(s, c)'
    <3>1. CASE c = y.conv
      BY <1>2, <2>1, <3>1
    <3>2. CASE c # y.conv
      BY <1>t, <1>2, <1>4, <2>1, <3>2 DEF AllFit
    <3>3. QED
      BY <3>1, <3>2
  <2>2. ASSUME NEW j \in ChatCalls, NEW c \in Conversation, NEW s \in Seq(Message),
               chat'[j].at \in {"asking", "answering"}, s = chat'[j].read, c = chat'[j].conv
        PROVE  FitsIn(s, c)'
    <3>1. CASE j = k
      BY <1>1, <2>2, <3>1
    <3>2. CASE j # k
      BY <1>t, <1>1, <1>4, <2>2, <3>2 DEF AllFit
    <3>3. QED
      BY <3>1, <3>2
  <2>3. QED
    BY <2>1, <2>2 DEF AllFit
<1>6. \A j \in ChatCalls \ {k} : y.conv \notin interleaved' /\ IsOn(j) => chat[j].conv # y.conv
  <2>1. chat[k].at # "idle" => IsOn(k)
    BY DEF IsOn
  <2>2. QED
    BY <1>t, <2>1 DEF OneByOne
<1>7. OneByOne'
  <2>1. SUFFICES ASSUME NEW i \in ChatCalls, NEW j \in ChatCalls, IsOn(i)', IsOn(j)',
                        chat'[i].conv = chat'[j].conv, chat'[j].conv \notin interleaved', i # j
                 PROVE  FALSE
    BY DEF OneByOne
  <2>2. \A l \in ChatCalls \ {k} : IsOn(l)' => IsOn(l)
    BY <1>1 DEF IsOn
  <2>3. CASE i = k
    BY <1>1, <1>6, <2>1, <2>2, <2>3
  <2>4. CASE j = k
    BY <1>1, <1>6, <2>1, <2>2, <2>4
  <2>5. CASE i # k /\ j # k
    BY <1>t, <1>1, <2>1, <2>2, <2>5 DEF OneByOne
  <2>6. QED
    BY <2>3, <2>4, <2>5
<1>8. SentAfterSpeaking'
  BY <1>t, <1>1 DEF SentAfterSpeaking
<1>9. ASSUME NEW j \in ChatCalls PROVE AskedInOrder(j)'
  <2>1. CASE j = k
    BY <2>1
  <2>2. CASE j # k
    <3>1. PICK c : c = chat[j].conv
      OBVIOUS
    <3>2. sentPrompt[j] # <<>> => HasSpoken(j)
      BY <1>t DEF SentAfterSpeaking, HasSpoken
    <3>3. ASSUME c \notin interleaved', chat[j].at # "idle"
          PROVE  /\ \/ messages'[c] = messages[c]
                    \/ ~IsOn(j) /\ KeepsTalk(messages[c], messages'[c])
                 /\ \A i \in ChatCalls \ {j} : QuestionOf(i) \in Range(messages'[c]) =>
                        /\ QuestionOf(i) \in Range(messages[c]) \/ sentPrompt'[i] = <<>>
                        /\ \/ sentPrompt'[i] = sentPrompt[i]
                           \/ QuestionOf(j) \in Range(messages[c]) =>
                                  QuestionOf(j) \in Range(sentPrompt'[i])
      <4>1. CASE c = y.conv
        BY <1>2, <1>6, <2>2, <3>1, <3>3, <4>1
      <4>2. CASE c # y.conv
        <5>1. messages'[c] = messages[c]
          BY <1>t, <1>2, <3>1, <3>3, <4>2 DEF ConvTyped
        <5>2. QuestionOf(k) \notin Range(messages[c])
          <6>1. FitsIn(messages[c], c)
            BY <1>t, <3>1, <3>3 DEF AllFit, ConvTyped
          <6>2. QED
            BY <4>2, <6>1 DEF FitsIn, HasSpoken
        <5>3. QED
          BY <5>1, <5>2
      <4>3. QED
        BY <4>1, <4>2
    <3>4. QED
      BY <1>t, <1>1, <2>2, <3>1, <3>2, <3>3, OthersInOrder
  <2>3. QED
    BY <2>1, <2>2
<1>10. QED
  BY <1>3, <1>5, <1>7, <1>8, <1>9 DEF ConvInductive

-----------------------------------------------------------------------------
\* A message more takes nothing away.
LEMMA AppendKeeps ==
    ASSUME NEW s \in Seq(Message), NEW m \in Message
    PROVE  KeepsTalk(s, Append(s, m))
<1>1. PICK t : t = Append(s, m)
  OBVIOUS
<1>2. /\ Len(t) = Len(s) + 1 /\ Len(s) \in Nat /\ Range(t) = Range(s) \cup {m}
      /\ \A n \in 1..Len(s) : t[n] = s[n]
  BY <1>1, AppendSays
<1>3. ASSUME NEW k \in ChatCalls, Answered(s, k) PROVE Answered(t, k)
  <2>1. PICK n \in 1..Len(s) - 1 : s[n] = QuestionOf(k) /\ s[n + 1] = AnswerTo(k)
    BY <1>3 DEF Answered, InTurn
  <2>2. n \in 1..Len(s) /\ n + 1 \in 1..Len(s) /\ n \in 1..Len(t) - 1
    BY <1>2
  <2>3. QED
    BY <1>2, <2>1, <2>2 DEF Answered, InTurn
<1>4. QED
  BY <1>1, <1>2, <1>3 DEF KeepsTalk

\* The messages are of different kinds, and each kind tells its members apart.
LEMMA MessagesDiffer ==
    /\ \A j, k \in ChatCalls :
           /\ QuestionOf(j) \in Message /\ AnswerTo(j) \in Message /\ QuestionOf(j) # AnswerTo(k)
           /\ QuestionOf(j) = QuestionOf(k) => j = k
           /\ AnswerTo(j) = AnswerTo(k) => j = k
    /\ \A n \in 1..MaxPrompts :
           /\ System(n) \in Message
           /\ \A k \in ChatCalls : System(n) # QuestionOf(k) /\ System(n) # AnswerTo(k)
    /\ \A m, n \in 1..MaxPrompts : System(m) = System(n) => m = n
<1>1. \A j, k : /\ QuestionOf(j).role = "user" /\ AnswerTo(j).role = "assistant"
                /\ System(j).role = "system" /\ QuestionOf(j).of = j /\ AnswerTo(j).of = j
                /\ System(j).of = j
  BY DEF QuestionOf, AnswerTo, System
<1>2. \A j \in ChatCalls : QuestionOf(j) \in Message /\ AnswerTo(j) \in Message
  BY DEF Message
<1>3. \A n \in 1..MaxPrompts : System(n) \in Message
  BY DEF Message
<1>4. QED
  BY <1>1, <1>2, <1>3

LEMMA FindStep ==
    ASSUME ConvInductive, NEW k \in ChatCalls, NEW i \in ConvIds, FindConversation(k, i)
    PROVE  ConvInductive'
<1>t. ConvTyped /\ AllFit /\ SentAfterSpeaking /\ chat[k] \in ChatRec /\ chat[k].at = "idle"
  BY DEF ConvInductive, ConvTyped, FindConversation
<1>w. PICK w \in ChatRec : w = chat[k]
  BY <1>t
<1>1. PICK c \in Conversation :
          /\ conversationOf' = [conversationOf EXCEPT ![i] = c]
          /\ conversations' \in {c, conversations}
          /\ chat' = [chat EXCEPT ![k].at = "found", ![k].conv = c]
          /\ interleaved' = IF OnCalls(c) # {} THEN interleaved \cup {c} ELSE interleaved
          /\ UNCHANGED <<messages, sentPrompt, prompts>>
  BY DEF FindConversation
<1>s. PICK s \in Seq(Message) : s = messages[c]
  BY <1>t DEF ConvTyped
<1>2. PICK y : y = [w EXCEPT !.at = "found", !.conv = c]
  OBVIOUS
<1>3. y \in ChatRec /\ y.at = "found" /\ y.conv = c
  <2>1. c \in 0..MaxConversations /\ "found" \in ChatAt
    BY ConversationsAssumption DEF Conversation, ChatAt
  <2>2. QED
    BY <1>2, <2>1 DEF ChatRec
<1>4. chat' = [chat EXCEPT ![k] = y]
  BY <1>t, <1>w, <1>1, <1>2 DEF ConvTyped
<1>5. /\ conversationOf' \in [ConvIds -> 0..MaxConversations]
      /\ conversations' \in 0..MaxConversations
  BY <1>t, <1>1 DEF ConvTyped, Conversation
<1>6. messages' = [messages EXCEPT ![c] = s]
  BY <1>t, <1>s, <1>1 DEF ConvTyped
<1>7. /\ interleaved \subseteq interleaved'
      /\ c \notin interleaved' => \A j \in ChatCalls \ {k} : IsOn(j) => chat[j].conv # c
  BY <1>1 DEF OnCalls, IsOn
<1>8. ~HasSpoken(k) /\ sentPrompt[k] = <<>>
  BY <1>t DEF HasSpoken, SentAfterSpeaking
<1>9. FitsIn(s, c)'
  <2>1. FitsIn(s, c)
    BY <1>t, <1>s DEF AllFit
  <2>2. QED
    BY <1>t, <1>1, <1>3, <1>4, <1>8, <2>1, ChatFits
<1>10. AskedInOrder(k)'
  <2>1. chat'[k] = y
    BY <1>t, <1>3, <1>4, OneChat
  <2>2. QED
    BY <1>1, <1>3, <1>8, <2>1 DEF AskedInOrder, HasSpoken
<1>11. /\ sentPrompt' \in [ChatCalls -> Seq(Message)] /\ sentPrompt' = sentPrompt
       /\ prompts' = prompts
  BY <1>t, <1>1 DEF ConvTyped
<1>12. QED
  BY <1>t, <1>s, <1>3, <1>4, <1>5, <1>6, <1>7, <1>8, <1>9, <1>10, <1>11, CallGoesOn

\* A call in a conversation that stays what it is called, with what it says next.
LEMMA CallMoves ==
    ASSUME ConvInductive, NEW k \in ChatCalls, NEW y \in ChatRec, NEW w \in ChatRec, w = chat[k],
           chat' = [chat EXCEPT ![k] = y], w.at \notin {"idle", "answered", "failed"},
           y.conv = w.conv, y.at \notin {"idle", "found"},
           HasSpoken(k) => y.at # "asking",
           UNCHANGED <<conversationOf, conversations, prompts, interleaved>>,
           NEW s \in Seq(Message), s = messages[w.conv],
           NEW p \in Seq(Message), sentPrompt' = [sentPrompt EXCEPT ![k] = p],
           p # <<>> => y.at \in {"sent", "answering", "answered", "failed"},
           NEW t \in Seq(Message), messages' = [messages EXCEPT ![w.conv] = t],
           FitsIn(t, y.conv)', y.at \in {"asking", "answering"} => FitsIn(y.read, y.conv)',
           w.conv \notin interleaved =>
               /\ KeepsTalk(s, t)
               /\ \A i \in ChatCalls : QuestionOf(i) \in Range(t) =>
                      QuestionOf(i) \in Range(s) \/ (i = k /\ p = <<>>)
               /\ p = sentPrompt[k] \/ p = s,
           AskedInOrder(k)'
    PROVE  ConvInductive'
<1>t. ConvTyped /\ w.conv \in Conversation
  BY DEF ConvInductive, ConvTyped
<1>1. /\ sentPrompt' \in [ChatCalls -> Seq(Message)] /\ sentPrompt'[k] = p
      /\ \A j \in ChatCalls \ {k} : sentPrompt'[j] = sentPrompt[j]
  BY <1>t DEF ConvTyped
<1>2. /\ conversationOf' \in [ConvIds -> 0..MaxConversations]
      /\ conversations' \in 0..MaxConversations
  BY <1>t DEF ConvTyped
<1>3. w.conv \notin interleaved' =>
          /\ chat[k].at # "idle" /\ KeepsTalk(messages[y.conv], t)
          /\ \A i \in ChatCalls : QuestionOf(i) \in Range(t) =>
                 QuestionOf(i) \in Range(messages[y.conv]) \/ sentPrompt'[i] = <<>>
          /\ \/ sentPrompt'[k] = sentPrompt[k]
             \/ \A j \in ChatCalls \ {k} :
                    QuestionOf(j) \in Range(messages[y.conv]) =>
                        QuestionOf(j) \in Range(sentPrompt'[k])
  BY <1>1
<1>4. QED
  BY <1>t, <1>1, <1>2, <1>3, CallGoesOn

\* What holds when a call begins a step, and what its step leaves as it is.
LEMMA ReadStep ==
    ASSUME ConvInductive, NEW k \in ChatCalls, ReadMessages(k)
    PROVE  ConvInductive'
<1>t. ConvTyped /\ AllFit /\ SentAfterSpeaking /\ AskedInOrder(k) /\ chat[k] \in ChatRec
  BY DEF ConvInductive, ConvTyped
<1>w. PICK w \in ChatRec : w = chat[k]
  BY <1>t
<1>1. /\ w.at \in {"found", "sent"} /\ w.conv \in Conversation
      /\ UNCHANGED <<conversationOf, conversations, messages, sentPrompt, prompts, interleaved>>
  BY <1>t, <1>w DEF ReadMessages, ConvTyped
<1>s. PICK s \in Seq(Message) : s = messages[w.conv]
  BY <1>t, <1>1 DEF ConvTyped
<1>p. PICK p \in Seq(Message) : p = sentPrompt[k]
  BY <1>t DEF ConvTyped
<1>2. PICK y : y = [w EXCEPT !.read = s, !.at = IF w.at = "found" THEN "asking" ELSE "answering"]
  OBVIOUS
<1>3. /\ y \in ChatRec /\ y.at = (IF w.at = "found" THEN "asking" ELSE "answering")
      /\ y.conv = w.conv /\ y.read = s
  <2>1. "asking" \in ChatAt /\ "answering" \in ChatAt
    BY DEF ChatAt
  <2>2. QED
    BY <1>2, <2>1 DEF ChatRec
<1>4. chat' = [chat EXCEPT ![k] = y]
  BY <1>t, <1>w, <1>s, <1>2 DEF ConvTyped, ReadMessages
<1>5. /\ messages' = [messages EXCEPT ![w.conv] = s] /\ sentPrompt' = [sentPrompt EXCEPT ![k] = p]
  BY <1>t, <1>s, <1>p, <1>1 DEF ConvTyped
<1>6. /\ y.conv \in Conversation /\ y.at \notin {"idle", "found"}
      /\ HasSpoken(k) => y.at # "asking"
      /\ w.at \notin {"idle", "answered", "failed"}
  BY <1>w, <1>1, <1>3 DEF HasSpoken
<1>7. FitsIn(s, w.conv)'
  <2>1. FitsIn(s, w.conv)
    BY <1>t, <1>s, <1>1 DEF AllFit
  <2>2. QED
    BY <1>t, <1>w, <1>1, <1>3, <1>4, <1>6, <2>1, ChatFits
<1>8. p # <<>> => y.at = "answering"
  BY <1>t, <1>w, <1>p, <1>1, <1>3 DEF SentAfterSpeaking
<1>9. chat'[k] = y
  BY <1>t, <1>3, <1>4, <1>6, OneChat
<1>10. AskedInOrder(k)'
  <2>1. HasSpoken(k)' <=> HasSpoken(k)
    BY <1>w, <1>1, <1>3, <1>9 DEF HasSpoken
  <2>2. QED
    BY <1>t, <1>w, <1>s, <1>1, <1>3, <1>9, <2>1 DEF AskedInOrder
<1>11. KeepsTalk(s, s)
  BY DEF KeepsTalk
<1>h. UNCHANGED <<conversationOf, conversations, prompts, interleaved>>
  BY <1>1
<1>i. w.conv \notin interleaved =>
          /\ KeepsTalk(s, s)
          /\ \A i \in ChatCalls : QuestionOf(i) \in Range(s) =>
                 QuestionOf(i) \in Range(s) \/ (i = k /\ p = <<>>)
          /\ p = sentPrompt[k] \/ p = s
  BY <1>p, <1>11
<1>j. /\ p # <<>> => y.at \in {"sent", "answering", "answered", "failed"}
      /\ FitsIn(y.read, y.conv)' /\ FitsIn(s, y.conv)'
  BY <1>3, <1>7, <1>8
<1>12. QED
  BY <1>w, <1>s, <1>3, <1>4, <1>5, <1>6, <1>h, <1>i, <1>j, <1>10, CallMoves

\* The call says m after what it has read.
LEMMA SpeakStep ==
    ASSUME ConvInductive, NEW k \in ChatCalls, AskQuestion(k) \/ AddAnswer(k)
    PROVE  ConvInductive'
<1>t. ConvTyped /\ AllFit /\ SentAfterSpeaking /\ AskedInOrder(k) /\ chat[k] \in ChatRec
  BY DEF ConvInductive, ConvTyped
<1>w. PICK w \in ChatRec : w = chat[k]
  BY <1>t
<1>m. PICK m \in Message :
          /\ messages' = [messages EXCEPT ![w.conv] = Append(w.read, m)]
          /\ \/ w.at = "asking" /\ m = QuestionOf(k) /\ chat' = [chat EXCEPT ![k].at = "asked", ![k].read = <<>>]
             \/ w.at = "answering" /\ m = AnswerTo(k) /\ chat' = [chat EXCEPT ![k].at = "answered", ![k].read = <<>>]
  BY <1>w, MessagesDiffer DEF AskQuestion, AddAnswer
<1>1. /\ w.conv \in Conversation
      /\ UNCHANGED <<conversationOf, conversations, sentPrompt, prompts, interleaved>>
  BY <1>t, <1>w, <1>m DEF AskQuestion, AddAnswer, ConvTyped
<1>s. PICK s \in Seq(Message) : s = messages[w.conv]
  BY <1>t, <1>1 DEF ConvTyped
<1>p. PICK p \in Seq(Message) : p = sentPrompt[k]
  BY <1>t DEF ConvTyped
<1>r. PICK r \in Seq(Message) : r = w.read
  BY DEF ChatRec
<1>a. PICK t : t = Append(r, m)
  OBVIOUS
<1>2. PICK a \in {"asked", "answered"} :
          /\ chat' = [chat EXCEPT ![k].at = a, ![k].read = <<>>]
          /\ a = "asked" => w.at = "asking" /\ m = QuestionOf(k)
          /\ a = "answered" => w.at = "answering" /\ m = AnswerTo(k)
  BY <1>m
<1>y. PICK y : y = [w EXCEPT !.at = a, !.read = <<>>]
  OBVIOUS
<1>3. y \in ChatRec /\ y.at = a /\ y.conv = w.conv
  <2>1. "asked" \in ChatAt /\ "answered" \in ChatAt /\ <<>> \in Seq(Message)
    BY DEF ChatAt
  <2>2. QED
    BY <1>y, <1>2, <2>1 DEF ChatRec
<1>4. chat' = [chat EXCEPT ![k] = y]
  BY <1>t, <1>w, <1>2, <1>y DEF ConvTyped
<1>5. /\ messages' = [messages EXCEPT ![w.conv] = t] /\ sentPrompt' = [sentPrompt EXCEPT ![k] = p]
  BY <1>t, <1>m, <1>r, <1>a, <1>p, <1>1 DEF ConvTyped
<1>6. /\ y.conv \in Conversation /\ y.at \notin {"idle", "found", "asking"}
      /\ w.at \in {"asking", "answering"} /\ w.at \notin {"idle", "answered", "failed"}
  BY <1>1, <1>2, <1>3
<1>7. /\ t \in Seq(Message) /\ t # <<>> /\ Last(t) = m /\ Len(t) = Len(r) + 1 /\ Len(r) \in Nat
      /\ \A n \in 1..Len(r) : t[n] = r[n]
      /\ Range(t) = Range(r) \cup {m}
      /\ IsInjective(r) /\ m \notin Range(r) => IsInjective(t)
  BY <1>a, AppendSays
<1>8. FitsIn(r, w.conv)
  BY <1>t, <1>w, <1>r, <1>1, <1>6 DEF AllFit
<1>9. m \notin Range(r)
  BY <1>w, <1>2, <1>8 DEF FitsIn, HasSpoken
<1>10. chat'[k] = y
  BY <1>t, <1>3, <1>4, <1>6, OneChat
<1>11. FitsIn(t, w.conv)'
  <2>1. FitsIn(r, w.conv)'
    BY <1>t, <1>w, <1>1, <1>3, <1>4, <1>6, <1>8, ChatFits
  <2>2. /\ chat'[k].conv = w.conv /\ HasSpoken(k)'
        /\ m = AnswerTo(k) => chat'[k].at = "answered"
    BY <1>2, <1>3, <1>6, <1>10, MessagesDiffer DEF HasSpoken
  <2>3. m = QuestionOf(k) \/ m = AnswerTo(k)
    BY <1>2
  <2>4. \A j \in ChatCalls : QuestionOf(j) \in Range(t) => chat'[j].conv = w.conv /\ HasSpoken(j)'
    BY <1>7, <2>1, <2>2, <2>3, MessagesDiffer DEF FitsIn
  <2>5. \A j \in ChatCalls : AnswerTo(j) \in Range(t) => chat'[j].conv = w.conv /\ chat'[j].at = "answered"
    BY <1>7, <2>1, <2>2, <2>3, MessagesDiffer DEF FitsIn
  <2>6. \A n \in 1..MaxPrompts : System(n) \in Range(t) => n <= prompts'
    BY <1>7, <2>1, <2>3, MessagesDiffer DEF FitsIn
  <2>7. IsInjective(t)
    BY <1>7, <1>8, <1>9 DEF FitsIn
  <2>8. QED
    BY <2>4, <2>5, <2>6, <2>7 DEF FitsIn
<1>12. p # <<>> => y.at = "answered"
  BY <1>t, <1>w, <1>p, <1>2, <1>3 DEF SentAfterSpeaking
<1>13. w.conv \notin interleaved => r = s
  BY <1>t, <1>w, <1>s, <1>r, <1>6 DEF AskedInOrder
<1>14. /\ w.conv \notin interleaved => KeepsTalk(s, t)
       /\ w.conv \notin interleaved => \A i \in ChatCalls : QuestionOf(i) \in Range(t) =>
              QuestionOf(i) \in Range(s) \/ (i = k /\ p = <<>>)
  <2>1. w.conv \notin interleaved => KeepsTalk(s, t)
    BY <1>a, <1>13, AppendKeeps
  <2>2. \A i \in ChatCalls : QuestionOf(i) = m => i = k /\ a = "asked"
    BY <1>2, MessagesDiffer
  <2>3. a = "asked" => p = <<>>
    BY <1>3, <1>12
  <2>4. QED
    BY <1>7, <1>13, <2>1, <2>2, <2>3
<1>15. AskedInOrder(k)'
  <2>1. SUFFICES ASSUME w.conv \notin interleaved PROVE AskedInOrder(k)'
    BY <1>1, <1>3, <1>10 DEF AskedInOrder
  <2>2. messages'[w.conv] = t /\ sentPrompt' = sentPrompt /\ r = s
    BY <1>t, <1>1, <1>5, <1>13, <2>1 DEF ConvTyped
  <2>3. CASE a = "asked"
    <3>1. Last(t) = QuestionOf(k) /\ QuestionOf(k) \in Range(t) /\ sentPrompt[k] = <<>>
      BY <1>2, <1>3, <1>7, <1>12, <1>p, <2>3
    <3>2. QED
      BY <1>1, <1>3, <1>7, <1>10, <2>2, <2>3, <3>1 DEF AskedInOrder
  <2>4. CASE a = "answered"
    <3>1. /\ s # <<>> /\ Last(s) = QuestionOf(k) /\ QuestionOf(k) \in Range(s)
          /\ sentPrompt[k] # <<>> =>
                 /\ Last(sentPrompt[k]) = QuestionOf(k)
                 /\ \A j \in ChatCalls \ {k} : QuestionOf(j) \in Range(s) =>
                        \/ QuestionOf(j) \in Range(sentPrompt[k])
                        \/ QuestionOf(k) \in Range(sentPrompt[j])
                        \/ sentPrompt[j] = <<>>
      BY <1>t, <1>w, <1>s, <1>2, <2>1, <2>4 DEF AskedInOrder, HasSpoken
    <3>2. Answered(t, k)
      <4>1. Len(s) \in 1..Len(t) - 1 /\ t[Len(s)] = s[Len(s)] /\ t[Len(s) + 1] = m
        BY <1>7, <2>2, <3>1 DEF Last
      <4>2. QED
        BY <1>2, <2>4, <3>1, <4>1 DEF Answered, InTurn, Last
    <3>3. QuestionOf(k) \in Range(t) /\ \A j \in ChatCalls : QuestionOf(j) \in Range(t) => QuestionOf(j) \in Range(s)
      BY <1>2, <1>7, <2>2, <2>4, <3>1, MessagesDiffer
    <3>4. QED
      BY <1>1, <1>3, <1>10, <2>2, <2>4, <3>1, <3>2, <3>3 DEF AskedInOrder
  <2>5. QED
    BY <2>3, <2>4
<1>h. UNCHANGED <<conversationOf, conversations, prompts, interleaved>>
  BY <1>1
<1>i. w.conv \notin interleaved =>
          /\ KeepsTalk(s, t)
          /\ \A i \in ChatCalls : QuestionOf(i) \in Range(t) =>
                 QuestionOf(i) \in Range(s) \/ (i = k /\ p = <<>>)
          /\ p = sentPrompt[k] \/ p = s
  BY <1>p, <1>14
<1>j. /\ p # <<>> => y.at \in {"sent", "answering", "answered", "failed"}
      /\ y.at \notin {"asking", "answering"} /\ FitsIn(t, y.conv)' /\ t \in Seq(Message)
  BY <1>2, <1>3, <1>7, <1>11, <1>12
<1>16. QED
  BY <1>w, <1>s, <1>3, <1>4, <1>5, <1>6, <1>h, <1>i, <1>j, <1>15, CallMoves, ZenonT(150)

\* The question is sent, or the call fails: nothing is said.
LEMMA SendStep ==
    ASSUME ConvInductive, NEW k \in ChatCalls, SendPrompt(k) \/ CallOfModelFails(k)
    PROVE  ConvInductive'
<1>t. ConvTyped /\ AllFit /\ SentAfterSpeaking /\ AskedInOrder(k) /\ chat[k] \in ChatRec
  BY DEF ConvInductive, ConvTyped
<1>w. PICK w \in ChatRec : w = chat[k]
  BY <1>t
<1>1. /\ w.at \in {"asked", "sent"} /\ w.conv \in Conversation
      /\ UNCHANGED <<conversationOf, conversations, prompts, interleaved>>
  BY <1>t, <1>w DEF SendPrompt, CallOfModelFails, ConvTyped
<1>s. PICK s \in Seq(Message) : s = messages[w.conv]
  BY <1>t, <1>1 DEF ConvTyped
<1>5. messages' = [messages EXCEPT ![w.conv] = s]
  BY <1>t, <1>w, <1>s, <1>1 DEF ConvTyped, SendPrompt, CallOfModelFails, MessagesAfterFailure
<1>p. PICK p \in Seq(Message), a \in {"sent", "failed"} :
          /\ sentPrompt' = [sentPrompt EXCEPT ![k] = p]
          /\ p = sentPrompt[k] \/ (p = s /\ a = "sent")
          /\ chat' = [chat EXCEPT ![k].at = a]
  <2>1. CASE SendPrompt(k)
    BY <1>w, <1>s, <2>1 DEF SendPrompt
  <2>2. CASE CallOfModelFails(k)
    <3>1. sentPrompt' = [sentPrompt EXCEPT ![k] = sentPrompt[k]] /\ sentPrompt[k] \in Seq(Message)
      BY <1>t, <2>2 DEF CallOfModelFails, ConvTyped
    <3>2. chat' = [chat EXCEPT ![k].at = "failed"]
      BY <2>2 DEF CallOfModelFails
    <3>3. QED
      BY <3>1, <3>2
  <2>3. QED
    BY <2>1, <2>2
<1>2. PICK y : y = [w EXCEPT !.at = a]
  OBVIOUS
<1>3. y \in ChatRec /\ y.at = a /\ y.conv = w.conv
  <2>1. "sent" \in ChatAt /\ "failed" \in ChatAt
    BY DEF ChatAt
  <2>2. QED
    BY <1>2, <2>1 DEF ChatRec
<1>4. chat' = [chat EXCEPT ![k] = y]
  BY <1>t, <1>w, <1>p, <1>2 DEF ConvTyped
<1>6. /\ y.conv \in Conversation /\ y.at \in {"sent", "failed"}
      /\ HasSpoken(k) /\ w.at \notin {"idle", "answered", "failed"}
  BY <1>w, <1>1, <1>3 DEF HasSpoken
<1>7. FitsIn(s, w.conv)'
  <2>1. FitsIn(s, w.conv)
    BY <1>t, <1>s, <1>1 DEF AllFit
  <2>2. QED
    BY <1>t, <1>w, <1>1, <1>3, <1>4, <1>6, <2>1, ChatFits
<1>9. chat'[k] = y
  BY <1>t, <1>3, <1>4, <1>6, OneChat
<1>10. AskedInOrder(k)'
  <2>1. SUFFICES ASSUME w.conv \notin interleaved PROVE AskedInOrder(k)'
    BY <1>1, <1>3, <1>9 DEF AskedInOrder
  <2>2. /\ messages'[w.conv] = s /\ sentPrompt'[k] = p
        /\ \A j \in ChatCalls \ {k} : sentPrompt'[j] = sentPrompt[j]
    BY <1>t, <1>1, <1>5, <1>p DEF ConvTyped
  <2>3. /\ s # <<>> => Last(s) = QuestionOf(k)
        /\ w.at \in {"asked", "sent"} => s # <<>>
        /\ QuestionOf(k) \in Range(s)
        /\ sentPrompt[k] # <<>> =>
               /\ Last(sentPrompt[k]) = QuestionOf(k)
               /\ \A j \in ChatCalls \ {k} : QuestionOf(j) \in Range(s) =>
                      \/ QuestionOf(j) \in Range(sentPrompt[k])
                      \/ QuestionOf(k) \in Range(sentPrompt[j])
                      \/ sentPrompt[j] = <<>>
    BY <1>t, <1>w, <1>s, <1>1, <1>6, <2>1 DEF AskedInOrder
  <2>4. p # <<>> =>
            /\ Last(p) = QuestionOf(k)
            /\ \A j \in ChatCalls \ {k} : QuestionOf(j) \in Range(s) =>
                   \/ QuestionOf(j) \in Range(p)
                   \/ QuestionOf(k) \in Range(sentPrompt[j])
                   \/ sentPrompt[j] = <<>>
    BY <1>p, <2>3
  <2>5. QED
    BY <1>1, <1>3, <1>6, <1>9, <2>2, <2>3, <2>4 DEF AskedInOrder
<1>11. KeepsTalk(s, s)
  BY DEF KeepsTalk
<1>h. UNCHANGED <<conversationOf, conversations, prompts, interleaved>>
  BY <1>1
<1>i. w.conv \notin interleaved =>
          /\ KeepsTalk(s, s)
          /\ \A i \in ChatCalls : QuestionOf(i) \in Range(s) =>
                 QuestionOf(i) \in Range(s) \/ (i = k /\ p = <<>>)
          /\ p = sentPrompt[k] \/ p = s
  BY <1>p, <1>11
<1>j. /\ y.at \in {"sent", "answering", "answered", "failed"}
      /\ y.at \notin {"idle", "found", "asking", "answering"} /\ FitsIn(s, y.conv)'
  BY <1>3, <1>6, <1>7
<1>k. sentPrompt' = [sentPrompt EXCEPT ![k] = p]
  BY <1>p
<1>12. QED
  <2>1. w = chat[k] /\ y \in ChatRec /\ y.conv = w.conv
    BY <1>w, <1>3
  <2>2. /\ w.at \notin {"idle", "answered", "failed"} /\ y.at \notin {"idle", "found"}
        /\ HasSpoken(k) => y.at # "asking"
        /\ p # <<>> => y.at \in {"sent", "answering", "answered", "failed"}
        /\ y.at \in {"asking", "answering"} => FitsIn(y.read, y.conv)'
    BY <1>6, <1>j
  <2>3. FitsIn(s, y.conv)'
    BY <1>j
  <2>4. QED
    BY <1>w, <1>s, <1>p, <1>4, <1>5, <1>h, <1>i, <1>k, <1>10, <2>1, <2>2, <2>3, CallMoves, ZenonT(150)

\* A new system prompt: the first message is replaced if it is one.
LEMMA PromptStep ==
    ASSUME ConvInductive, NEW i \in ConvIds, SetSystemPrompt(i)
    PROVE  ConvInductive'
<1>t. /\ ConvTyped /\ AllFit /\ OneByOne /\ SentAfterSpeaking
      /\ \A j \in ChatCalls : AskedInOrder(j)
  BY DEF ConvInductive
<1>1. PICK c \in Conversation, n \in 1..MaxPrompts :
          /\ c = conversationOf[i] /\ n = prompts + 1 /\ prompts' = n
          /\ interleaved' = IF OnCalls(c) # {} THEN interleaved \cup {c} ELSE interleaved
          /\ UNCHANGED <<conversationOf, conversations, chat, sentPrompt>>
  <2>1. conversationOf[i] \in Conversation /\ prompts + 1 \in 1..MaxPrompts
    BY <1>t, ConversationsAssumption DEF SetSystemPrompt, ConvTyped, Conversation
  <2>2. QED
    BY <2>1 DEF SetSystemPrompt
<1>s. PICK s \in Seq(Message) : s = messages[c]
  BY <1>t DEF ConvTyped
<1>k. PICK k \in {0, 1} : k = 1 <=> s # <<>> /\ s[1].role = "system"
  <2>1. CASE s # <<>> /\ s[1].role = "system"
    BY <2>1
  <2>2. CASE ~(s # <<>> /\ s[1].role = "system")
    <3>1. 0 \in {0, 1} /\ 0 # 1
      OBVIOUS
    <3>2. QED
      BY <2>2, <3>1
  <2>3. QED
    BY <2>1, <2>2
<1>m. PICK m \in Message : m = System(n)
  BY MessagesDiffer
<1>u. PICK t : t = Fronted(s, m, k)
  OBVIOUS
<1>2. messages' = [messages EXCEPT ![c] = t]
  <2>1. messages' = [messages EXCEPT ![c] = <<System(n)>> \o
                        (IF s # <<>> /\ s[1].role = "system" THEN Tail(s) ELSE s)]
    BY <1>1, <1>s DEF SetSystemPrompt
  <2>2. (IF k = 0 THEN s ELSE Tail(s))
            = (IF s # <<>> /\ s[1].role = "system" THEN Tail(s) ELSE s)
    BY <1>k
  <2>3. QED
    BY <1>m, <1>u, <2>1, <2>2 DEF Fronted
<1>3. /\ t \in Seq(Message) /\ Range(t) \subseteq Range(s) \cup {m}
      /\ \A a \in k + 1..Len(s) : s[a] \in Range(t)
      /\ \A a \in k + 1..Len(s) - 1 : InTurn(t, s[a], s[a + 1])
      /\ IsInjective(s) /\ m \notin Range(s) => IsInjective(t)
  <2>1. k = 1 => s # <<>>
    BY <1>k
  <2>2. s \in Seq(Message) /\ m \in Message /\ k \in {0, 1}
    BY <1>s, <1>k, <1>m
  <2>3. t = Fronted(s, m, k)
    BY <1>u
  <2>4. t \in Seq(Message) /\ Range(t) \subseteq Range(s) \cup {m}
    BY <2>1, <2>2, <2>3, FrontedSays
  <2>5. \A a \in k + 1..Len(s) : s[a] \in Range(t)
    BY <2>1, <2>2, <2>3, FrontedSays, Zenon
  <2>6. \A a \in k + 1..Len(s) - 1 : InTurn(t, s[a], s[a + 1])
    BY <2>1, <2>2, <2>3, FrontedSays, Zenon
  <2>7. IsInjective(s) /\ m \notin Range(s) => IsInjective(t)
    BY <2>1, <2>2, <2>3, FrontedSays
  <2>8. QED
    BY <2>4, <2>5, <2>6, <2>7
<1>4. /\ messages' \in [Conversation -> Seq(Message)] /\ messages'[c] = t
      /\ \A d \in Conversation \ {c} : messages'[d] = messages[d]
  BY <1>t, <1>2, <1>3 DEF ConvTyped
<1>5. KeepsTalk(s, t)
  <2>1. DOMAIN s = 1..Len(s) /\ Len(s) \in Nat
    OBVIOUS
  <2>2. ASSUME NEW j \in ChatCalls, NEW a \in 1..Len(s), s[a] = QuestionOf(j)
        PROVE  a \in k + 1..Len(s)
    <3>1. QuestionOf(j).role # "system"
      BY DEF QuestionOf
    <3>2. a # 1 \/ k # 1
      BY <1>k, <2>2, <3>1
    <3>3. QED
      BY <1>k, <2>1, <3>2
  <2>3. ASSUME NEW j \in ChatCalls, QuestionOf(j) \in Range(s) PROVE QuestionOf(j) \in Range(t)
    BY <1>3, <2>2, <2>1, <2>3 DEF Range
  <2>4. ASSUME NEW j \in ChatCalls, Answered(s, j) PROVE Answered(t, j)
    <3>1. PICK a \in 1..Len(s) - 1 : s[a] = QuestionOf(j) /\ s[a + 1] = AnswerTo(j)
      BY <2>4 DEF Answered, InTurn
    <3>2. a \in k + 1..Len(s) /\ a \in k + 1..Len(s) - 1
      <4>1. a \in 1..Len(s)
        BY <2>1, <3>1
      <4>2. a \in k + 1..Len(s)
        BY <2>2, <3>1, <4>1
      <4>3. QED
        BY <1>k, <2>1, <3>1, <4>2
    <3>3. QED
      BY <1>3, <3>1, <3>2 DEF Answered, InTurn
  <2>5. QED
    BY <2>3, <2>4 DEF KeepsTalk
<1>6. /\ interleaved \subseteq interleaved' /\ interleaved' \subseteq interleaved \cup {c}
      /\ \A j \in ChatCalls : chat[j].conv = c /\ IsOn(j) => c \in interleaved'
  BY <1>1 DEF OnCalls, IsOn
<1>7. ConvTyped'
  BY <1>t, <1>1, <1>4, ConversationsAssumption DEF ConvTyped
<1>8. \A r, d : FitsIn(r, d) => FitsIn(r, d)'
  <2>1. prompts \in Nat /\ prompts' \in Nat /\ prompts <= prompts'
    BY <1>t, <1>1, ConversationsAssumption DEF ConvTyped
  <2>2. \A j \in ChatCalls : HasSpoken(j) => HasSpoken(j)' /\ chat'[j].conv = chat[j].conv
    BY <1>1 DEF HasSpoken
  <2>3. QED
    BY <1>1, <2>1, <2>2, FitsStays
<1>9. FitsIn(t, c)'
  <2>1. FitsIn(s, c)
    BY <1>t, <1>s DEF AllFit
  <2>2. m \notin Range(s)
    <3>1. ~(n <= prompts)
      BY <1>t, <1>1, ConversationsAssumption DEF ConvTyped
    <3>2. QED
      BY <1>m, <2>1, <3>1 DEF FitsIn
  <2>3. FitsIn(s, c)'
    BY <1>8, <2>1
  <2>4. IsInjective(t)
    BY <1>3, <2>1, <2>2 DEF FitsIn
  <2>5. \A j \in ChatCalls : /\ QuestionOf(j) \in Range(t) => QuestionOf(j) \in Range(s)
                             /\ AnswerTo(j) \in Range(t) => AnswerTo(j) \in Range(s)
    BY <1>m, <1>3, MessagesDiffer
  <2>6. n <= n /\ \A a \in 1..MaxPrompts : System(a) \in Range(t) => System(a) \in Range(s) \/ a = n
    BY <1>m, <1>3, MessagesDiffer
  <2>7. QED
    BY <1>1, <2>3, <2>4, <2>5, <2>6 DEF FitsIn
<1>10. AllFit'
  <2>1. ASSUME NEW d \in Conversation, NEW r \in Seq(Message), r = messages'[d]
        PROVE  FitsIn(r, d)'
    <3>1. CASE d = c
      BY <1>4, <1>9, <2>1, <3>1
    <3>2. CASE d # c
      BY <1>t, <1>4, <1>8, <2>1, <3>2 DEF AllFit
    <3>3. QED
      BY <3>1, <3>2
  <2>2. ASSUME NEW j \in ChatCalls, NEW d \in Conversation, NEW r \in Seq(Message),
               chat'[j].at \in {"asking", "answering"}, r = chat'[j].read, d = chat'[j].conv
        PROVE  FitsIn(r, d)'
    BY <1>t, <1>1, <1>8, <2>2 DEF AllFit
  <2>3. QED
    BY <2>1, <2>2 DEF AllFit
<1>11. OneByOne' /\ SentAfterSpeaking'
  BY <1>t, <1>1, <1>6 DEF OneByOne, IsOn, SentAfterSpeaking
<1>12. ASSUME NEW j \in ChatCalls PROVE AskedInOrder(j)'
  <2>1. PICK d : d = chat[j].conv
    OBVIOUS
  <2>2. sentPrompt[j] # <<>> => HasSpoken(j)
    BY <1>t DEF SentAfterSpeaking, HasSpoken
  <2>3. ASSUME d \notin interleaved', chat[j].at # "idle"
        PROVE  /\ \/ messages'[d] = messages[d]
                  \/ ~IsOn(j) /\ KeepsTalk(messages[d], messages'[d])
               /\ \A l \in ChatCalls \ {j} : QuestionOf(l) \in Range(messages'[d]) =>
                      /\ QuestionOf(l) \in Range(messages[d]) \/ sentPrompt'[l] = <<>>
                      /\ \/ sentPrompt'[l] = sentPrompt[l]
                         \/ QuestionOf(j) \in Range(messages[d]) =>
                                QuestionOf(j) \in Range(sentPrompt'[l])
    <3>1. d \in Conversation
      BY <1>t, <2>1, <2>3 DEF ConvTyped
    <3>2. CASE d = c
      <4>1. \A l \in ChatCalls : QuestionOf(l) \in Range(t) => QuestionOf(l) \in Range(s)
        BY <1>m, <1>3, MessagesDiffer
      <4>2. QED
        BY <1>s, <1>1, <1>4, <1>5, <1>6, <2>1, <2>3, <3>2, <4>1
    <3>3. CASE d # c
      BY <1>1, <1>4, <3>1, <3>3
    <3>4. QED
      BY <3>2, <3>3
  <2>4. QED
    BY <1>t, <1>1, <1>6, <2>1, <2>2, <2>3, OthersInOrder
<1>13. QED
  BY <1>7, <1>10, <1>11, <1>12 DEF ConvInductive

\* The map is made anew, and so is a step that changes nothing.
LEMMA MapStep ==
    ASSUME ConvInductive, (\E i \in ConvIds : ResetConversation(i)) \/ UNCHANGED convVars
    PROVE  ConvInductive'
<1>1. UNCHANGED <<messages, chat, sentPrompt, prompts, interleaved>>
  BY DEF ResetConversation, convVars
<1>t. ConvTyped
  BY DEF ConvInductive
<1>2. ConvTyped'
  <2>1. CASE \E i \in ConvIds : ResetConversation(i)
    <3>1. PICK i \in ConvIds : ResetConversation(i)
      BY <2>1
    <3>2. conversations' \in 0..MaxConversations
      BY <1>t, <3>1, ConversationsAssumption DEF ResetConversation, ConvTyped
    <3>3. conversationOf' \in [ConvIds -> 0..MaxConversations]
      BY <3>1, <3>2, ConversationsAssumption DEF ResetConversation
    <3>4. QED
      BY <1>t, <1>1, <3>2, <3>3 DEF ConvTyped
  <2>2. CASE UNCHANGED convVars
    BY <1>t, <2>2 DEF ConvTyped, convVars
  <2>3. QED
    BY <2>1, <2>2
<1>3. AllFit' /\ OneByOne' /\ SentAfterSpeaking' /\ \A k \in ChatCalls : AskedInOrder(k)'
  BY <1>1 DEF ConvInductive, AllFit, FitsIn, OneByOne, IsOn, SentAfterSpeaking, AskedInOrder, HasSpoken
<1>4. QED
  BY <1>2, <1>3 DEF ConvInductive

LEMMA ConvStays == ConvInductive /\ [ConversationsNext]_convVars => ConvInductive'
  BY FindStep, ReadStep, SpeakStep, SendStep, PromptStep, MapStep DEF ConversationsNext

LEMMA ConvInductiveSuffices == ConvInductive => ConversationsInv
<1> SUFFICES ASSUME ConvInductive PROVE ConversationsInv
  OBVIOUS
<1>t. /\ ConvTyped /\ AllFit /\ SentAfterSpeaking
      /\ \A k \in ChatCalls : AskedInOrder(k) /\ chat[k] \in ChatRec
  BY DEF ConvInductive, ConvTyped
<1>1. ConversationsTypeOK
  <2>1. \A s \in Seq(Message) : Range(s) \subseteq Message
    BY DEF Range
  <2>2. QED
    BY <1>t, <2>1 DEF ConvTyped, ConversationsTypeOK, ChatRec
<1>2. \A k \in ChatCalls : chat[k].at = "idle" => ~HasSpoken(k)
  BY DEF HasSpoken
<1>3. LossNeedsCrossing
  <2>1. SUFFICES ASSUME NEW k \in ChatCalls, NEW c, c = chat[k].conv, c \notin interleaved, HasSpoken(k)
                 PROVE  /\ QuestionOf(k) \in Range(messages[c])
                        /\ chat[k].at = "answered" =>
                               \E n \in 1..(Len(messages[c]) - 1) :
                                   messages[c][n] = QuestionOf(k) /\ messages[c][n + 1] = AnswerTo(k)
    BY DEF LossNeedsCrossing, Says, HasSpoken
  <2>2. QED
    BY <1>t, <1>2, <2>1 DEF AskedInOrder, Answered, InTurn
<1>4. NothingSaidTwice /\ NoMixing
  <2>1. \A c \in Conversation : messages[c] \in Seq(Message) /\ FitsIn(messages[c], c)
    BY <1>t DEF ConvTyped, AllFit
  <2>2. QED
    BY <2>1 DEF NothingSaidTwice, NoMixing, FitsIn, Says
<1>5. AskedWithTheStory
  <2>1. SUFFICES ASSUME NEW k \in ChatCalls, NEW c, c = chat[k].conv, sentPrompt[k] # <<>>,
                        c \notin interleaved
                 PROVE  /\ Last(sentPrompt[k]) = QuestionOf(k)
                        /\ \A m \in Range(messages[c]) :
                               m.role = "user" /\ m.of # k =>
                                   \/ m \in Range(sentPrompt[k])
                                   \/ QuestionOf(k) \in Range(sentPrompt[m.of])
                                   \/ sentPrompt[m.of] = <<>>
    BY DEF AskedWithTheStory
  <2>2. chat[k].at # "idle" /\ c \in Conversation
    BY <1>t, <2>1 DEF SentAfterSpeaking, ConvTyped
  <2>3. ASSUME NEW m \in Range(messages[c]), m.role = "user"
        PROVE  m.of \in ChatCalls /\ m = QuestionOf(m.of)
    <3>1. m \in Message
      BY <1>t, <2>2, <2>3 DEF ConvTyped, Range
    <3>2. QED
      BY <2>3, <3>1 DEF Message, QuestionOf, AnswerTo, System
  <2>4. QED
    BY <1>t, <2>1, <2>2, <2>3 DEF AskedInOrder
<1>6. QED
  BY <1>1, <1>3, <1>4, <1>5 DEF ConversationsInv

\* For any number of calls, identifiers, conversations and prompts: nothing is
\* said twice, no conversation hears of another, and only calls that cross in
\* one conversation lose messages or ask without the story.
THEOREM ConversationsAreKept == ConversationsSpec => []ConversationsInv
  BY ConvStart, ConvStays, ConvInductiveSuffices, PTL DEF ConversationsSpec

-----------------------------------------------------------------------------
(* The chunks of a document *)

Piece == [word : Nat, chars : Nat]

\* The pieces p are a stretch of the words W up to word b, of which only the
\* first may be cut.
Stretch(W, p, b) ==
    /\ p \in Seq(Piece) /\ p # <<>>
    /\ p[1].word \in 1..b /\ Len(p) = b - p[1].word + 1
    /\ \A j \in 2..Len(p) : p[j] = W[p[1].word + j - 1]

\* The first pieces of a chunk, which it has from the one before.
RepeatFits(over, again, before) ==
    /\ Length(again) <= over
    /\ before # <<>> =>
          \/ IsSuffix(again, before)
          \/ Len(again) = 1 /\ again[1].word = Last(before).word

\* Chunk c of the document repeats k pieces of the chunk before and goes on
\* from word e to b.
ChunkFits(doc, c, before, e, k, b) ==
    /\ c \in Seq(Piece) /\ k \in 0..Len(c) - 1
    /\ e \in Nat /\ b \in e + 1..Len(doc.words)
    /\ Behind(c, k) = SubSeq(doc.words, e + 1, b)
    /\ RepeatFits(doc.overlap, SubSeq(c, 1, k), before)
    /\ Length(c) > doc.size => Behind(c, k) \in doc.sentences

\* What chunk i of chs has before it, where it ends, and how much it repeats.
BeforeIn(chs, i)   == IF i = 1 THEN <<>> ELSE chs[i - 1]
EndIn(chs, i)      == IF i = 0 THEN 0 ELSE Last(chs[i]).word
RepeatedIn(sts, i) == IF i = 1 THEN 0 ELSE sts[i - 1]

ChunksFit(doc, chs, sts) ==
    /\ chs \in Seq(Seq(Piece)) /\ sts \in Seq(Nat)
    /\ \A i \in 1..Len(chs) :
          ChunkFits(doc, chs[i], BeforeIn(chs, i), EndIn(chs, i - 1), RepeatedIn(sts, i), EndIn(chs, i))

\* The chunk in the making goes up to b, and is too long only with sentence s
\* alone behind what it repeats.
CurrentFits(doc, cur, s, b, chs, sts) ==
    LET i == Len(chs) + 1 IN
    /\ Stretch(doc.words, cur, b)
    /\ ChunkFits(doc, Trimmed(cur), BeforeIn(chs, i), EndIn(chs, i - 1), RepeatedIn(sts, i), b)
    /\ Length(cur) > doc.size => Behind(Trimmed(cur), RepeatedIn(sts, i)) = s

Document == [words |-> Words, sentences |-> {Sentence(s) : s \in DOMAIN text.ends},
             size |-> size, overlap |-> chunkOverlap]

SentencesFit ==
    /\ taken \in 0..Len(text.ends)
    /\ ChunksFit(Document, chunks, starts)
    /\ IF cutDone THEN EndIn(chunks, Len(chunks)) = Len(Words)
       ELSE /\ Len(starts) = Len(chunks)
            /\ IF taken = 0 THEN current = <<>> /\ chunks = <<>>
               ELSE CurrentFits(Document, current, Sentence(taken), SentenceEnd(taken), chunks, starts)

\* By words: the last word of the chunk that starts with a, of p words if
\* there are so many up to n, and the first of the next, which repeats v.
LastFrom(n, p, a) == IF a + p > n + 1 THEN n ELSE a + p - 1
NextFrom(n, p, v, a) ==
    IF LastFrom(n, p, a) + 1 - v <= a THEN a + 1 ELSE LastFrom(n, p, a) + 1 - v

FirstIn(chs, i) == chs[i][1].word
StartIn(n, p, v, chs, i) == IF i = 1 THEN 1 ELSE NextFrom(n, p, v, FirstIn(chs, i - 1))

\* Each chunk has the words from its start, which is before those of later
\* chunks, and all words before the next start are in a chunk.
WordChunksFit(W, p, v, chs, next) ==
    LET n == Len(W) IN
    /\ chs \in Seq(Seq(Piece))
    /\ \A i \in 1..Len(chs) :
          /\ FirstIn(chs, i) \in 1..n /\ FirstIn(chs, i) < next
          /\ FirstIn(chs, i) = StartIn(n, p, v, chs, i)
          /\ chs[i] = SubSeq(W, FirstIn(chs, i), LastFrom(n, p, FirstIn(chs, i)))
          /\ \A j \in 1..i - 1 : FirstIn(chs, j) < FirstIn(chs, i)
    /\ next = StartIn(n, p, v, chs, Len(chs) + 1)
    /\ \A w \in 1..n : w < next =>
          \E i \in 1..Len(chs) : w \in FirstIn(chs, i)..LastFrom(n, p, FirstIn(chs, i))

TokensFit ==
    /\ taken \in Nat \ {0}
    /\ WordChunksFit(Words, WordsPerChunk, OverlapWords, chunks, taken)
    /\ cutDone => taken > Len(Words)

ChunkerInductive ==
    /\ text \in Texts /\ size \in Nat /\ chunkOverlap \in Nat
    /\ method \in {"sentence", "token"} /\ cutDone \in BOOLEAN
    /\ method = "sentence" => SentencesFit
    /\ method = "token" => TokensFit

-----------------------------------------------------------------------------
(* The characters of a sequence of pieces *)

\* Among some naturals there is a smallest one.
LEMMA LeastOf ==
    ASSUME NEW S \in SUBSET Nat, S # {}
    PROVE  \E m \in S : \A n \in S : m <= n
<1>1. \E m \in S : \A n \in S : ~(<<n, m>> \in OpToRel(<, Nat))
  BY WFMin, NatLessThanWellFounded, Zenon
<1>2. \A m, n \in Nat : <<n, m>> \in OpToRel(<, Nat) <=> n < m
  BY Zenon DEF OpToRel
<1>3. \A m, n \in Nat : ~(n < m) => m <= n
  BY SMT
<1>4. QED
  BY <1>1, <1>2, <1>3, Zenon

\* What holds of 0, and of n + 1 whenever of n, holds of all up to N.
LEMMA UpTo ==
    ASSUME NEW N \in Nat, NEW G, 0 \in G, \A n \in 0..N : n # N /\ n \in G => n + 1 \in G
    PROVE  \A n \in 0..N : n \in G
<1> DEFINE S == {n \in 0..N : n \notin G}
<1>1. SUFFICES ASSUME S # {} PROVE FALSE
  OBVIOUS
<1>2. S \in SUBSET Nat
  BY SMT
<1> HIDE DEF S
<1>3. PICK m \in S : \A n \in S : m <= n
  BY <1>1, <1>2, LeastOf, Zenon
<1>4. m \in 0..N /\ m \notin G
  BY <1>3 DEF S
<1>5. m # 0
  BY <1>4
<1>6. m - 1 \in 0..N /\ m - 1 # N /\ (m - 1) + 1 = m /\ ~(m <= m - 1)
  BY <1>4, <1>5, SMT
<1>7. m - 1 \in G
  BY <1>3, <1>6, Zenon DEF S
<1>8. QED
  BY <1>4, <1>6, <1>7, Zenon

\* g[k] is the sum of the characters of the first k pieces, for k up to N.
IsSumming(g, pieces, N) ==
    g = [k \in 0..N |-> IF k = 0 THEN 0 ELSE g[k - 1] + pieces[k].chars]

LEMMA SummingExists ==
    ASSUME NEW N \in Nat, NEW pieces
    PROVE  \E g : IsSumming(g, pieces, N)
<1> DEFINE G == {n \in 0..N : \E g : IsSumming(g, pieces, n)}
<1>1. 0 \in G
  <2> DEFINE g == [k \in 0..0 |-> 0]
  <2>1. IsSumming(g, pieces, 0)
    BY DEF IsSumming
  <2>2. QED
    BY <2>1
<1>2. ASSUME NEW n \in 0..N, n # N, n \in G PROVE n + 1 \in G
  <2>1. PICK g : IsSumming(g, pieces, n)
    BY <1>2
  <2> DEFINE h == [k \in 0..(n + 1) |-> IF k = n + 1 THEN g[n] + pieces[n + 1].chars ELSE g[k]]
  <2>2. n \in Nat /\ n + 1 \in 0..N /\ n + 1 # 0 /\ (n + 1) - 1 = n /\ n \in 0..(n + 1) /\ n # n + 1
    BY <1>2, SMT
  <2>3. ASSUME NEW k \in 0..(n + 1)
        PROVE  h[k] = IF k = 0 THEN 0 ELSE h[k - 1] + pieces[k].chars
    <3>1. CASE k = n + 1
      BY <2>2, <3>1
    <3>2. CASE k # n + 1
      <4>1. k \in 0..n /\ (k # 0 => k - 1 \in 0..(n + 1) /\ k - 1 # n + 1)
        BY <2>2, <2>3, <3>2, SMT
      <4>2. g[k] = IF k = 0 THEN 0 ELSE g[k - 1] + pieces[k].chars
        BY <2>1, <4>1 DEF IsSumming
      <4>3. h[k] = g[k] /\ (k # 0 => h[k - 1] = g[k - 1])
        BY <3>2, <4>1
      <4>4. QED
        BY <4>2, <4>3
    <3>3. QED
      BY <3>1, <3>2
  <2>4. IsSumming(h, pieces, n + 1)
    BY <2>3, Zenon DEF IsSumming
  <2>5. QED
    BY <2>2, <2>4
<1> HIDE DEF G
<1>3. \A n \in 0..N : n \in G
  BY <1>1, <1>2, UpTo, Zenon
<1>4. N \in 0..N
  BY SMT
<1>5. QED
  BY <1>3, <1>4 DEF G

\* Chars adds the characters of the pieces one by one.
LEMMA CharsIs ==
    ASSUME NEW pieces, Len(pieces) \in Nat
    PROVE  \E g : IsSumming(g, pieces, Len(pieces)) /\ Chars(pieces) = g[Len(pieces)]
<1> DEFINE h == CHOOSE g : g = [k \in 0..Len(pieces) |-> IF k = 0 THEN 0 ELSE g[k - 1] + pieces[k].chars]
<1>1. \E g : g = [k \in 0..Len(pieces) |-> IF k = 0 THEN 0 ELSE g[k - 1] + pieces[k].chars]
  <2>1. \E g : IsSumming(g, pieces, Len(pieces))
    BY SummingExists, Zenon
  <2>2. QED
    BY <2>1, Zenon DEF IsSumming
<1>2. h = [k \in 0..Len(pieces) |-> IF k = 0 THEN 0 ELSE h[k - 1] + pieces[k].chars]
  BY <1>1, Zenon
<1>3. Chars(pieces) = h[Len(pieces)]
  BY DEF Chars
<1>4. QED
  BY <1>2, <1>3, Zenon DEF IsSumming

\* The sums over two sequences agree as far as the sequences do.
LEMMA SumsAgree ==
    ASSUME NEW N \in Nat, NEW M \in Nat, N <= M, NEW g, NEW h, NEW p, NEW q,
           IsSumming(g, p, N), IsSumming(h, q, M), \A k \in 1..N : p[k] = q[k]
    PROVE  g[N] = h[N]
<1> DEFINE G == {k \in 0..N : g[k] = h[k]}
<1>1. 0 \in G
  BY SMT DEF IsSumming
<1>2. ASSUME NEW n \in 0..N, n # N, n \in G PROVE n + 1 \in G
  <2>1. n + 1 \in 0..N /\ n + 1 \in 0..M /\ n + 1 \in 1..N /\ n + 1 # 0 /\ (n + 1) - 1 = n
    BY <1>2, SMT
  <2>2. g[n + 1] = g[n] + p[n + 1].chars
    BY <2>1 DEF IsSumming
  <2>3. h[n + 1] = h[n] + q[n + 1].chars
    BY <2>1 DEF IsSumming
  <2>4. QED
    BY <1>2, <2>1, <2>2, <2>3
<1> HIDE DEF G
<1>3. \A n \in 0..N : n \in G
  BY <1>1, <1>2, UpTo, Zenon
<1>4. N \in 0..N
  BY SMT
<1>5. QED
  BY <1>3, <1>4 DEF G

LEMMA CharsOfNothing == Chars(<<>>) = 0
<1>1. Len(<<>>) = 0
  OBVIOUS
<1>2. PICK g : IsSumming(g, <<>>, Len(<<>>)) /\ Chars(<<>>) = g[Len(<<>>)]
  BY <1>1, CharsIs
<1>3. QED
  BY <1>1, <1>2 DEF IsSumming

LEMMA CharsAppend ==
    ASSUME NEW p \in Seq(Piece), NEW x \in Piece
    PROVE  Chars(Append(p, x)) = Chars(p) + x.chars
<1> DEFINE q == Append(p, x)  n == Len(p)
<1>1. /\ n \in Nat /\ Len(q) = n + 1 /\ q[n + 1] = x
      /\ \A i \in 1..n : q[i] = p[i]
  BY AppendProperties
<1> HIDE DEF q, n
<1>2. PICK g : IsSumming(g, p, n) /\ Chars(p) = g[n]
  BY <1>1, CharsIs DEF n
<1>3. PICK h : IsSumming(h, q, n + 1) /\ Chars(q) = h[n + 1]
  BY <1>1, CharsIs
<1>4. g[n] = h[n]
  <2>1. n + 1 \in Nat /\ n <= n + 1 /\ \A k \in 1..n : p[k] = q[k]
    BY <1>1
  <2>2. QED
    BY <1>1, <1>2, <1>3, <2>1, SumsAgree
<1>5. h[n + 1] = h[n] + q[n + 1].chars
  <2>1. n + 1 \in 0..(n + 1) /\ n + 1 # 0 /\ (n + 1) - 1 = n
    BY <1>1
  <2>2. QED
    BY <1>3, <2>1 DEF IsSumming
<1>6. QED
  BY <1>1, <1>2, <1>3, <1>4, <1>5 DEF q

LEMMA CharsNat ==
    ASSUME NEW p \in Seq(Piece)
    PROVE  Chars(p) \in Nat
<1> DEFINE N == Len(p)
<1>1. N \in Nat /\ \A k \in 1..N : p[k].chars \in Nat
  <2>1. \A k \in 1..N : p[k] \in Piece
    BY ElementOfSeq
  <2>2. QED
    BY <2>1 DEF Piece
<1>2. PICK g : IsSumming(g, p, N) /\ Chars(p) = g[N]
  BY <1>1, CharsIs
<1> HIDE DEF N
<1> DEFINE G == {k \in 0..N : g[k] \in Nat}
<1>3. 0 \in G
  BY <1>1, <1>2 DEF IsSumming
<1>4. ASSUME NEW n \in 0..N, n # N, n \in G PROVE n + 1 \in G
  <2>1. n + 1 \in 0..N /\ n + 1 \in 1..N /\ n + 1 # 0 /\ (n + 1) - 1 = n
    BY <1>1, <1>4, SMT
  <2>2. g[n + 1] = g[n] + p[n + 1].chars
    BY <1>2, <2>1 DEF IsSumming
  <2>3. QED
    BY <1>1, <1>4, <2>1, <2>2
<1> HIDE DEF G
<1>5. \A n \in 0..N : n \in G
  BY <1>1, <1>3, <1>4, UpTo, Zenon
<1>6. N \in 0..N
  BY <1>1, SMT
<1>7. QED
  BY <1>2, <1>5, <1>6 DEF G

LEMMA CharsConcat ==
    ASSUME NEW p \in Seq(Piece), NEW q \in Seq(Piece)
    PROVE  Chars(p \o q) = Chars(p) + Chars(q)
<1> DEFINE N == Len(q)
           G == {n \in 0..N : Chars(p \o SubSeq(q, 1, n)) = Chars(p) + Chars(SubSeq(q, 1, n))}
<1>1. N \in Nat
  OBVIOUS
<1>2. 0 \in G
  <2> DEFINE z == SubSeq(q, 1, 0)
  <2>1. z = <<>>
    BY SubSeqEmpty
  <2> HIDE DEF z
  <2>2. p \o z = p /\ Chars(z) = 0
    BY <2>1, ConcatEmptySeq, CharsOfNothing
  <2>3. Chars(p) \in Nat /\ 0 \in 0..N
    BY <1>1, CharsNat
  <2>4. Chars(p \o z) = Chars(p) + Chars(z)
    BY <2>2, <2>3
  <2>5. QED
    BY <2>3, <2>4 DEF z
<1>3. ASSUME NEW n \in 0..N, n # N, n \in G PROVE n + 1 \in G
  <2> DEFINE f == SubSeq(q, 1, n)  x == q[n + 1]
  <2>1. n + 1 \in 0..N /\ n + 1 \in 1..N /\ n \in 0..N /\ 1 \in 1..N /\ (n + 1) - 1 = n
    BY <1>1, <1>3, SMT
  <2>2. f \in Seq(Piece) /\ x \in Piece
    BY <1>1, <1>3, <2>1, SubSeqProperties
  <2>3. SubSeq(q, 1, n + 1) = Append(f, x)
    <3>1. n + 1 \in 1..Len(q) /\ 1 \in 1..Len(q)
      BY <2>1
    <3>2. SubSeq(q, 1, n + 1) = SubSeq(q, 1, (n + 1) - 1) \o <<q[n + 1]>>
      BY <3>1, SubSeqRecursiveSecond
    <3>3. Append(f, x) = f \o <<x>>
      BY <2>2, AppendIsConcat
    <3>4. QED
      BY <2>1, <3>2, <3>3
  <2> HIDE DEF f, x
  <2>4. p \o Append(f, x) = Append(p \o f, x)
    <3>1. <<x>> \in Seq(Piece) /\ p \o f \in Seq(Piece)
      BY <2>2
    <3>2. Append(f, x) = f \o <<x>> /\ Append(p \o f, x) = (p \o f) \o <<x>>
      BY <2>2, <3>1, AppendIsConcat
    <3>3. QED
      BY <2>2, <3>1, <3>2, ConcatAssociative
  <2>5. Chars(p \o f) = Chars(p) + Chars(f)
    BY <1>3 DEF f
  <2>6. Chars(Append(p \o f, x)) = Chars(p \o f) + x.chars /\ Chars(Append(f, x)) = Chars(f) + x.chars
    <3>1. p \o f \in Seq(Piece)
      BY <2>2
    <3>2. QED
      BY <2>2, <3>1, CharsAppend
  <2>7. Chars(p) \in Nat /\ Chars(f) \in Nat /\ x.chars \in Nat
    BY <2>2, CharsNat DEF Piece
  <2>8. Chars(Append(p \o f, x)) = Chars(p) + Chars(Append(f, x))
    BY <2>5, <2>6, <2>7
  <2>9. Chars(p \o SubSeq(q, 1, n + 1)) = Chars(p) + Chars(SubSeq(q, 1, n + 1))
    BY <2>3, <2>4, <2>8
  <2>10. QED
    BY <2>1, <2>9
<1> HIDE DEF G
<1>4. \A n \in 0..N : n \in G
  BY <1>1, <1>2, <1>3, UpTo, Zenon
<1>5. N \in 0..N /\ SubSeq(q, 1, N) = q
  BY <1>1, SubSeqFull
<1>6. QED
  BY <1>4, <1>5 DEF G

\* The length of one piece, of nothing, and of two texts with a space between.
LEMMA LengthNat == ASSUME NEW p \in Seq(Piece) PROVE Length(p) \in Nat
<1>1. Chars(p) \in Nat /\ Len(p) \in Nat /\ (p # <<>> => Len(p) # 0)
  BY CharsNat
<1>2. QED
  BY <1>1 DEF Length

LEMMA LengthOfNothing == Length(<<>>) = 0
  BY CharsOfNothing DEF Length

LEMMA LengthOfOne == ASSUME NEW x \in Piece PROVE Length(<<x>>) = x.chars
<1>1. Append(<<>>, x) = <<x>> /\ <<>> \in Seq(Piece) /\ x.chars \in Nat
  BY DEF Piece
<1>2. Chars(<<x>>) = 0 + x.chars
  BY <1>1, CharsAppend, CharsOfNothing
<1>3. QED
  BY <1>1, <1>2 DEF Length

LEMMA LengthConcat ==
    ASSUME NEW p \in Seq(Piece), NEW q \in Seq(Piece), p # <<>>, q # <<>>
    PROVE  Length(p \o q) = Length(p) + 1 + Length(q)
<1>1. Chars(p \o q) = Chars(p) + Chars(q)
  BY CharsConcat
<1>2. p \o q # <<>> /\ Len(p \o q) = Len(p) + Len(q)
  BY ConcatEqualIffEmpty
<1>3. Chars(p) \in Nat /\ Chars(q) \in Nat /\ Len(p) \in Nat /\ Len(q) \in Nat
  BY CharsNat
<1>4. QED
  BY <1>1, <1>2, <1>3 DEF Length
-----------------------------------------------------------------------------
(* The end of a text *)

LEMMA BehindIs ==
    ASSUME NEW p \in Seq(Piece), NEW k \in 0..Len(p)
    PROVE  /\ Behind(p, k) \in Seq(Piece) /\ Len(Behind(p, k)) = Len(p) - k
           /\ \A j \in 1..Len(p) - k : Behind(p, k)[j] = p[k + j]
           /\ Behind(p, k) = <<>> <=> k = Len(p)
<1>1. Len(p) \in Nat /\ k \in Nat /\ k <= Len(p) /\ k + 1 \in Int
  OBVIOUS
<1>2. \A i \in k + 1..Len(p) : p[i] \in Piece
  BY <1>1, ElementOfSeq
<1>3. /\ SubSeq(p, k + 1, Len(p)) \in Seq(Piece)
      /\ Len(SubSeq(p, k + 1, Len(p))) = IF k + 1 <= Len(p) THEN Len(p) - (k + 1) + 1 ELSE 0
      /\ \A i \in 1..Len(p) - (k + 1) + 1 : SubSeq(p, k + 1, Len(p))[i] = p[k + 1 + i - 1]
  BY <1>1, <1>2, SubSeqProperties
<1> DEFINE s == SubSeq(p, k + 1, Len(p))
<1> HIDE DEF s
<1>4. s \in Seq(Piece) /\ Len(s) = Len(p) - k /\ \A j \in 1..Len(p) - k : s[j] = p[k + j]
  BY <1>1, <1>3 DEF s
<1>5. s = <<>> <=> Len(s) = 0
  BY <1>4, EmptySeq
<1>6. QED
  BY <1>1, <1>4, <1>5 DEF s, Behind

\* Two sequences of pieces with the same pieces are the same.
LEMMA SamePieces ==
    ASSUME NEW p \in Seq(Piece), NEW q \in Seq(Piece), Len(p) = Len(q),
           \A j \in 1..Len(p) : p[j] = q[j]
    PROVE  p = q
  BY SeqEqual

LEMMA BehindNothing == ASSUME NEW p \in Seq(Piece) PROVE Behind(p, 0) = p
  BY SubSeqFull DEF Behind

LEMMA BehindBehind ==
    ASSUME NEW p \in Seq(Piece), NEW k \in 0..Len(p), NEW m \in k..Len(p)
    PROVE  Behind(Behind(p, k), m - k) = Behind(p, m)
<1>1. Len(p) \in Nat /\ k \in Nat /\ m \in Nat /\ m \in 0..Len(p) /\ m - k \in 0..Len(p) - k
  OBVIOUS
<1> DEFINE s == Behind(p, k)
<1>2. s \in Seq(Piece) /\ Len(s) = Len(p) - k /\ \A j \in 1..Len(p) - k : s[j] = p[k + j]
  BY BehindIs
<1> HIDE DEF s
<1>3. /\ Behind(s, m - k) \in Seq(Piece) /\ Len(Behind(s, m - k)) = Len(s) - (m - k)
      /\ \A j \in 1..Len(s) - (m - k) : Behind(s, m - k)[j] = s[(m - k) + j]
  <2>1. s \in Seq(Piece) /\ m - k \in 0..Len(s)
    BY <1>1, <1>2
  <2>2. QED
    BY <2>1, BehindIs
<1>4. /\ Behind(p, m) \in Seq(Piece) /\ Len(Behind(p, m)) = Len(p) - m
      /\ \A j \in 1..Len(p) - m : Behind(p, m)[j] = p[m + j]
  BY <1>1, BehindIs
<1>5. Len(Behind(s, m - k)) = Len(p) - m
  BY <1>1, <1>2, <1>3
<1>6. ASSUME NEW j \in 1..Len(p) - m PROVE Behind(s, m - k)[j] = Behind(p, m)[j]
  <2>1. j \in 1..Len(s) - (m - k) /\ (m - k) + j \in 1..Len(p) - k /\ k + ((m - k) + j) = m + j
    <3> DEFINE n == Len(p)
    <3> HIDE DEF n
    <3>1. n \in Nat /\ Len(s) = n - k /\ j \in 1..n - m
      BY <1>1, <1>2 DEF n
    <3>2. j \in 1..Len(s) - (m - k) /\ (m - k) + j \in 1..n - k /\ k + ((m - k) + j) = m + j
      BY <1>1, <3>1
    <3>3. QED
      BY <3>2 DEF n
  <2>2. QED
    BY <1>2, <1>3, <1>4, <2>1
<1>7. QED
  BY <1>3, <1>4, <1>5, <1>6, SamePieces DEF s

LEMMA BehindNext ==
    ASSUME NEW p \in Seq(Piece), NEW k \in 1..Len(p)
    PROVE  Behind(p, k - 1) = <<p[k]>> \o Behind(p, k)
<1>1. Len(p) \in k..Len(p) /\ (k - 1) + 1 = k
  OBVIOUS
<1>2. SubSeq(p, k, Len(p)) = <<p[k]>> \o SubSeq(p, k + 1, Len(p))
  BY <1>1, SubSeqRecursiveFirst
<1>3. QED
  BY <1>1, <1>2 DEF Behind

\* A piece before a text adds its characters and, before a piece, a space.
LEMMA LengthWith ==
    ASSUME NEW x \in Piece, NEW q \in Seq(Piece)
    PROVE  /\ <<x>> \o q \in Seq(Piece) /\ <<x>> \o q # <<>>
           /\ q = <<>> => Length(<<x>> \o q) = x.chars
           /\ q # <<>> => Length(<<x>> \o q) = x.chars + 1 + Length(q)
<1>1. <<x>> \in Seq(Piece) /\ <<x>> # <<>>
  OBVIOUS
<1>2. <<x>> \o q \in Seq(Piece) /\ <<x>> \o q # <<>>
  BY <1>1, ConcatEqualIffEmpty
<1>3. q = <<>> => <<x>> \o q = <<x>>
  BY <1>1, ConcatEmptySeq
<1>4. QED
  BY <1>1, <1>2, <1>3, LengthOfOne, LengthConcat

LEMMA LengthBehind ==
    ASSUME NEW p \in Seq(Piece), NEW k \in 1..Len(p)
    PROVE  /\ p[k] \in Piece /\ p[k].chars \in Nat
           /\ Length(Behind(p, k)) \in Nat /\ Length(Behind(p, k - 1)) \in Nat
           /\ k = Len(p) => Length(Behind(p, k - 1)) = p[k].chars
           /\ k # Len(p) => Length(Behind(p, k - 1)) = p[k].chars + 1 + Length(Behind(p, k))
<1>1. p[k] \in Piece
  BY ElementOfSeq
<1>2. k \in 0..Len(p) /\ k - 1 \in 0..Len(p)
  OBVIOUS
<1>3. Behind(p, k) \in Seq(Piece) /\ Behind(p, k - 1) \in Seq(Piece)
      /\ (Behind(p, k) = <<>> <=> k = Len(p))
  BY <1>2, BehindIs
<1>4. Behind(p, k - 1) = <<p[k]>> \o Behind(p, k)
  BY BehindNext
<1>5. p[k].chars \in Nat
  BY <1>1 DEF Piece
<1>6. QED
  BY <1>1, <1>3, <1>4, <1>5, LengthWith, LengthNat

\* There is a piece at which the last n characters of a text begin.
LEMMA CutExists ==
    ASSUME NEW p \in Seq(Piece), NEW n \in Nat \ {0}, Length(p) >= n
    PROVE  \E j \in DOMAIN p :
              Length(Behind(p, j - 1)) >= n /\ (j < Len(p) => Length(Behind(p, j)) < n)
<1> DEFINE N == Len(p)
           S == {m \in Nat : m < N /\ Length(Behind(p, N - m - 1)) >= n}
<1>1. N \in Nat /\ N # 0
  <2>1. p # <<>>
    BY LengthOfNothing
  <2>2. QED
    BY <2>1, EmptySeq
<1>2. N - 1 \in S
  <2>1. N - 1 \in Nat /\ N - 1 < N /\ N - (N - 1) - 1 = 0
    BY <1>1
  <2>2. Behind(p, 0) = p
    BY BehindNothing
  <2>3. QED
    BY <2>1, <2>2
<1>3. S \in SUBSET Nat /\ S # {}
  BY <1>2
<1> HIDE DEF S
<1>4. PICK m \in S : \A i \in S : m <= i
  BY <1>3, LeastOf
<1>5. m \in Nat /\ m < N /\ Length(Behind(p, N - m - 1)) >= n
  BY <1>4 DEF S
<1> DEFINE j == N - m
<1>6. j \in 1..N /\ j - 1 = N - m - 1
  BY <1>1, <1>5
<1>7. ASSUME j < N PROVE Length(Behind(p, j)) < n
  <2>1. m - 1 \in Nat /\ m - 1 < N /\ N - (m - 1) - 1 = j /\ ~(m <= m - 1)
    BY <1>1, <1>5, <1>7
  <2>2. m - 1 \notin S
    BY <1>4, <2>1
  <2>3. ~(Length(Behind(p, j)) >= n)
    BY <2>1, <2>2 DEF S
  <2>4. Length(Behind(p, j)) \in Nat
    BY <1>6, LengthBehind
  <2>5. QED
    BY <2>3, <2>4
<1>8. DOMAIN p = 1..N
  OBVIOUS
<1>9. QED
  BY <1>5, <1>6, <1>7, <1>8

\* The last n characters are as long as that: a piece that may be cut, and all
\* behind it.
LEMMA LastCharsIs ==
    ASSUME NEW p \in Seq(Piece), NEW n \in Nat \ {0}, Length(p) >= n
    PROVE  \E k \in 1..Len(p), x \in Piece :
              /\ LastChars(p, n) = <<x>> \o Behind(p, k) /\ Length(LastChars(p, n)) = n
              /\ x.word = p[k].word /\ (k = Len(p) => x.chars = n)
<1> DEFINE Cut(j) == Length(Behind(p, j - 1)) >= n /\ (j < Len(p) => Length(Behind(p, j)) < n)
           k == CHOOSE j \in DOMAIN p : Cut(j)
           left == IF k = Len(p) THEN n ELSE n - 1 - Length(Behind(p, k))
           x == [p[k] EXCEPT !.chars = left]
<1>1. k \in DOMAIN p /\ Cut(k)
  BY CutExists
<1>2. LastChars(p, n) = <<x>> \o Behind(p, k)
  BY DEF LastChars
<1>3. Len(p) \in Nat /\ k \in 1..Len(p)
  BY <1>1
<1> HIDE DEF k
<1>4. Length(Behind(p, k)) \in Nat /\ p[k] \in Piece
  BY <1>3, LengthBehind
<1>5. left \in Nat
  BY <1>1, <1>3, <1>4
<1> HIDE DEF left
<1>6. x \in Piece /\ x.word = p[k].word /\ x.chars = left
  BY <1>4, <1>5 DEF Piece
<1> HIDE DEF x
<1>7. Behind(p, k) \in Seq(Piece) /\ (Behind(p, k) = <<>> <=> k = Len(p))
  BY <1>3, BehindIs
<1>8. Length(<<x>> \o Behind(p, k)) = n
  <2>1. CASE k = Len(p)
    BY <1>6, <1>7, <2>1, LengthWith DEF left
  <2>2. CASE k # Len(p)
    <3>1. Length(<<x>> \o Behind(p, k)) = left + 1 + Length(Behind(p, k))
      BY <1>6, <1>7, <2>2, LengthWith
    <3>2. left = n - 1 - Length(Behind(p, k))
      BY <2>2 DEF left
    <3>3. QED
      BY <1>4, <1>5, <3>1, <3>2
  <2>3. QED
    BY <2>1, <2>2
<1>9. k = Len(p) => x.chars = n
  BY <1>6 DEF left
<1>10. QED
  BY <1>2, <1>3, <1>6, <1>8, <1>9
-----------------------------------------------------------------------------
(* Stretches of the text *)

\* What is behind a place of a sequence is a suffix of it.
LEMMA SuffixIs ==
    ASSUME NEW t \in Seq(Piece), NEW k \in 0..Len(t)
    PROVE  IsSuffix(Behind(t, k), t)
<1> DEFINE s == Behind(t, k)  n == Len(t)  m == n - k
           r == [i \in 1..m |-> s[(m - i) + 1]]  q == [i \in 1..n |-> t[(n - i) + 1]]
<1>1. n \in Nat /\ k \in Nat /\ m \in Nat /\ m <= n /\ k + m = n
  OBVIOUS
<1>2. s \in Seq(Piece) /\ Len(s) = m /\ \A j \in 1..m : s[j] = t[k + j]
  BY BehindIs
<1> HIDE DEF s
<1>3. Reverse(s) = r /\ Reverse(t) = q
  BY <1>2 DEF Reverse
<1> HIDE DEF m
<1>4. \A i \in 1..m : s[(m - i) + 1] \in Piece
  <2>1. \A i \in 1..m : (m - i) + 1 \in 1..m
    BY <1>1
  <2>2. QED
    BY <1>2, <2>1, ElementOfSeq
<1>5. \A i \in 1..n : t[(n - i) + 1] \in Piece
  <2>1. \A i \in 1..n : (n - i) + 1 \in 1..n
    BY <1>1
  <2>2. QED
    BY <2>1, ElementOfSeq
<1>6. r \in Seq(Piece) /\ Len(r) = m /\ q \in Seq(Piece) /\ Len(q) = n
  <2>1. r \in Seq(Piece) /\ Len(r) = m
    BY <1>1, <1>4
  <2>2. q \in Seq(Piece) /\ Len(q) = n
    BY <1>1, <1>5
  <2>3. QED
    BY <2>1, <2>2
<1>7. \A i \in 1..m : r[i] = q[i]
  <2>1. TAKE i \in 1..m
  <2>2. (m - i) + 1 \in 1..m /\ i \in 1..n /\ k + ((m - i) + 1) = (n - i) + 1
    BY <1>1
  <2>3. QED
    BY <1>2, <2>2
<1> HIDE DEF r, q, n
<1>8. SubSeq(r, 1, m) \in Seq(Piece) /\ Len(SubSeq(r, 1, m)) = m
      /\ \A i \in 1..m : SubSeq(r, 1, m)[i] = r[i]
  <2>1. \A i \in 1..m : r[i] \in Piece
    BY <1>6, ElementOfSeq
  <2>2. SubSeq(r, 1, m) \in Seq(Piece) /\ Len(SubSeq(r, 1, m)) = (IF 1 <= m THEN m - 1 + 1 ELSE 0)
        /\ \A i \in 1..m - 1 + 1 : SubSeq(r, 1, m)[i] = r[1 + i - 1]
    BY <1>1, <2>1, SubSeqProperties
  <2>3. m - 1 + 1 = m /\ \A i \in 1..m : 1 + i - 1 = i
    BY <1>1
  <2>4. QED
    BY <1>1, <2>2, <2>3
<1>9. SubSeq(q, 1, m) \in Seq(Piece) /\ Len(SubSeq(q, 1, m)) = m
      /\ \A i \in 1..m : SubSeq(q, 1, m)[i] = q[i]
  <2>1. \A i \in 1..m : q[i] \in Piece
    BY <1>1, <1>6, ElementOfSeq
  <2>2. SubSeq(q, 1, m) \in Seq(Piece) /\ Len(SubSeq(q, 1, m)) = (IF 1 <= m THEN m - 1 + 1 ELSE 0)
        /\ \A i \in 1..m - 1 + 1 : SubSeq(q, 1, m)[i] = q[1 + i - 1]
    BY <1>1, <2>1, SubSeqProperties
  <2>3. m - 1 + 1 = m /\ \A i \in 1..m : 1 + i - 1 = i
    BY <1>1
  <2>4. QED
    BY <1>1, <2>2, <2>3
<1>10. SubSeq(r, 1, m) = SubSeq(q, 1, m)
  <2>1. \A i \in 1..m : SubSeq(r, 1, m)[i] = SubSeq(q, 1, m)[i]
    BY <1>7, <1>8, <1>9
  <2>2. QED
    BY <1>8, <1>9, <2>1, SamePieces
<1>11. QED
  BY <1>1, <1>3, <1>6, <1>10 DEF IsSuffix, IsPrefix, s

\* The words of a document as pieces: whole, and numbered as they come.
IsText(W) == W \in Seq(Piece) /\ \A j \in 1..Len(W) : W[j].word = j /\ W[j].chars # 0

LEMMA WordsAreText == ASSUME text \in Texts PROVE IsText(Words) /\ Len(Words) = Len(text.words)
<1>1. text.words \in Seq(Nat \ {0})
  BY TextsAssumption
<1> DEFINE n == Len(text.words)
<1>2. n \in Nat /\ DOMAIN text.words = 1..n /\ \A w \in 1..n : text.words[w] \in Nat \ {0}
  BY <1>1
<1> HIDE DEF n
<1>3. Words = [w \in 1..n |-> [word |-> w, chars |-> text.words[w]]]
  BY <1>2 DEF Words
<1>4. \A w \in 1..n : [word |-> w, chars |-> text.words[w]] \in Piece
  BY <1>2 DEF Piece
<1>5. Words \in Seq(Piece) /\ Len(Words) = n
  BY <1>2, <1>3, <1>4
<1>6. \A j \in 1..n : Words[j].word = j /\ Words[j].chars # 0
  BY <1>2, <1>3
<1>7. QED
  BY <1>5, <1>6 DEF IsText, n

\* The end of a stretch is a stretch, of whole words unless it is all of it.
LEMMA StretchBehind ==
    ASSUME NEW W, IsText(W), NEW b \in 0..Len(W), NEW p, Stretch(W, p, b), NEW k \in 1..Len(p) - 1
    PROVE  /\ Stretch(W, Behind(p, k), b) /\ Behind(p, k)[1].chars # 0
           /\ k \in 0..Len(p)
<1>1. /\ p \in Seq(Piece) /\ p # <<>> /\ p[1].word \in 1..b /\ Len(p) = b - p[1].word + 1
      /\ \A j \in 2..Len(p) : p[j] = W[p[1].word + j - 1]
  BY DEF Stretch
<1>2. W \in Seq(Piece) /\ Len(W) \in Nat /\ \A j \in 1..Len(W) : W[j].word = j /\ W[j].chars # 0
  BY DEF IsText
<1> DEFINE n == Len(p)  a == p[1].word  c == Len(W)  s == Behind(p, k)
<1>3. n \in Nat /\ k \in Nat /\ k \in 0..n
  BY <1>1
<1>4. s \in Seq(Piece) /\ Len(s) = n - k /\ \A j \in 1..n - k : s[j] = p[k + j]
  BY <1>1, <1>3, BehindIs
<1> HIDE DEF n, a, c, s
<1>5. n \in Nat /\ k \in 1..n - 1 /\ b \in 0..c /\ c \in Nat /\ a \in 1..b /\ n = b - a + 1
  BY <1>1, <1>2, <1>3 DEF n, a, c
<1>6. \A j \in 2..n : p[j] = W[a + j - 1]
  BY <1>1 DEF n, a
<1>7. s[1] = p[k + 1] /\ p[k + 1] = W[a + k] /\ a + k \in 1..b /\ a + k \in 1..c
  <2>1. 1 \in 1..n - k /\ k + 1 \in 2..n /\ a + (k + 1) - 1 = a + k /\ a + k \in 1..b /\ a + k \in 1..c
    BY <1>5
  <2>2. QED
    BY <1>4, <1>6, <2>1
<1>8. s[1].word = a + k /\ s[1].chars # 0
  BY <1>2, <1>7 DEF c
<1>9. Len(s) = b - (a + k) + 1
  BY <1>4, <1>5
<1>10. \A j \in 2..n - k : s[j] = W[(a + k) + j - 1]
  <2>1. TAKE j \in 2..n - k
  <2>2. j \in 1..n - k /\ k + j \in 2..n /\ a + (k + j) - 1 = (a + k) + j - 1
    BY <1>5
  <2>3. s[j] = p[k + j] /\ p[k + j] = W[a + (k + j) - 1]
    BY <1>4, <1>6, <2>2
  <2>4. QED
    BY <2>2, <2>3
<1>11. s # <<>>
  BY <1>4, <1>5
<1>12. QED
  BY <1>3, <1>4, <1>7, <1>8, <1>9, <1>10, <1>11 DEF Stretch, s, n

\* The last word of a stretch up to b is b.
LEMMA StretchLast ==
    ASSUME NEW W, IsText(W), NEW b \in 0..Len(W), NEW p, Stretch(W, p, b)
    PROVE  Len(p) \in Nat \ {0} /\ p[Len(p)].word = b
<1>1. /\ p \in Seq(Piece) /\ p # <<>> /\ p[1].word \in 1..b /\ Len(p) = b - p[1].word + 1
      /\ \A j \in 2..Len(p) : p[j] = W[p[1].word + j - 1]
  BY DEF Stretch
<1>2. Len(W) \in Nat /\ \A j \in 1..Len(W) : W[j].word = j
  BY DEF IsText
<1> DEFINE n == Len(p)  a == p[1].word
<1>3. n \in Nat \ {0}
  BY <1>1
<1> HIDE DEF n, a
<1>4. a \in 1..b /\ n = b - a + 1 /\ \A j \in 2..n : p[j] = W[a + j - 1]
  BY <1>1 DEF n, a
<1>5. CASE n = 1
  <2>1. a = b
    BY <1>2, <1>4, <1>5
  <2>2. QED
    BY <1>3, <1>5, <2>1 DEF a, n
<1>6. CASE n # 1
  <2>1. n \in 2..n /\ a + n - 1 = b /\ b \in 1..Len(W)
    BY <1>2, <1>3, <1>4, <1>6
  <2>2. p[n] = W[b] /\ W[b].word = b
    BY <1>2, <1>4, <2>1
  <2>3. QED
    BY <1>3, <2>2 DEF n
<1>7. QED
  BY <1>5, <1>6

\* A piece of a stretch, cut to another length, with what is behind it.
LEMMA StretchCut ==
    ASSUME NEW W, IsText(W), NEW b \in 0..Len(W), NEW p, Stretch(W, p, b), NEW k \in 1..Len(p),
           NEW x \in Piece, x.word = p[k].word
    PROVE  Stretch(W, <<x>> \o Behind(p, k), b)
<1>1. /\ p \in Seq(Piece) /\ p # <<>> /\ p[1].word \in 1..b /\ Len(p) = b - p[1].word + 1
      /\ \A j \in 2..Len(p) : p[j] = W[p[1].word + j - 1]
  BY DEF Stretch
<1>2. Len(W) \in Nat /\ \A j \in 1..Len(W) : W[j].word = j
  BY DEF IsText
<1> DEFINE n == Len(p)  a == p[1].word  c == Len(W)  s == Behind(p, k)  q == <<x>> \o s
<1>3. n \in Nat /\ k \in Nat /\ k \in 0..n
  BY <1>1
<1>4. s \in Seq(Piece) /\ Len(s) = n - k /\ \A j \in 1..n - k : s[j] = p[k + j]
  BY <1>1, <1>3, BehindIs
<1> HIDE DEF s
<1>5. <<x>> \in Seq(Piece) /\ Len(<<x>>) = 1 /\ <<x>>[1] = x
  OBVIOUS
<1>6. q \in Seq(Piece) /\ Len(q) = 1 + (n - k)
      /\ \A i \in 1..1 + (n - k) : q[i] = IF i <= 1 THEN <<x>>[i] ELSE s[i - 1]
  <2>1. q \in Seq(Piece) /\ Len(q) = Len(<<x>>) + Len(s)
        /\ \A i \in 1..Len(<<x>>) + Len(s) : q[i] = IF i <= Len(<<x>>) THEN <<x>>[i] ELSE s[i - Len(<<x>>)]
    BY <1>4, <1>5, ConcatProperties
  <2> HIDE DEF q
  <2>2. QED
    BY <1>4, <1>5, <2>1
<1> HIDE DEF n, a, c, q
<1>7. n \in Nat /\ k \in 1..n /\ b \in 0..c /\ c \in Nat /\ a \in 1..b /\ n = b - a + 1
  BY <1>1, <1>2, <1>3 DEF n, a, c
<1>8. \A j \in 2..n : p[j] = W[a + j - 1]
  BY <1>1 DEF n, a
<1>9. q[1] = x
  <2>1. 1 \in 1..1 + (n - k) /\ 1 <= 1
    BY <1>7
  <2>2. QED
    BY <1>5, <1>6, <2>1
<1>10. x.word = a + k - 1 /\ a + k - 1 \in 1..b
  <2>1. CASE k = 1
    BY <1>7, <2>1 DEF a
  <2>2. CASE k # 1
    <3>1. k \in 2..n /\ a + k - 1 \in 1..c /\ a + k - 1 \in 1..b
      BY <1>7, <2>2
    <3>2. QED
      BY <1>2, <1>8, <3>1 DEF c
  <2>3. QED
    BY <2>1, <2>2
<1>11. Len(q) = b - (a + k - 1) + 1
  BY <1>6, <1>7
<1>12. \A j \in 2..1 + (n - k) : q[j] = W[(a + k - 1) + j - 1]
  <2>1. TAKE j \in 2..1 + (n - k)
  <2>2. /\ j \in 1..1 + (n - k) /\ ~(j <= 1) /\ j - 1 \in 1..n - k
        /\ k + (j - 1) \in 2..n /\ a + (k + (j - 1)) - 1 = (a + k - 1) + j - 1
    BY <1>7
  <2>3. q[j] = s[j - 1] /\ s[j - 1] = p[k + (j - 1)] /\ p[k + (j - 1)] = W[a + (k + (j - 1)) - 1]
    BY <1>4, <1>6, <1>8, <2>2
  <2>4. QED
    BY <2>2, <2>3
<1>13. q # <<>>
  BY <1>6, <1>7
<1>14. QED
  BY <1>6, <1>9, <1>10, <1>11, <1>12, <1>13 DEF Stretch, q, s

\* The words from a + 1 to b.
Between(W, a, b) == SubSeq(W, a + 1, b)

LEMMA WordsFromTo ==
    ASSUME NEW W, IsText(W), NEW b \in 0..Len(W), NEW a \in 0..b
    PROVE  /\ Between(W, a, b) \in Seq(Piece) /\ Len(Between(W, a, b)) = b - a
           /\ \A j \in 1..b - a : Between(W, a, b)[j] = W[a + j]
           /\ Between(W, a, b) = <<>> <=> a = b
<1> DEFINE c == Len(W)  s == SubSeq(W, a + 1, b)
<1>1. W \in Seq(Piece) /\ c \in Nat
  BY DEF IsText
<1>2. \A i \in 1..c : W[i] \in Piece
  BY <1>1, ElementOfSeq
<1> HIDE DEF c
<1>3. a \in Int /\ b \in Int /\ a + 1 \in Int /\ a <= b /\ \A i \in a + 1..b : i \in 1..c
  BY <1>1 DEF c
<1>4. \A i \in a + 1..b : W[i] \in Piece
  BY <1>2, <1>3
<1>5. s \in Seq(Piece) /\ Len(s) = (IF a + 1 <= b THEN b - (a + 1) + 1 ELSE 0)
      /\ \A i \in 1..b - (a + 1) + 1 : s[i] = W[a + 1 + i - 1]
  <2> DEFINE m == a + 1
  <2>1. m \in Int /\ \A i \in m..b : W[i] \in Piece
    BY <1>3, <1>4
  <2> HIDE DEF m
  <2>2. SubSeq(W, m, b) \in Seq(Piece) /\ Len(SubSeq(W, m, b)) = (IF m <= b THEN b - m + 1 ELSE 0)
        /\ \A i \in 1..b - m + 1 : SubSeq(W, m, b)[i] = W[m + i - 1]
    BY <1>3, <2>1, SubSeqProperties
  <2>3. QED
    BY <2>2 DEF m, Between
<1> HIDE DEF s
<1>6. s \in Seq(Piece) /\ Len(s) = b - a /\ \A j \in 1..b - a : s[j] = W[a + j]
  <2>1. Len(s) = b - a
    BY <1>3, <1>5
  <2>2. b - (a + 1) + 1 = b - a /\ \A i \in 1..b - a : a + 1 + i - 1 = a + i
    BY <1>3
  <2>3. QED
    BY <1>5, <2>1, <2>2
<1>7. s = <<>> <=> a = b
  BY <1>3, <1>6, EmptySeq
<1>8. QED
  BY <1>6, <1>7 DEF s, Between

LEMMA StretchNew ==
    ASSUME NEW W, IsText(W), NEW b \in 0..Len(W), NEW a \in 0..b, a # b
    PROVE  Stretch(W, Between(W, a, b), b) /\ Between(W, a, b)[1].chars # 0
<1> DEFINE s == Between(W, a, b)
<1>1. /\ s \in Seq(Piece) /\ Len(s) = b - a /\ \A j \in 1..b - a : s[j] = W[a + j]
      /\ s # <<>>
  <2>1. /\ s \in Seq(Piece) /\ Len(s) = b - a
        /\ \A j \in 1..b - a : s[j] = W[a + j]
        /\ s = <<>> <=> a = b
    BY WordsFromTo
  <2> HIDE DEF s
  <2>2. QED
    BY <2>1
<1>2. Len(W) \in Nat /\ \A j \in 1..Len(W) : W[j].word = j /\ W[j].chars # 0
  BY DEF IsText
<1> HIDE DEF s
<1>3. 1 \in 1..b - a /\ a + 1 \in 1..Len(W) /\ a + 1 \in 1..b
  BY <1>2
<1>4. s[1].word = a + 1 /\ s[1].chars # 0
  BY <1>1, <1>2, <1>3
<1>5. Len(s) = b - (a + 1) + 1 /\ \A j \in 2..Len(s) : j \in 1..b - a /\ (a + 1) + j - 1 = a + j
  BY <1>1, <1>2
<1>6. QED
  BY <1>1, <1>3, <1>4, <1>5 DEF Stretch, s

\* A stretch grows by the words behind it.
LEMMA StretchGrows ==
    ASSUME NEW W, IsText(W), NEW e \in 0..Len(W), NEW b \in 0..e, NEW p, Stretch(W, p, b)
    PROVE  Stretch(W, p \o Between(W, b, e), e)
<1>1. /\ p \in Seq(Piece) /\ p # <<>> /\ p[1].word \in 1..b /\ Len(p) = b - p[1].word + 1
      /\ \A j \in 2..Len(p) : p[j] = W[p[1].word + j - 1]
  BY DEF Stretch
<1> DEFINE n == Len(p)  a == p[1].word  s == Between(W, b, e)  q == p \o s
<1>2. s \in Seq(Piece) /\ Len(s) = e - b /\ \A j \in 1..e - b : s[j] = W[b + j]
  BY WordsFromTo
<1> HIDE DEF s
<1>3. q \in Seq(Piece) /\ Len(q) = n + (e - b)
      /\ \A i \in 1..n + (e - b) : q[i] = IF i <= n THEN p[i] ELSE s[i - n]
  <2>1. q \in Seq(Piece) /\ Len(q) = Len(p) + Len(s)
        /\ \A i \in 1..Len(p) + Len(s) : q[i] = IF i <= Len(p) THEN p[i] ELSE s[i - Len(p)]
    BY <1>1, <1>2, ConcatProperties
  <2> HIDE DEF q
  <2>2. QED
    BY <1>2, <2>1
<1> HIDE DEF n, a, q
<1>4. n \in Nat /\ a \in 1..b /\ n = b - a + 1 /\ \A j \in 2..n : p[j] = W[a + j - 1]
  BY <1>1 DEF n, a
<1>5. q[1].word = a
  <2>1. 1 \in 1..n + (e - b) /\ 1 <= n
    BY <1>4
  <2>2. QED
    BY <1>3, <2>1 DEF a
<1>6. Len(q) = e - a + 1 /\ a \in 1..e
  BY <1>3, <1>4
<1>7. \A j \in 2..n + (e - b) : q[j] = W[a + j - 1]
  <2>1. TAKE j \in 2..n + (e - b)
  <2>2. CASE j <= n
    <3>1. j \in 2..n /\ j \in 1..n + (e - b)
      BY <1>4, <2>2
    <3>2. QED
      BY <1>3, <1>4, <2>2, <3>1
  <2>3. CASE ~(j <= n)
    <3>1. j \in 1..n + (e - b) /\ j - n \in 1..e - b /\ b + (j - n) = a + j - 1
      BY <1>4, <2>3
    <3>2. q[j] = s[j - n] /\ s[j - n] = W[b + (j - n)]
      BY <1>2, <1>3, <2>3, <3>1
    <3>3. QED
      BY <3>1, <3>2
  <2>4. QED
    BY <2>2, <2>3
<1>8. q # <<>>
  BY <1>4, <1>6
<1>9. QED
  BY <1>3, <1>5, <1>6, <1>7, <1>8 DEF Stretch, q, s
-----------------------------------------------------------------------------
(* The repeated end *)

\* Trimming takes away at most an empty first piece, and makes nothing longer.
LEMMA TrimmedIs ==
    ASSUME NEW p \in Seq(Piece)
    PROVE  /\ Trimmed(p) \in Seq(Piece)
           /\ p = <<>> \/ p[1].chars # 0 => Trimmed(p) = p
           /\ p # <<>> /\ p[1].chars = 0 => Trimmed(p) = Behind(p, 1) /\ Trimmed(p) = Tail(p)
           /\ Length(Trimmed(p)) <= Length(p)
<1>1. CASE p = <<>> \/ p[1].chars # 0
  <2>1. Trimmed(p) = p
    BY <1>1 DEF Trimmed
  <2>2. Length(p) \in Nat
    BY LengthNat
  <2>3. QED
    BY <1>1, <2>1, <2>2
<1>2. CASE p # <<>> /\ p[1].chars = 0
  <2>1. Len(p) \in Nat /\ 1 \in 1..Len(p) /\ 1 \in 0..Len(p) /\ 1 - 1 = 0 /\ 1 + 1 = 2
    BY <1>2, EmptySeq
  <2>2. Trimmed(p) = Tail(p)
    BY <1>2 DEF Trimmed
  <2>3. Tail(p) = Behind(p, 1)
    BY <1>2, <2>1, TailIsSubSeq DEF Behind
  <2>4. Behind(p, 1) \in Seq(Piece)
    BY <2>1, BehindIs
  <2>5. /\ Length(Behind(p, 1)) \in Nat /\ Length(Behind(p, 0)) \in Nat
        /\ 1 = Len(p) => Length(Behind(p, 0)) = 0
        /\ 1 # Len(p) => Length(Behind(p, 0)) = 0 + 1 + Length(Behind(p, 1))
    BY <1>2, <2>1, LengthBehind
  <2>6. 1 = Len(p) => Length(Behind(p, 1)) = 0
    BY <2>1, BehindIs, LengthOfNothing
  <2>7. Behind(p, 0) = p
    BY BehindNothing
  <2> DEFINE one == Length(Behind(p, 1))  zero == Length(Behind(p, 0))
  <2> HIDE DEF one, zero
  <2>8. one <= zero
    <3>1. one \in Nat /\ zero \in Nat /\ (1 = Len(p) => zero = 0) /\ (1 # Len(p) => zero = 0 + 1 + one)
          /\ (1 = Len(p) => one = 0)
      BY <2>5, <2>6 DEF one, zero
    <3>2. QED
      BY <3>1
  <2>9. QED
    BY <1>2, <2>2, <2>3, <2>4, <2>7, <2>8 DEF one, zero
<1>3. QED
  BY <1>1, <1>2

\* What is behind a place is not longer than what is behind the place before.
LEMMA LengthBehindLess ==
    ASSUME NEW p \in Seq(Piece), NEW k \in 1..Len(p)
    PROVE  Length(Behind(p, k)) <= Length(Behind(p, k - 1))
<1>1. /\ p[k].chars \in Nat /\ Length(Behind(p, k)) \in Nat /\ Length(Behind(p, k - 1)) \in Nat
      /\ k # Len(p) => Length(Behind(p, k - 1)) = p[k].chars + 1 + Length(Behind(p, k))
  BY LengthBehind
<1>2. k = Len(p) => Length(Behind(p, k)) = 0
  <2>1. k \in 0..Len(p)
    OBVIOUS
  <2>2. QED
    BY <2>1, BehindIs, LengthOfNothing
<1> DEFINE one == Length(Behind(p, k))  zero == Length(Behind(p, k - 1))  x == p[k].chars
<1> HIDE DEF one, zero, x
<1>3. x \in Nat /\ one \in Nat /\ zero \in Nat /\ (k # Len(p) => zero = x + 1 + one) /\ (k = Len(p) => one = 0)
  BY <1>1, <1>2 DEF one, zero, x
<1>4. one <= zero
  BY <1>3
<1>5. QED
  BY <1>4 DEF one, zero

\* What of a stretch is behind its first words is a suffix of it when trimmed.
LEMMA SuffixOfTrimmed ==
    ASSUME NEW p \in Seq(Piece), NEW k \in 1..Len(p)
    PROVE  IsSuffix(Behind(p, k), Trimmed(p))
<1>1. Len(p) \in Nat /\ k \in 0..Len(p) /\ 1 \in 0..Len(p) /\ k \in 1..Len(p) /\ k - 1 \in 0..Len(p) - 1 /\ p # <<>>
  BY EmptySeq
<1>2. CASE p[1].chars # 0
  BY <1>1, <1>2, TrimmedIs, SuffixIs
<1>3. CASE p[1].chars = 0
  <2>1. Trimmed(p) = Behind(p, 1) /\ Trimmed(p) \in Seq(Piece)
    BY <1>1, <1>3, TrimmedIs
  <2>2. Len(Behind(p, 1)) = Len(p) - 1 /\ Behind(Behind(p, 1), k - 1) = Behind(p, k)
    BY <1>1, BehindIs, BehindBehind
  <2>3. QED
    BY <1>1, <2>1, <2>2, SuffixIs
<1>4. QED
  BY <1>2, <1>3

\* The last word of the trimmed chunk is the one up to which it goes.
LEMMA LastOfTrimmed ==
    ASSUME NEW W, IsText(W), NEW b \in 0..Len(W), NEW p, Stretch(W, p, b), Len(Trimmed(p)) # 0
    PROVE  Last(Trimmed(p)).word = b
<1>1. p \in Seq(Piece) /\ p # <<>>
  BY DEF Stretch
<1>2. CASE p[1].chars # 0
  <2>1. Trimmed(p) = p
    BY <1>1, <1>2, TrimmedIs
  <2>2. QED
    BY <2>1, StretchLast DEF Last
<1>3. CASE p[1].chars = 0
  <2>1. Trimmed(p) = Behind(p, 1)
    BY <1>1, <1>3, TrimmedIs
  <2>2. Len(p) \in Nat /\ 1 \in 0..Len(p)
    BY <1>1, EmptySeq
  <2>3. Len(Behind(p, 1)) = Len(p) - 1
    BY <1>1, <2>2, BehindIs
  <2>4. 1 \in 1..Len(p) - 1
    <3> DEFINE m == Len(p)  d == Len(Behind(p, 1))
    <3> HIDE DEF m, d
    <3>1. m \in Nat /\ 1 \in 0..m /\ d = m - 1 /\ d # 0
      BY <2>1, <2>2, <2>3 DEF m, d
    <3>2. 1 \in 1..m - 1
      BY <3>1
    <3>3. QED
      BY <3>2 DEF m
  <2>5. Stretch(W, Behind(p, 1), b)
    BY <2>4, StretchBehind
  <2>6. QED
    BY <2>1, <2>5, StretchLast DEF Last
<1>4. QED
  BY <1>2, <1>3

\* The part of a chunk that the next one repeats is nothing or a stretch up to
\* the same word, and when trimmed it fits behind the trimmed chunk.
LEMMA OverlapTextFits ==
    ASSUME chunkOverlap \in Nat, NEW W, IsText(W), NEW b \in 0..Len(W), NEW p, Stretch(W, p, b)
    PROVE  /\ OverlapText(p) = <<>> \/ Stretch(W, OverlapText(p), b)
           /\ RepeatFits(chunkOverlap, Trimmed(OverlapText(p)), Trimmed(p))
<1> DEFINE n == chunkOverlap  O == OverlapText(p)
<1>1. /\ p \in Seq(Piece) /\ p # <<>>
  BY DEF Stretch
<1>2. n \in Nat /\ Length(p) \in Nat /\ Len(p) \in Nat /\ Len(p) # 0 /\ p[Len(p)].word = b
  BY <1>1, LengthNat, StretchLast
<1>3. Trimmed(p) \in Seq(Piece) /\ Length(Trimmed(p)) <= Length(p) /\ Length(Trimmed(p)) \in Nat
  BY <1>1, TrimmedIs, LengthNat
<1>4. CASE n = 0
  <2>1. O = <<>>
    BY <1>4 DEF OverlapText
  <2>2. Trimmed(<<>>) = <<>> /\ Length(<<>>) <= 0
    BY LengthOfNothing DEF Trimmed
  <2>3. IsSuffix(<<>>, Trimmed(p))
    <3>1. Len(Trimmed(p)) \in 0..Len(Trimmed(p))
      BY <1>3
    <3>2. QED
      BY <1>3, <3>1, SuffixIs, BehindIs
  <2>4. QED
    BY <1>4, <2>1, <2>2, <2>3 DEF RepeatFits
<1>5. CASE n # 0 /\ Length(p) <= n
  <2>1. O = p
    BY <1>2, <1>5 DEF OverlapText
  <2>2. IsSuffix(Trimmed(p), Trimmed(p))
    <3>1. 0 \in 0..Len(Trimmed(p))
      BY <1>3
    <3>2. QED
      BY <1>3, <3>1, SuffixIs, BehindNothing
  <2>3. Length(Trimmed(p)) <= n
    BY <1>2, <1>3, <1>5
  <2>4. QED
    BY <2>1, <2>2, <2>3 DEF RepeatFits
<1>6. CASE n # 0 /\ ~(Length(p) <= n)
  <2> DEFINE end == LastChars(p, n)
  <2>1. n \in Nat \ {0} /\ Length(p) >= n
    BY <1>2, <1>6
  <2>2. PICK k \in 1..Len(p), x \in Piece :
              /\ end = <<x>> \o Behind(p, k) /\ Length(end) = n
              /\ x.word = p[k].word /\ (k = Len(p) => x.chars = n)
    BY <1>1, <2>1, LastCharsIs
  <2>3. O = IF Len(Trimmed(end)) > 1 THEN Tail(Trimmed(end)) ELSE end
    BY <1>2, <1>6 DEF OverlapText
  <2> HIDE DEF end, n
  <2>4. Stretch(W, end, b)
    BY <2>2, StretchCut
  <2>5. end \in Seq(Piece) /\ end # <<>> /\ end[1] = x /\ Len(end) = 1 + (Len(p) - k)
    <3>1. k \in 0..Len(p)
      OBVIOUS
    <3>2. Behind(p, k) \in Seq(Piece) /\ Len(Behind(p, k)) = Len(p) - k
      BY <1>1, <3>1, BehindIs
    <3> DEFINE s == Behind(p, k)
    <3> HIDE DEF s
    <3>3. end = <<x>> \o s /\ s \in Seq(Piece) /\ Len(s) = Len(p) - k
      BY <2>2, <3>2 DEF s
    <3>4. end[1] = x /\ Len(end) = 1 + (Len(p) - k)
      <4> DEFINE one == <<x>>
      <4>1. one \in Seq(Piece) /\ Len(one) = 1 /\ one[1] = x
        OBVIOUS
      <4> HIDE DEF one
      <4>2. /\ Len(one \o s) = Len(one) + Len(s)
            /\ \A i \in 1..Len(one) + Len(s) : (one \o s)[i] = IF i <= Len(one) THEN one[i] ELSE s[i - Len(one)]
        BY <3>3, <4>1, ConcatProperties
      <4>3. 1 \in 1..Len(one) + Len(s) /\ 1 <= Len(one)
        BY <3>3, <4>1
      <4>4. (one \o s)[1] = x
        BY <4>1, <4>2, <4>3
      <4>5. QED
        BY <3>3, <4>1, <4>2, <4>4 DEF one
    <3>5. QED
      BY <2>4, <3>4 DEF Stretch
  <2>6. Tail(end) = Behind(p, k)
    <3>1. Behind(p, k) \in Seq(Piece)
      BY <1>1, BehindIs
    <3>2. QED
      BY <2>2, <3>1
  <2>7. Trimmed(end) = IF x.chars = 0 THEN Behind(p, k) ELSE end
    BY <2>5, <2>6, TrimmedIs
  <2>8. Length(Behind(p, k)) \in Nat /\ Length(Behind(p, k)) <= n
    <3>1. k \in 0..Len(p) /\ (k = Len(p) \/ k \in 1..Len(p) - 1)
      OBVIOUS
    <3>2. Behind(p, k) \in Seq(Piece) /\ Length(Behind(p, k)) \in Nat
      BY <1>1, <3>1, BehindIs, LengthNat
    <3>3. end = <<x>> \o Behind(p, k)
      BY <2>2
    <3>4. /\ Behind(p, k) = <<>> => Length(Behind(p, k)) = 0
          /\ Behind(p, k) # <<>> => Length(end) = x.chars + 1 + Length(Behind(p, k))
      BY <3>2, <3>3, LengthWith, LengthOfNothing
    <3>5. x.chars \in Nat
      BY DEF Piece
    <3> DEFINE one == Length(Behind(p, k))  c == x.chars
    <3> HIDE DEF one, c
    <3>6. one \in Nat /\ c \in Nat /\ n \in Nat /\ (one = 0 \/ n = c + 1 + one)
      BY <1>2, <2>2, <3>2, <3>4, <3>5 DEF one, c
    <3>7. one <= n
      BY <3>6
    <3>8. QED
      BY <3>2, <3>7 DEF one
  <2>9. ASSUME NEW m \in 1..Len(p) - 1, O = Behind(p, m), Length(Behind(p, m)) <= n
        PROVE  Stretch(W, O, b) /\ RepeatFits(n, Trimmed(O), Trimmed(p))
    <3>1. Stretch(W, Behind(p, m), b) /\ Behind(p, m)[1].chars # 0
      BY <2>9, StretchBehind
    <3>2. Behind(p, m) \in Seq(Piece)
      BY <3>1 DEF Stretch
    <3>3. Trimmed(O) = Behind(p, m)
      BY <2>9, <3>1, <3>2, TrimmedIs
    <3>4. IsSuffix(Behind(p, m), Trimmed(p))
      <4>1. m \in 1..Len(p)
        OBVIOUS
      <4>2. QED
        BY <1>1, <4>1, SuffixOfTrimmed
    <3>5. QED
      BY <2>9, <3>1, <3>3, <3>4 DEF RepeatFits
  <2>10. CASE Len(Trimmed(end)) > 1 /\ x.chars # 0
    <3>1. O = Behind(p, k) /\ 1 + (Len(p) - k) > 1
      BY <2>3, <2>5, <2>6, <2>7, <2>10
    <3>2. k \in 1..Len(p) - 1
      BY <1>2, <3>1
    <3>3. QED
      BY <2>8, <2>9, <3>1, <3>2 DEF n
  <2>11. CASE Len(Trimmed(end)) > 1 /\ x.chars = 0
    <3>1. O = Tail(Behind(p, k)) /\ Len(Behind(p, k)) > 1
      BY <2>3, <2>7, <2>11
    <3>2. k \in 0..Len(p) /\ Len(Behind(p, k)) = Len(p) - k /\ Behind(p, k) \in Seq(Piece)
      BY <1>1, BehindIs
    <3>3. k + 1 \in 1..Len(p) - 1 /\ k + 1 \in 0..Len(p) /\ k + 1 \in 1..Len(p) /\ (k + 1) - 1 = k
          /\ (k + 1) - k = 1 /\ k + 1 \in k..Len(p)
      <4> DEFINE c == Len(p)  d == Len(Behind(p, k))
      <4> HIDE DEF c, d
      <4>1. c \in Nat /\ k \in 1..c /\ d = c - k /\ d > 1
        BY <1>2, <3>1, <3>2 DEF c, d
      <4>2. k + 1 \in 1..c - 1 /\ k + 1 \in 0..c /\ k + 1 \in 1..c /\ (k + 1) - 1 = k
            /\ (k + 1) - k = 1 /\ k + 1 \in k..c
        BY <4>1
      <4>3. QED
        BY <4>2 DEF c
    <3>4. Tail(Behind(p, k)) = Behind(Behind(p, k), 1)
      <4> DEFINE s == Behind(p, k)
      <4>1. s \in Seq(Piece) /\ s # <<>>
        BY <3>1, <3>2
      <4> HIDE DEF s
      <4>2. Tail(s) = SubSeq(s, 1 + 1, Len(s))
        BY <4>1, TailIsSubSeq
      <4>3. QED
        BY <4>2 DEF s, Behind
    <3>5. Behind(Behind(p, k), 1) = Behind(p, k + 1)
      BY <1>1, <3>2, <3>3, BehindBehind
    <3>6. Length(Behind(p, k + 1)) <= Length(Behind(p, k)) /\ Length(Behind(p, k + 1)) \in Nat
      BY <1>1, <3>3, LengthBehindLess, LengthBehind
    <3>7. O = Behind(p, k + 1)
      BY <3>1, <3>4, <3>5
    <3>8. Length(Behind(p, k + 1)) <= n
      BY <1>2, <2>8, <3>6
    <3>9. QED
      BY <2>9, <3>3, <3>7, <3>8 DEF n
  <2>12. CASE ~(Len(Trimmed(end)) > 1) /\ x.chars = 0
    <3>1. O = end /\ Trimmed(O) = Behind(p, k)
      BY <2>3, <2>7, <2>12
    <3>2. IsSuffix(Behind(p, k), Trimmed(p))
      BY <1>1, SuffixOfTrimmed
    <3>3. QED
      BY <2>4, <2>8, <3>1, <3>2 DEF RepeatFits, n
  <2>13. CASE ~(Len(Trimmed(end)) > 1) /\ x.chars # 0
    <3>1. O = end /\ Trimmed(O) = end
      BY <2>3, <2>7, <2>13
    <3>2. ~(Len(end) > 1)
      BY <2>7, <2>13
    <3>3. Len(end) = 1 /\ k = Len(p)
      BY <1>2, <2>5, <3>2
    <3>4. end[1].word = b
      BY <1>2, <2>2, <2>5, <3>3
    <3>5. Trimmed(p) # <<>> => Last(Trimmed(p)).word = b
      <4>1. Trimmed(p) # <<>> => Len(Trimmed(p)) # 0
        BY <1>3, EmptySeq
      <4>2. QED
        BY <4>1, LastOfTrimmed
    <3>6. Length(end) <= n
      BY <1>2, <2>2
    <3>7. QED
      BY <2>4, <3>1, <3>3, <3>4, <3>5, <3>6 DEF RepeatFits, n
  <2>14. QED
    BY <2>10, <2>11, <2>12, <2>13 DEF n
<1>7. QED
  BY <1>4, <1>5, <1>6
-----------------------------------------------------------------------------
(* By sentences *)

\* The ends of the sentences go up to the last word, and no sentence is empty.
LEMMA SentenceEnds ==
    ASSUME text \in Texts
    PROVE  /\ Len(text.ends) \in Nat /\ DOMAIN text.ends = 1..Len(text.ends)
           /\ SentenceEnd(0) = 0 /\ SentenceEnd(Len(text.ends)) = Len(Words)
           /\ \A s \in 1..Len(text.ends) :
                 /\ SentenceEnd(s - 1) \in 0..Len(Words) /\ SentenceEnd(s) \in 0..Len(Words)
                 /\ SentenceEnd(s - 1) < SentenceEnd(s)
<1> DEFINE n == Len(text.words)  m == Len(text.ends)
<1>1. /\ text.words \in Seq(Nat \ {0}) /\ text.ends \in Seq(DOMAIN text.words)
      /\ \A s \in DOMAIN text.ends : s > 1 => text.ends[s - 1] < text.ends[s]
      /\ IF text.ends = <<>> THEN text.words = <<>> ELSE Last(text.ends) = Len(text.words)
  BY TextsAssumption
<1>2. n \in Nat /\ DOMAIN text.words = 1..n /\ Len(Words) = n
  BY <1>1, WordsAreText
<1>3. m \in Nat /\ DOMAIN text.ends = 1..m
  BY <1>1
<1>4. \A s \in 1..m : text.ends[s] \in 1..n
  BY <1>1, <1>2, <1>3
<1>5. SentenceEnd(0) = 0
  BY DEF SentenceEnd
<1>6. SentenceEnd(m) = n
  <2>1. CASE text.ends = <<>>
    <3>1. m = 0 /\ n = 0
      BY <1>1, <2>1
    <3>2. QED
      BY <1>5, <3>1
  <2>2. CASE text.ends # <<>>
    <3>1. m # 0 /\ text.ends[m] = n
      BY <1>1, <2>2, EmptySeq DEF Last
    <3>2. QED
      BY <3>1 DEF SentenceEnd
  <2>3. QED
    BY <2>1, <2>2
<1> HIDE DEF n, m
<1>7. ASSUME NEW s \in 1..m
      PROVE  /\ SentenceEnd(s - 1) \in 0..n /\ SentenceEnd(s) \in 0..n
             /\ SentenceEnd(s - 1) < SentenceEnd(s)
  <2>1. s # 0 /\ SentenceEnd(s) = text.ends[s] /\ text.ends[s] \in 1..n
    BY <1>3, <1>4 DEF SentenceEnd
  <2>2. CASE s = 1
    <3>1. s - 1 = 0
      BY <2>2
    <3>2. QED
      BY <1>2, <1>5, <2>1, <3>1
  <2>3. CASE s # 1
    <3>1. s - 1 \in 1..m /\ s - 1 # 0 /\ s > 1
      BY <1>3, <2>3
    <3>2. SentenceEnd(s - 1) = text.ends[s - 1] /\ text.ends[s - 1] \in 1..n
      BY <1>4, <3>1 DEF SentenceEnd
    <3>3. text.ends[s - 1] < text.ends[s]
      BY <1>1, <1>3, <3>1
    <3>4. QED
      BY <1>2, <2>1, <3>2, <3>3
  <2>4. QED
    BY <2>2, <2>3
<1>8. QED
  BY <1>2, <1>3, <1>5, <1>6, <1>7 DEF n, m

\* What is behind a place of a text that grows.
LEMMA BehindConcat ==
    ASSUME NEW p \in Seq(Piece), NEW q \in Seq(Piece), NEW k \in 0..Len(p)
    PROVE  /\ p \o q \in Seq(Piece) /\ Len(p \o q) = Len(p) + Len(q)
           /\ Behind(p \o q, k) = Behind(p, k) \o q
           /\ SubSeq(p \o q, 1, k) = SubSeq(p, 1, k)
<1> DEFINE r == p \o q  n == Len(p)  m == Len(q)
<1>1. r \in Seq(Piece) /\ Len(r) = n + m /\ \A i \in 1..n + m : r[i] = IF i <= n THEN p[i] ELSE q[i - n]
  BY ConcatProperties
<1>2. n \in Nat /\ m \in Nat /\ k \in 0..n
  OBVIOUS
<1> HIDE DEF r
<1>3. k \in 0..Len(r) /\ k \in 0..Len(p)
  BY <1>1, <1>2
<1> DEFINE s == Behind(p, k)  t == s \o q  u == Behind(r, k)
<1>4. s \in Seq(Piece) /\ Len(s) = n - k /\ \A j \in 1..n - k : s[j] = p[k + j]
  BY <1>3, BehindIs
<1>5. u \in Seq(Piece) /\ Len(u) = Len(r) - k /\ \A j \in 1..Len(r) - k : u[j] = r[k + j]
  BY <1>1, <1>3, BehindIs
<1> HIDE DEF s, u
<1>6. t \in Seq(Piece) /\ Len(t) = Len(s) + m
      /\ \A i \in 1..Len(s) + m : t[i] = IF i <= Len(s) THEN s[i] ELSE q[i - Len(s)]
  BY <1>4, ConcatProperties
<1> HIDE DEF t, n, m
<1>7. Len(u) = Len(t)
  BY <1>1, <1>2, <1>4, <1>5, <1>6
<1>8. ASSUME NEW j \in 1..Len(u) PROVE u[j] = t[j]
  <2>1. j \in 1..Len(r) - k /\ j \in 1..Len(s) + m /\ k + j \in 1..n + m
    BY <1>1, <1>2, <1>4, <1>5
  <2>2. PICK x \in 1..n + m : x = k + j
    BY <2>1
  <2>3. u[j] = r[x]
    BY <1>5, <2>1, <2>2
  <2>4. t[j] = IF j <= Len(s) THEN s[j] ELSE q[j - Len(s)]
    BY <1>6, <2>1
  <2>5. r[x] = IF x <= n THEN p[x] ELSE q[x - n]
    BY <1>1
  <2>6. (j <= Len(s) <=> x <= n) /\ j - Len(s) = x - n /\ (j <= Len(s) => j \in 1..n - k)
    BY <1>2, <1>4, <2>1, <2>2
  <2>7. j <= Len(s) => s[j] = p[x]
    BY <1>4, <2>2, <2>6
  <2>8. QED
    BY <2>3, <2>4, <2>5, <2>6, <2>7
<1>9. u = t
  BY <1>5, <1>6, <1>7, <1>8, SamePieces
<1>10. SubSeq(r, 1, k) = SubSeq(p, 1, k)
  <2>1. CASE k = 0
    <3>1. 1 \in Int /\ 0 \in Int /\ 0 < 1
      OBVIOUS
    <3>2. QED
      BY <2>1, <3>1, SubSeqEmpty
  <2>2. CASE k # 0
    <3>1. 1 \in 1..Len(p) /\ k \in 1..Len(p)
      BY <1>2, <1>3, <2>2
    <3>2. QED
      BY <3>1, SubSeqOfConcat1 DEF r
  <2>3. QED
    BY <2>1, <2>2
<1>11. QED
  BY <1>1, <1>9, <1>10 DEF r, s, t, u, n, m

\* A list of chunks that fit, and one that fits behind it.
LEMMA AppendFits ==
    ASSUME NEW doc, NEW chs, NEW sts, ChunksFit(doc, chs, sts), NEW c, NEW b,
           ChunkFits(doc, c, BeforeIn(chs, Len(chs) + 1), EndIn(chs, Len(chs)), RepeatedIn(sts, Len(chs) + 1), b),
           Last(c).word = b,
           NEW sts2 \in Seq(Nat), \A i \in 1..Len(chs) + 1 : RepeatedIn(sts2, i) = RepeatedIn(sts, i)
    PROVE  /\ ChunksFit(doc, Append(chs, c), sts2)
           /\ Len(Append(chs, c)) = Len(chs) + 1
           /\ EndIn(Append(chs, c), Len(chs) + 1) = b
           /\ BeforeIn(Append(chs, c), Len(chs) + 2) = c
<1> DEFINE n == Len(chs)  new == Append(chs, c)
<1>1. chs \in Seq(Seq(Piece)) /\ c \in Seq(Piece) /\ sts \in Seq(Nat)
  BY DEF ChunksFit, ChunkFits
<1>2. n \in Nat /\ new \in Seq(Seq(Piece)) /\ Len(new) = n + 1 /\ new[n + 1] = c
      /\ \A i \in 1..n : new[i] = chs[i]
  BY <1>1, AppendProperties
<1> HIDE DEF n, new
<1>3. \A i \in 1..n :
          ChunkFits(doc, chs[i], BeforeIn(chs, i), EndIn(chs, i - 1), RepeatedIn(sts, i), EndIn(chs, i))
  BY DEF ChunksFit, n
<1>4. \A i \in 1..n + 1 : BeforeIn(new, i) = BeforeIn(chs, i) /\ EndIn(new, i - 1) = EndIn(chs, i - 1)
  <2>1. TAKE i \in 1..n + 1
  <2>2. CASE i = 1
    <3>1. i - 1 = 0
      BY <2>2
    <3>2. QED
      BY <2>2, <3>1 DEF BeforeIn, EndIn
  <2>3. CASE i # 1
    <3>1. i - 1 \in 1..n /\ i - 1 # 0
      BY <1>2, <2>3
    <3>2. new[i - 1] = chs[i - 1]
      BY <1>2, <3>1
    <3>3. QED
      BY <2>3, <3>1, <3>2 DEF BeforeIn, EndIn
  <2>4. QED
    BY <2>2, <2>3
<1>5. \A i \in 1..n : EndIn(new, i) = EndIn(chs, i)
  <2>1. TAKE i \in 1..n
  <2>2. i # 0 /\ new[i] = chs[i]
    BY <1>2
  <2>3. QED
    BY <2>2 DEF EndIn
<1>6. BeforeIn(new, n + 1) = BeforeIn(chs, n + 1) /\ EndIn(new, n) = EndIn(chs, n)
  <2> DEFINE x == n + 1
  <2>1. x \in 1..n + 1 /\ x - 1 = n
    BY <1>2
  <2> HIDE DEF x
  <2>2. BeforeIn(new, x) = BeforeIn(chs, x) /\ EndIn(new, x - 1) = EndIn(chs, x - 1)
    BY <1>4, <2>1
  <2>3. QED
    BY <2>1, <2>2 DEF x
<1>7. EndIn(new, n + 1) = b /\ BeforeIn(new, n + 2) = c
  <2>1. n + 1 # 0 /\ n + 2 # 1 /\ n + 2 - 1 = n + 1
    BY <1>2
  <2>2. QED
    BY <1>2, <2>1 DEF BeforeIn, EndIn
<1>8. \A i \in 1..n + 1 :
          ChunkFits(doc, new[i], BeforeIn(new, i), EndIn(new, i - 1), RepeatedIn(sts2, i), EndIn(new, i))
  <2>1. TAKE i \in 1..n + 1
  <2>2. RepeatedIn(sts2, i) = RepeatedIn(sts, i)
    BY DEF n
  <2>3. CASE i \in 1..n
    BY <1>2, <1>3, <1>4, <1>5, <2>2, <2>3
  <2>4. CASE i = n + 1
    <3>1. i - 1 = n
      BY <1>2, <2>4
    <3>2. ChunkFits(doc, c, BeforeIn(chs, n + 1), EndIn(chs, n), RepeatedIn(sts, n + 1), b)
      BY DEF n
    <3>3. QED
      BY <1>2, <1>6, <1>7, <2>2, <2>4, <3>1, <3>2
  <2>5. QED
    BY <1>2, <2>3, <2>4
<1>9. QED
  BY <1>1, <1>2, <1>7, <1>8 DEF ChunksFit, n, new

\* A new chunk: what it repeats, and a sentence.
LEMMA NewCurrentFits ==
    ASSUME NEW doc, IsText(doc.words), doc.overlap \in Nat, NEW b \in 0..Len(doc.words), NEW a \in 0..b, a # b,
           NEW O, O = <<>> \/ Stretch(doc.words, O, a), NEW before, RepeatFits(doc.overlap, Trimmed(O), before),
           Between(doc.words, a, b) \in doc.sentences
    PROVE  LET new == O \o Between(doc.words, a, b) IN
           /\ Stretch(doc.words, new, b)
           /\ Len(Trimmed(O)) \in Nat
           /\ ChunkFits(doc, Trimmed(new), before, a, Len(Trimmed(O)), b)
           /\ Behind(Trimmed(new), Len(Trimmed(O))) = Between(doc.words, a, b)
<1> DEFINE W == doc.words  S == Between(W, a, b)  new == O \o S  T == Trimmed(O)  k == Len(T)
<1>1. Len(W) \in Nat /\ a \in Nat /\ b \in a + 1..Len(W)
  BY DEF IsText
<1>2. S \in Seq(Piece) /\ S # <<>> /\ Stretch(W, S, b) /\ S[1].chars # 0 /\ Len(S) = b - a
  <2>1. S \in Seq(Piece) /\ Len(S) = b - a /\ (S = <<>> <=> a = b)
    BY WordsFromTo
  <2>2. Stretch(W, S, b) /\ S[1].chars # 0
    BY StretchNew
  <2>3. QED
    BY <2>1, <2>2
<1>3. O \in Seq(Piece)
  <2>1. <<>> \in Seq(Piece)
    OBVIOUS
  <2>2. QED
    BY <2>1 DEF Stretch
<1> HIDE DEF S
<1>4. Stretch(W, new, b)
  <2>1. CASE O = <<>>
    <3>1. new = S
      BY <1>2, <2>1, ConcatEmptySeq
    <3>2. QED
      BY <1>2, <3>1
  <2>2. CASE O # <<>>
    BY <2>2, StretchGrows DEF S
  <2>3. QED
    BY <2>1, <2>2
<1>5. T \in Seq(Piece)
  BY <1>3, TrimmedIs
<1>6. k \in Nat /\ k \in 0..Len(T)
  BY <1>5
<1>7. Trimmed(new) = T \o S
  <2>1. new \in Seq(Piece) /\ new # <<>>
    BY <1>4 DEF Stretch
  <2>2. CASE O = <<>>
    <3>1. new = S /\ T = <<>> /\ <<>> \o S = S
      BY <1>2, <2>2, ConcatEmptySeq DEF Trimmed
    <3>2. Trimmed(S) = S
      BY <1>2, TrimmedIs
    <3>3. QED
      BY <3>1, <3>2
  <2>3. CASE O # <<>>
    <3>1. Len(O) \in Nat /\ 1 \in 1..Len(O) + Len(S) /\ 1 <= Len(O) /\ 0 \in 0..Len(O) /\ 1 \in 0..Len(O)
      BY <1>2, <1>3, <2>3, EmptySeq
    <3>2. new[1] = O[1]
      BY <1>2, <1>3, <3>1, ConcatProperties
    <3>3. Behind(new, 1) = Behind(O, 1) \o S
      BY <1>2, <1>3, <3>1, BehindConcat
    <3> HIDE DEF new
    <3>4. CASE O[1].chars # 0
      <4>1. Trimmed(new) = new /\ T = O
        BY <1>3, <2>1, <2>3, <3>2, <3>4, TrimmedIs
      <4>2. QED
        BY <4>1 DEF new
    <3>5. CASE O[1].chars = 0
      <4>1. Trimmed(new) = Behind(new, 1) /\ T = Behind(O, 1)
        BY <1>3, <2>1, <2>3, <3>2, <3>5, TrimmedIs
      <4>2. QED
        BY <3>3, <4>1
    <3>6. QED
      BY <3>4, <3>5
  <2>4. QED
    BY <2>2, <2>3
<1> HIDE DEF T, k
<1> DEFINE c == T \o S
<1>8. c \in Seq(Piece) /\ Len(c) = k + Len(S) /\ Behind(c, k) = Behind(T, k) \o S
      /\ SubSeq(c, 1, k) = SubSeq(T, 1, k)
  BY <1>2, <1>5, <1>6, BehindConcat DEF k
<1>9. Behind(T, k) = <<>> /\ SubSeq(T, 1, k) = T /\ <<>> \o S = S
  BY <1>2, <1>5, <1>6, BehindIs, SubSeqFull, ConcatEmptySeq DEF k
<1>10. k \in 0..Len(c) - 1
  BY <1>1, <1>2, <1>6, <1>8
<1>11. RepeatFits(doc.overlap, SubSeq(c, 1, k), before)
  BY <1>8, <1>9 DEF T
<1>12. Behind(c, k) = S /\ S \in doc.sentences
  BY <1>8, <1>9 DEF S
<1>13. ChunkFits(doc, c, before, a, k, b)
  BY <1>1, <1>8, <1>10, <1>11, <1>12 DEF ChunkFits, S, Between
<1>14. QED
  BY <1>4, <1>6, <1>7, <1>12, <1>13 DEF S, T, k

\* A chunk that takes one sentence more, and is not too long with it.
LEMMA MoreCurrentFits ==
    ASSUME NEW doc, IsText(doc.words), doc.size \in Nat, NEW b \in 0..Len(doc.words), NEW a \in 0..b, a # b,
           NEW cur, NEW s, NEW chs, NEW sts, CurrentFits(doc, cur, s, a, chs, sts),
           Length(cur) + 1 + Length(Between(doc.words, a, b)) <= doc.size, NEW s2
    PROVE  CurrentFits(doc, cur \o Between(doc.words, a, b), s2, b, chs, sts)
<1> DEFINE W == doc.words  S == Between(W, a, b)  new == cur \o S  T == Trimmed(cur)
           i == Len(chs) + 1  before == BeforeIn(chs, i)  e == EndIn(chs, i - 1)  k == RepeatedIn(sts, i)
<1>1. Len(W) \in Nat /\ W \in Seq(Piece) /\ a \in Nat /\ b \in Nat
  BY DEF IsText
<1>2. S \in Seq(Piece) /\ S # <<>>
  BY WordsFromTo
<1>3. Stretch(W, cur, a) /\ cur \in Seq(Piece) /\ cur # <<>>
  BY DEF CurrentFits, Stretch
<1>4. /\ T \in Seq(Piece) /\ k \in 0..Len(T) - 1 /\ e \in Nat /\ a \in e + 1..Len(W)
      /\ Behind(T, k) = SubSeq(W, e + 1, a)
      /\ RepeatFits(doc.overlap, SubSeq(T, 1, k), before)
  BY DEF CurrentFits, ChunkFits
<1>5. k \in 0..Len(T)
  BY <1>4
<1>6. Stretch(W, new, b)
  BY <1>3, StretchGrows
<1>7. new \in Seq(Piece) /\ new # <<>> /\ Length(new) = Length(cur) + 1 + Length(S)
  BY <1>2, <1>3, <1>6, LengthConcat DEF Stretch
<1>8. Trimmed(new) = T \o S
  <2>1. Len(cur) \in Nat /\ Len(S) \in Nat /\ 1 \in 1..Len(cur) + Len(S) /\ 1 <= Len(cur) /\ 1 \in 0..Len(cur)
    BY <1>2, <1>3, EmptySeq
  <2>2. new[1] = cur[1]
    BY <1>2, <1>3, <2>1, ConcatProperties
  <2>3. Behind(new, 1) = Behind(cur, 1) \o S
    BY <1>2, <1>3, <2>1, BehindConcat
  <2> HIDE DEF new, S
  <2>4. CASE cur[1].chars # 0
    <3>1. Trimmed(new) = new /\ T = cur
      BY <1>3, <1>7, <2>2, <2>4, TrimmedIs
    <3>2. QED
      BY <3>1 DEF new
  <2>5. CASE cur[1].chars = 0
    <3>1. Trimmed(new) = Behind(new, 1) /\ T = Behind(cur, 1)
      BY <1>3, <1>7, <2>2, <2>5, TrimmedIs
    <3>2. QED
      BY <2>3, <3>1
  <2>6. QED
    BY <2>4, <2>5
<1>9. SubSeq(W, e + 1, a) \o S = SubSeq(W, e + 1, b)
  <2> DEFINE n == Len(W)
  <2>1. n \in Nat /\ e \in Nat /\ a \in e + 1..n /\ b \in 0..n /\ a \in 0..b
    BY <1>1, <1>4
  <2> HIDE DEF n, e
  <2>2. e + 1 \in 1..n + 1 /\ a \in (e + 1) - 1..n /\ b \in a..n
    BY <2>1
  <2> HIDE DEF W
  <2>3. SubSeq(W, e + 1, a) \o SubSeq(W, a + 1, b) = SubSeq(W, e + 1, b)
    BY <1>1, <2>2, ConcatAdjacentSubSeq DEF n
  <2>4. QED
    BY <2>3 DEF Between
<1>10. b \in e + 1..Len(W)
  BY <1>1, <1>4
<1> HIDE DEF S, T, new, before, e, k
<1> DEFINE c == T \o S
<1>11. c \in Seq(Piece) /\ Len(c) = Len(T) + Len(S) /\ Behind(c, k) = Behind(T, k) \o S
      /\ SubSeq(c, 1, k) = SubSeq(T, 1, k)
  BY <1>2, <1>4, <1>5, BehindConcat
<1>12. k \in 0..Len(c) - 1
  <2>1. Len(T) \in Nat /\ Len(S) \in Nat
    BY <1>2, <1>4
  <2>2. QED
    BY <1>4, <1>11, <2>1
<1>13. Length(new) <= doc.size /\ Length(new) \in Nat
  BY <1>7, LengthNat DEF S
<1>14. Length(c) <= Length(new) /\ Length(c) \in Nat
  BY <1>7, <1>8, <1>11, TrimmedIs, LengthNat
<1>15. ~(Length(c) > doc.size) /\ ~(Length(new) > doc.size)
  BY <1>13, <1>14
<1>16. Behind(c, k) = SubSeq(W, e + 1, b)
  BY <1>4, <1>9, <1>11
<1>17. ChunkFits(doc, c, before, e, k, b)
  BY <1>4, <1>10, <1>11, <1>12, <1>15, <1>16 DEF ChunkFits
<1>18. QED
  BY <1>6, <1>8, <1>15, <1>17 DEF CurrentFits, S, new, before, e, k

\* A sentence is the words behind the one before it.
LEMMA SentenceIs ==
    ASSUME text \in Texts, NEW s \in 1..Len(text.ends)
    PROVE  /\ SentenceEnd(s - 1) \in 0..SentenceEnd(s) /\ SentenceEnd(s) \in 0..Len(Words)
           /\ SentenceEnd(s - 1) # SentenceEnd(s)
           /\ Sentence(s) = Between(Document.words, SentenceEnd(s - 1), SentenceEnd(s))
           /\ Sentence(s) \in Document.sentences
           /\ Document.words = Words /\ IsText(Document.words)
           /\ Document.size = size /\ Document.overlap = chunkOverlap
<1>1. /\ SentenceEnd(s - 1) \in 0..Len(Words) /\ SentenceEnd(s) \in 0..Len(Words)
      /\ SentenceEnd(s - 1) < SentenceEnd(s) /\ s \in DOMAIN text.ends
  BY SentenceEnds
<1>2. Document.words = Words /\ Document.size = size /\ Document.overlap = chunkOverlap
      /\ Document.sentences = {Sentence(i) : i \in DOMAIN text.ends}
  BY DEF Document
<1>3. IsText(Words) /\ Len(Words) \in Nat
  BY WordsAreText DEF IsText
<1>4. Sentence(s) \in Document.sentences
  BY <1>1, <1>2
<1>5. Sentence(s) = Between(Words, SentenceEnd(s - 1), SentenceEnd(s))
  BY DEF Sentence, Between
<1>6. SentenceEnd(s - 1) \in 0..SentenceEnd(s) /\ SentenceEnd(s - 1) # SentenceEnd(s)
  <2> DEFINE a == SentenceEnd(s - 1)  b == SentenceEnd(s)  n == Len(Words)
  <2> HIDE DEF a, b, n
  <2>1. a \in 0..n /\ b \in 0..n /\ n \in Nat /\ a < b
    BY <1>1, <1>3 DEF a, b, n
  <2>2. a \in 0..b /\ a # b
    BY <2>1
  <2>3. QED
    BY <2>2 DEF a, b
<1>7. QED
  BY <1>1, <1>2, <1>3, <1>4, <1>5, <1>6

\* The document and its sentences stay the same.
LEMMA SameDocument ==
    ASSUME UNCHANGED <<text, size, chunkOverlap>>
    PROVE  /\ Document' = Document /\ Words' = Words
           /\ \A s : taken' = s => SentenceEnd(taken)' = SentenceEnd(s) /\ Sentence(taken)' = Sentence(s)
<1>1. Words' = Words
  BY DEF Words
<1>2. \A s : SentenceEnd(s)' = SentenceEnd(s)
  BY DEF SentenceEnd
<1>3. \A s : Sentence(s)' = Sentence(s)
  BY <1>1, <1>2 DEF Sentence
<1>4. {Sentence(s) : s \in DOMAIN text.ends}' = {Sentence(s) : s \in DOMAIN text.ends}
  BY <1>3
<1>5. ASSUME NEW s, taken' = s PROVE SentenceEnd(taken)' = SentenceEnd(s) /\ Sentence(taken)' = Sentence(s)
  <2>1. SentenceEnd(taken)' = SentenceEnd(s) /\ SentenceEnd(taken - 1)' = SentenceEnd(s - 1)
    BY <1>5 DEF SentenceEnd
  <2>2. QED
    BY <1>1, <2>1 DEF Sentence
<1>6. QED
  BY <1>1, <1>4, <1>5 DEF Document

\* A chunk that is closed for a sentence takes its repeated end along.
LEMMA TakeTooLong ==
    ASSUME ChunkerInductive, SentencesFit, TakeSentence, TooLong(taken + 1)
    PROVE  SentencesFit'
<1>1. text \in Texts /\ size \in Nat /\ chunkOverlap \in Nat
  BY DEF ChunkerInductive
<1>2. PICK s \in 1..Len(text.ends) : s = taken + 1 /\ s - 1 = taken /\ s \in 0..Len(text.ends) /\ s # 0
  <2>1. taken \in 0..Len(text.ends) /\ taken + 1 \in DOMAIN text.ends
    BY DEF SentencesFit, TakeSentence
  <2>2. Len(text.ends) \in Nat /\ DOMAIN text.ends = 1..Len(text.ends)
    BY <1>1, SentenceEnds
  <2>3. QED
    BY <2>1, <2>2
<1> DEFINE doc == Document  a == SentenceEnd(taken)  b == SentenceEnd(s)
           O == OverlapText(current)  c == Trimmed(current)  new == O \o Sentence(s)
           i == Len(chunks) + 1
<1>3. /\ taken' = s /\ ~cutDone /\ cutDone' = cutDone
      /\ chunks' = Append(chunks, c) /\ starts' = Append(starts, Len(Trimmed(O))) /\ current' = new
      /\ UNCHANGED <<text, size, chunkOverlap>>
  BY <1>2 DEF TakeSentence
<1>4. /\ a \in 0..b /\ b \in 0..Len(Words) /\ a # b
      /\ Sentence(s) = Between(doc.words, a, b) /\ Sentence(s) \in doc.sentences
      /\ doc.words = Words /\ IsText(doc.words) /\ doc.size = size /\ doc.overlap = chunkOverlap
  BY <1>1, <1>2, SentenceIs
<1>5. /\ ChunksFit(doc, chunks, starts) /\ Len(starts) = Len(chunks)
      /\ CurrentFits(doc, current, Sentence(taken), a, chunks, starts)
  <2>1. taken # 0
    BY <1>3 DEF TooLong, SentencesFit
  <2>2. QED
    BY <1>3, <2>1 DEF SentencesFit
<1>6. /\ Stretch(doc.words, current, a) /\ current \in Seq(Piece)
      /\ ChunkFits(doc, c, BeforeIn(chunks, i), EndIn(chunks, i - 1), RepeatedIn(starts, i), a)
      /\ chunks \in Seq(Seq(Piece)) /\ starts \in Seq(Nat) /\ c \in Seq(Piece) /\ Len(c) \in Nat
  <2>1. chunks \in Seq(Seq(Piece)) /\ starts \in Seq(Nat)
    BY <1>5 DEF ChunksFit
  <2>2. /\ Stretch(doc.words, current, a)
        /\ ChunkFits(doc, c, BeforeIn(chunks, i), EndIn(chunks, i - 1), RepeatedIn(starts, i), a)
    BY <1>5 DEF CurrentFits
  <2> HIDE DEF doc, c, a, i
  <2>3. current \in Seq(Piece) /\ c \in Seq(Piece)
    BY <2>2 DEF Stretch, ChunkFits
  <2>4. QED
    BY <2>1, <2>2, <2>3
<1>7. a \in 0..Len(doc.words) /\ Len(Words) \in Nat
  <2> DEFINE m == Len(Words)
  <2>1. m \in Nat
    BY <1>4 DEF IsText
  <2> HIDE DEF m
  <2>2. a \in 0..b /\ b \in 0..m
    BY <1>4 DEF m
  <2> HIDE DEF a, b
  <2>3. a \in 0..m
    BY <2>1, <2>2
  <2>4. QED
    BY <1>4, <2>1, <2>3 DEF m
<1>8. /\ O = <<>> \/ Stretch(doc.words, O, a)
      /\ RepeatFits(doc.overlap, Trimmed(O), c)
  BY <1>1, <1>4, <1>6, <1>7, OverlapTextFits
<1> HIDE DEF O, c, a, b
<1>9. /\ Stretch(doc.words, new, b) /\ Len(Trimmed(O)) \in Nat
      /\ ChunkFits(doc, Trimmed(new), c, a, Len(Trimmed(O)), b)
      /\ Behind(Trimmed(new), Len(Trimmed(O))) = Sentence(s)
  <2>1. doc.overlap \in Nat /\ b \in 0..Len(doc.words) /\ a \in 0..b
        /\ Between(doc.words, a, b) \in doc.sentences /\ new = O \o Between(doc.words, a, b)
    BY <1>1, <1>4
  <2> HIDE DEF doc, new
  <2>2. QED
    BY <1>4, <1>8, <2>1, NewCurrentFits
<1> HIDE DEF doc, new
<1> DEFINE k == Len(Trimmed(O))  sts == Append(starts, k)  chs == Append(chunks, c)
<1>10. /\ sts \in Seq(Nat) /\ Len(sts) = Len(starts) + 1 /\ Len(chunks) \in Nat
       /\ RepeatedIn(sts, i + 1) = k /\ \A j \in 1..Len(chunks) + 1 : RepeatedIn(sts, j) = RepeatedIn(starts, j)
  <2>1. Len(chunks) \in Nat /\ k \in Nat
    BY <1>6, <1>9
  <2> HIDE DEF k
  <2>2. /\ sts \in Seq(Nat) /\ Len(sts) = Len(starts) + 1 /\ sts[Len(starts) + 1] = k
        /\ \A j \in 1..Len(starts) : sts[j] = starts[j]
    BY <1>6, <2>1, AppendProperties
  <2> HIDE DEF sts
  <2> DEFINE m == Len(chunks)
  <2> HIDE DEF m
  <2>3. m \in Nat /\ Len(starts) = m /\ i = m + 1
    BY <1>5, <2>1 DEF m
  <2> HIDE DEF i
  <2>4. i + 1 # 1 /\ (i + 1) - 1 = m + 1
    BY <2>3
  <2>5. RepeatedIn(sts, i + 1) = k
    BY <2>2, <2>3, <2>4 DEF RepeatedIn
  <2>6. ASSUME NEW j \in 1..m + 1 PROVE RepeatedIn(sts, j) = RepeatedIn(starts, j)
    <3>1. CASE j = 1
      BY <3>1 DEF RepeatedIn
    <3>2. CASE j # 1
      <4>1. j - 1 \in 1..m
        BY <2>3, <3>2
      <4>2. sts[j - 1] = starts[j - 1]
        BY <2>2, <2>3, <4>1
      <4>3. QED
        BY <3>2, <4>2 DEF RepeatedIn
    <3>3. QED
      BY <3>1, <3>2
  <2>7. QED
    BY <2>1, <2>2, <2>5, <2>6 DEF m
<1>11. Last(c).word = a
  <2>1. RepeatedIn(starts, i) \in 0..Len(c) - 1
    BY <1>6 DEF ChunkFits
  <2>2. Len(c) # 0
    BY <1>6, <2>1
  <2>3. QED
    BY <1>4, <1>6, <1>7, <2>2, LastOfTrimmed DEF c
<1>12. /\ ChunksFit(doc, chs, sts) /\ Len(chs) = i /\ EndIn(chs, i) = a /\ BeforeIn(chs, i + 1) = c
  <2>1. i - 1 = Len(chunks) /\ i + 1 = Len(chunks) + 2
    BY <1>10
  <2>2. ChunkFits(doc, c, BeforeIn(chunks, Len(chunks) + 1), EndIn(chunks, Len(chunks)),
                  RepeatedIn(starts, Len(chunks) + 1), a)
    BY <1>6, <2>1
  <2> HIDE DEF sts
  <2>3. /\ ChunksFit(doc, chs, sts) /\ Len(chs) = Len(chunks) + 1
        /\ EndIn(chs, Len(chunks) + 1) = a /\ BeforeIn(chs, Len(chunks) + 2) = c
    BY <1>5, <1>10, <1>11, <2>2, AppendFits
  <2>4. QED
    BY <2>1, <2>3
<1>13. CurrentFits(doc, new, Sentence(s), b, chs, sts)
  <2>1. i + 1 - 1 = i
    BY <1>10
  <2>2. ChunkFits(doc, Trimmed(new), BeforeIn(chs, i + 1), EndIn(chs, i + 1 - 1), RepeatedIn(sts, i + 1), b)
    BY <1>9, <1>10, <1>12, <2>1
  <2>3. Behind(Trimmed(new), RepeatedIn(sts, i + 1)) = Sentence(s)
    BY <1>9, <1>10
  <2> HIDE DEF chs, sts, i
  <2>4. QED
    BY <1>9, <1>12, <2>2, <2>3 DEF CurrentFits
<1>14. Len(sts) = Len(chs)
  BY <1>5, <1>10, <1>12
<1>15. /\ taken' = s /\ ~cutDone' /\ text' = text
       /\ chunks' = chs /\ starts' = sts /\ current' = new
  BY <1>3
<1>16. /\ Document' = doc /\ Words' = Words
       /\ SentenceEnd(taken)' = b /\ Sentence(taken)' = Sentence(s)
  BY <1>3, SameDocument DEF doc, b
<1> HIDE DEF chs, sts
<1>17. QED
  BY <1>2, <1>12, <1>13, <1>14, <1>15, <1>16 DEF SentencesFit

\* The first sentence, or one that still fits, goes into the current chunk.
LEMMA TakeShort ==
    ASSUME ChunkerInductive, SentencesFit, TakeSentence, ~TooLong(taken + 1)
    PROVE  SentencesFit'
<1>1. text \in Texts /\ size \in Nat /\ chunkOverlap \in Nat
  BY DEF ChunkerInductive
<1>2. PICK s \in 1..Len(text.ends) : s = taken + 1 /\ s - 1 = taken /\ s \in 0..Len(text.ends) /\ s # 0
  <2>1. taken \in 0..Len(text.ends) /\ taken + 1 \in DOMAIN text.ends
    BY DEF SentencesFit, TakeSentence
  <2>2. Len(text.ends) \in Nat /\ DOMAIN text.ends = 1..Len(text.ends)
    BY <1>1, SentenceEnds
  <2>3. QED
    BY <2>1, <2>2
<1> DEFINE doc == Document  a == SentenceEnd(taken)  b == SentenceEnd(s)  S == Sentence(s)
           new == current \o S
<1>3. /\ taken' = s /\ ~cutDone /\ cutDone' = cutDone
      /\ UNCHANGED <<chunks, starts>> /\ current' = new
      /\ UNCHANGED <<text, size, chunkOverlap>>
  BY <1>2 DEF TakeSentence
<1>4. /\ a \in 0..b /\ b \in 0..Len(Words) /\ a # b
      /\ S = Between(doc.words, a, b) /\ S \in doc.sentences
      /\ doc.words = Words /\ IsText(doc.words) /\ doc.size = size /\ doc.overlap = chunkOverlap
  BY <1>1, <1>2, SentenceIs
<1>5. ChunksFit(doc, chunks, starts) /\ Len(starts) = Len(chunks)
  BY <1>3 DEF SentencesFit
<1>6. ~(current # <<>> /\ Length(current) + 1 + Length(S) > size)
  BY <1>2 DEF TooLong
<1> HIDE DEF a, b, S
<1>7. b \in 0..Len(doc.words) /\ doc.size \in Nat /\ doc.overlap \in Nat
  BY <1>1, <1>4
<1>8. CASE taken = 0
  <2>1. current = <<>> /\ chunks = <<>> /\ a = 0
    BY <1>3, <1>8 DEF SentencesFit, a, SentenceEnd
  <2>2. Trimmed(<<>>) = <<>> /\ RepeatFits(doc.overlap, Trimmed(<<>>), <<>>) /\ Len(<<>>) = 0
    <3>1. Trimmed(<<>>) = <<>> /\ Length(<<>>) = 0 /\ Len(<<>>) = 0
      BY LengthOfNothing DEF Trimmed
    <3> HIDE DEF doc
    <3>2. QED
      BY <1>7, <3>1 DEF RepeatFits
  <2> DEFINE more == <<>> \o Between(doc.words, a, b)
  <2>3. /\ Stretch(doc.words, more, b)
        /\ ChunkFits(doc, Trimmed(more), <<>>, a, Len(Trimmed(<<>>)), b)
        /\ Behind(Trimmed(more), Len(Trimmed(<<>>))) = Between(doc.words, a, b)
    <3>1. \E O : O = <<>>
      OBVIOUS
    <3>2. PICK O : O = <<>>
      BY <3>1
    <3>3. RepeatFits(doc.overlap, Trimmed(O), <<>>) /\ Between(doc.words, a, b) \in doc.sentences
      BY <1>4, <2>2, <3>2
    <3> HIDE DEF doc
    <3>4. /\ Stretch(doc.words, O \o Between(doc.words, a, b), b)
          /\ ChunkFits(doc, Trimmed(O \o Between(doc.words, a, b)), <<>>, a, Len(Trimmed(O)), b)
          /\ Behind(Trimmed(O \o Between(doc.words, a, b)), Len(Trimmed(O))) = Between(doc.words, a, b)
      BY <1>4, <1>7, <3>2, <3>3, NewCurrentFits
    <3>5. QED
      BY <3>2, <3>4
  <2>4. new = more
    BY <1>4, <2>1
  <2> HIDE DEF more, new, doc
  <2>5. /\ Len(chunks) + 1 = 1 /\ Len(chunks) + 1 - 1 = 0
        /\ BeforeIn(chunks, 1) = <<>> /\ EndIn(chunks, 0) = 0 /\ RepeatedIn(starts, 1) = 0
    <3>1. Len(chunks) = 0
      BY <2>1
    <3>2. QED
      BY <3>1 DEF BeforeIn, EndIn, RepeatedIn
  <2>6. CurrentFits(doc, new, S, b, chunks, starts)
    <3>1. /\ Stretch(doc.words, new, b) /\ ChunkFits(doc, Trimmed(new), <<>>, 0, 0, b)
          /\ Behind(Trimmed(new), 0) = S
      BY <1>4, <2>1, <2>2, <2>3, <2>4
    <3>2. QED
      BY <2>5, <3>1 DEF CurrentFits
  <2>7. /\ taken' = s /\ ~cutDone' /\ text' = text
        /\ chunks' = chunks /\ starts' = starts /\ current' = new
    BY <1>3 DEF new
  <2>8. /\ Document' = doc /\ Words' = Words
        /\ SentenceEnd(taken)' = b /\ Sentence(taken)' = S
    BY <1>3, SameDocument DEF doc, b, S
  <2>9. QED
    BY <1>2, <1>5, <2>6, <2>7, <2>8 DEF SentencesFit
<1>9. CASE taken # 0
  <2>1. CurrentFits(doc, current, Sentence(taken), a, chunks, starts)
    BY <1>3, <1>9 DEF SentencesFit, a
  <2>2. current \in Seq(Piece) /\ current # <<>>
    BY <2>1 DEF CurrentFits, Stretch
  <2>3. S \in Seq(Piece)
    <3>1. b \in 0..Len(doc.words) /\ a \in 0..b
      BY <1>4, <1>7
    <3> HIDE DEF doc
    <3>2. QED
      BY <1>4, <3>1, WordsFromTo
  <2>4. Length(current) + 1 + Length(S) <= doc.size
    <3>1. Length(current) \in Nat /\ Length(S) \in Nat
      BY <2>2, <2>3, LengthNat
    <3> HIDE DEF doc
    <3>2. QED
      BY <1>1, <1>4, <1>6, <2>2, <3>1
  <2> HIDE DEF doc
  <2>5. CurrentFits(doc, new, S, b, chunks, starts)
    <3>1. Length(current) + 1 + Length(Between(doc.words, a, b)) <= doc.size
      BY <1>4, <2>4
    <3>2. \A s2 : CurrentFits(doc, current \o Between(doc.words, a, b), s2, b, chunks, starts)
      BY <1>4, <1>7, <2>1, <3>1, MoreCurrentFits
    <3>3. QED
      BY <1>4, <3>2
  <2>6. /\ taken' = s /\ ~cutDone' /\ text' = text
        /\ chunks' = chunks /\ starts' = starts /\ current' = new
    BY <1>3
  <2>7. /\ Document' = doc /\ Words' = Words
        /\ SentenceEnd(taken)' = b /\ Sentence(taken)' = S
    BY <1>3, SameDocument DEF doc, b, S
  <2> HIDE DEF new
  <2>8. QED
    BY <1>2, <1>5, <2>5, <2>6, <2>7 DEF SentencesFit
<1>10. QED
  BY <1>8, <1>9

\* The last chunk goes up to the end of the text.
LEMMA EndFits ==
    ASSUME ChunkerInductive, SentencesFit, EndOfSentences
    PROVE  SentencesFit'
<1> DEFINE doc == Document  b == SentenceEnd(taken)  c == Trimmed(current)  n == Len(chunks)
           chs == IF current = <<>> THEN chunks ELSE Append(chunks, c)
<1>1. text \in Texts /\ taken = Len(text.ends) /\ ~cutDone
  BY DEF ChunkerInductive, EndOfSentences
<1>2. /\ cutDone' /\ chunks' = chs
      /\ UNCHANGED <<text, size, chunkOverlap, taken, starts>>
  BY DEF EndOfSentences
<1>3. /\ b = Len(Words) /\ SentenceEnd(0) = 0 /\ doc.words = Words /\ IsText(doc.words) /\ Len(Words) \in Nat
      /\ b \in 0..Len(doc.words)
  <2>1. b = Len(Words) /\ SentenceEnd(0) = 0
    BY <1>1, SentenceEnds
  <2>2. IsText(Words) /\ Len(Words) \in Nat
    BY <1>1, WordsAreText DEF IsText
  <2>3. doc.words = Words
    BY DEF Document
  <2>4. QED
    BY <2>1, <2>2, <2>3
<1>4. ChunksFit(doc, chunks, starts) /\ taken \in 0..Len(text.ends) /\ Len(starts) = n
  BY <1>1 DEF SentencesFit
<1>5. ChunksFit(doc, chs, starts) /\ EndIn(chs, Len(chs)) = Len(Words)
  <2>1. CASE taken = 0
    <3>1. current = <<>> /\ chunks = <<>>
      BY <1>1, <2>1 DEF SentencesFit
    <3>2. Len(chunks) = 0
      BY <3>1
    <3>3. EndIn(chunks, Len(chunks)) = 0
      BY <3>2 DEF EndIn
    <3>4. b = 0
      BY <1>3, <2>1
    <3>5. QED
      BY <1>3, <1>4, <3>1, <3>3, <3>4
  <2>2. CASE taken # 0
    <3>1. CurrentFits(doc, current, Sentence(taken), b, chunks, starts)
      BY <1>1, <2>2 DEF SentencesFit
    <3>2. chunks \in Seq(Seq(Piece)) /\ starts \in Seq(Nat) /\ n \in Nat /\ n + 1 - 1 = n
      <4>1. chunks \in Seq(Seq(Piece)) /\ starts \in Seq(Nat)
        BY <1>4 DEF ChunksFit
      <4>2. QED
        BY <4>1
    <3> HIDE DEF doc, b, c, n
    <3>3. /\ Stretch(doc.words, current, b) /\ current # <<>>
          /\ ChunkFits(doc, c, BeforeIn(chunks, n + 1), EndIn(chunks, n), RepeatedIn(starts, n + 1), b)
      BY <3>1, <3>2 DEF CurrentFits, Stretch, c, n
    <3>4. Len(c) # 0
      <4>1. c \in Seq(Piece) /\ RepeatedIn(starts, n + 1) \in 0..Len(c) - 1
        BY <3>3 DEF ChunkFits
      <4>2. QED
        BY <4>1
    <3>5. Last(c).word = b
      BY <1>3, <3>3, <3>4, LastOfTrimmed DEF c
    <3>6. chs = Append(chunks, c)
      BY <3>3
    <3>7. ChunksFit(doc, chs, starts) /\ Len(chs) = n + 1 /\ EndIn(chs, n + 1) = b
      BY <1>4, <3>2, <3>3, <3>5, <3>6, AppendFits DEF n
    <3>8. QED
      BY <1>3, <3>7
  <2>3. QED
    BY <2>1, <2>2
<1>6. Document' = doc /\ Words' = Words
  BY <1>2, SameDocument
<1> HIDE DEF chs, doc
<1>7. QED
  BY <1>2, <1>4, <1>5, <1>6 DEF SentencesFit
-----------------------------------------------------------------------------
(* By words *)

\* A chunk of words has at least one and goes up to the end at most; the next
\* starts behind its start, and not behind the word that follows it.
LEMMA NextIs ==
    ASSUME NEW n \in Nat, NEW p \in Nat \ {0}, NEW v \in Nat, NEW a \in 1..n
    PROVE  /\ LastFrom(n, p, a) \in a..n /\ LastFrom(n, p, a) - a < p
           /\ NextFrom(n, p, v, a) \in a + 1..LastFrom(n, p, a) + 1
           /\ LastFrom(n, p, a) = n => NextFrom(n, p, v, a) >= n + 1 - v
  BY DEF LastFrom, NextFrom

\* The words from a to b.
LEMMA WordChunkIs ==
    ASSUME NEW W, IsText(W), NEW b \in 1..Len(W), NEW a \in 1..b
    PROVE  /\ SubSeq(W, a, b) \in Seq(Piece) /\ Len(SubSeq(W, a, b)) = b - a + 1
           /\ \A j \in 1..b - a + 1 : SubSeq(W, a, b)[j] = W[a + j - 1] /\ SubSeq(W, a, b)[j].word = a + j - 1
           /\ SubSeq(W, a, b)[1].word = a
<1> DEFINE n == Len(W)  s == SubSeq(W, a, b)
<1>1. n \in Nat /\ W \in Seq(Piece) /\ \A j \in 1..n : W[j].word = j
  BY DEF IsText
<1> HIDE DEF n
<1>2. a \in Int /\ b \in Int /\ a <= b /\ b \in 1..n /\ a \in 1..b /\ \A i \in a..b : i \in 1..n
  BY <1>1 DEF n
<1>3. \A i \in a..b : W[i] \in Piece
  BY <1>1, <1>2, ElementOfSeq DEF n
<1>4. s \in Seq(Piece) /\ Len(s) = (IF a <= b THEN b - a + 1 ELSE 0)
      /\ \A i \in 1..b - a + 1 : s[i] = W[a + i - 1]
  BY <1>2, <1>3, SubSeqProperties
<1> HIDE DEF s
<1>5. ASSUME NEW j \in 1..b - a + 1 PROVE s[j] = W[a + j - 1] /\ s[j].word = a + j - 1
  <2>1. a + j - 1 \in 1..n
    BY <1>1, <1>2
  <2>2. QED
    BY <1>1, <1>4, <2>1
<1>6. 1 \in 1..b - a + 1 /\ a + 1 - 1 = a
  BY <1>2
<1>7. QED
  BY <1>2, <1>4, <1>5, <1>6 DEF s

\* The chunk that starts with the next word.
LEMMA WordChunksGrow ==
    ASSUME NEW W, IsText(W), NEW p \in Nat \ {0}, NEW v \in Nat, NEW chs, NEW a \in 1..Len(W),
           WordChunksFit(W, p, v, chs, a)
    PROVE  WordChunksFit(W, p, v, Append(chs, SubSeq(W, a, LastFrom(Len(W), p, a))), NextFrom(Len(W), p, v, a))
<1> DEFINE n == Len(W)  b == LastFrom(n, p, a)  next == NextFrom(n, p, v, a)  c == SubSeq(W, a, b)
           new == Append(chs, c)  m == Len(chs)
<1>1. n \in Nat /\ W \in Seq(Piece) /\ \A j \in 1..n : W[j].word = j
  BY DEF IsText
<1>2. b \in a..n /\ next \in a + 1..b + 1
  BY <1>1, NextIs
<1>3. c \in Seq(Piece) /\ c[1].word = a
  <2>1. b \in 1..Len(W) /\ a \in 1..b
    BY <1>1, <1>2
  <2> HIDE DEF b, n
  <2>2. SubSeq(W, a, b) \in Seq(Piece) /\ SubSeq(W, a, b)[1].word = a
    BY <2>1, WordChunkIs
  <2>3. QED
    BY <2>2
<1>4. /\ chs \in Seq(Seq(Piece))
      /\ \A i \in 1..m :
            /\ FirstIn(chs, i) \in 1..n /\ FirstIn(chs, i) < a
            /\ FirstIn(chs, i) = StartIn(n, p, v, chs, i)
            /\ chs[i] = SubSeq(W, FirstIn(chs, i), LastFrom(n, p, FirstIn(chs, i)))
            /\ \A j \in 1..i - 1 : FirstIn(chs, j) < FirstIn(chs, i)
      /\ a = StartIn(n, p, v, chs, m + 1)
      /\ \A w \in 1..n : w < a => \E i \in 1..m : w \in FirstIn(chs, i)..LastFrom(n, p, FirstIn(chs, i))
  BY DEF WordChunksFit
<1> HIDE DEF n, b, next, c
<1>5. m \in Nat /\ new \in Seq(Seq(Piece)) /\ Len(new) = m + 1 /\ new[m + 1] = c
      /\ \A i \in 1..m : new[i] = chs[i]
  BY <1>3, <1>4, AppendProperties
<1> HIDE DEF new, m
<1>6. FirstIn(new, m + 1) = a /\ \A i \in 1..m : FirstIn(new, i) = FirstIn(chs, i)
  BY <1>3, <1>5 DEF FirstIn
<1>7. \A i \in 1..m + 1 : StartIn(n, p, v, new, i) = StartIn(n, p, v, chs, i)
  <2>1. TAKE i \in 1..m + 1
  <2>2. CASE i = 1
    BY <2>2 DEF StartIn
  <2>3. CASE i # 1
    <3>1. i - 1 \in 1..m
      BY <1>5, <2>3
    <3>2. FirstIn(new, i - 1) = FirstIn(chs, i - 1)
      BY <1>6, <3>1
    <3>3. QED
      BY <2>3, <3>2 DEF StartIn
  <2>4. QED
    BY <2>2, <2>3
<1>8. StartIn(n, p, v, new, m + 2) = next
  <2>1. PICK i \in Nat : i = m + 2 /\ i # 1 /\ i - 1 = m + 1
    BY <1>5
  <2>2. StartIn(n, p, v, new, i) = NextFrom(n, p, v, a)
    BY <1>6, <2>1 DEF StartIn
  <2>3. QED
    BY <2>1, <2>2 DEF next
<1>9. a < next
  BY <1>1, <1>2
<1>10. ASSUME NEW i \in 1..m + 1
       PROVE  /\ FirstIn(new, i) \in 1..n /\ FirstIn(new, i) < next
              /\ FirstIn(new, i) = StartIn(n, p, v, new, i)
              /\ new[i] = SubSeq(W, FirstIn(new, i), LastFrom(n, p, FirstIn(new, i)))
              /\ \A j \in 1..i - 1 : FirstIn(new, j) < FirstIn(new, i)
  <2>1. CASE i = m + 1
    <3>1. FirstIn(new, i) = a /\ a \in 1..n /\ StartIn(n, p, v, new, i) = StartIn(n, p, v, chs, i)
      BY <1>6, <1>7, <2>1 DEF n
    <3>2. new[i] = SubSeq(W, a, LastFrom(n, p, a))
      BY <1>5, <2>1 DEF c, b
    <3>3. \A j \in 1..i - 1 : FirstIn(new, j) < a
      <4>1. TAKE j \in 1..i - 1
      <4>2. j \in 1..m
        BY <1>5, <2>1
      <4>3. QED
        BY <1>4, <1>6, <4>2
    <3>4. QED
      BY <1>4, <1>9, <2>1, <3>1, <3>2, <3>3
  <2>2. CASE i # m + 1
    <3>1. i \in 1..m
      BY <1>5, <2>2
    <3>2. FirstIn(new, i) = FirstIn(chs, i) /\ FirstIn(chs, i) \in 1..n /\ FirstIn(chs, i) < a
      BY <1>4, <1>6, <3>1
    <3>3. FirstIn(new, i) < next
      BY <1>1, <1>2, <3>2
    <3>4. FirstIn(new, i) = StartIn(n, p, v, new, i)
      BY <1>4, <1>7, <3>1, <3>2
    <3>5. new[i] = SubSeq(W, FirstIn(new, i), LastFrom(n, p, FirstIn(new, i)))
      BY <1>4, <1>5, <3>1, <3>2
    <3>6. ASSUME NEW j \in 1..i - 1 PROVE FirstIn(new, j) < FirstIn(new, i)
      <4>1. j \in 1..m
        BY <1>5, <3>1
      <4>2. FirstIn(chs, j) < FirstIn(chs, i)
        BY <1>4, <3>1
      <4>3. QED
        BY <1>6, <3>2, <4>1, <4>2
    <3>7. QED
      BY <3>2, <3>3, <3>4, <3>5, <3>6
  <2>3. QED
    BY <2>1, <2>2
<1>11. ASSUME NEW w \in 1..n, w < next
       PROVE  \E i \in 1..m + 1 : w \in FirstIn(new, i)..LastFrom(n, p, FirstIn(new, i))
  <2>1. CASE w < a
    <3>1. PICK i \in 1..m : w \in FirstIn(chs, i)..LastFrom(n, p, FirstIn(chs, i))
      BY <1>4, <2>1
    <3>2. i \in 1..m + 1 /\ FirstIn(new, i) = FirstIn(chs, i)
      BY <1>5, <1>6
    <3>3. QED
      BY <3>1, <3>2
  <2>2. CASE ~(w < a)
    <3>1. w \in a..b /\ m + 1 \in 1..m + 1
      BY <1>1, <1>2, <1>5, <1>11, <2>2
    <3>2. QED
      BY <1>6, <3>1 DEF b
  <2>3. QED
    BY <2>1, <2>2
<1>12. Len(new) + 1 = m + 2
  BY <1>5
<1>13. QED
  BY <1>5, <1>8, <1>10, <1>11, <1>12 DEF WordChunksFit, n, b, next, c, new

\* What one step of combineWordChunks does to the invariant.
LEMMA WordOptions ==
    ASSUME size \in Nat, chunkOverlap \in Nat
    PROVE  WordsPerChunk \in Nat \ {0} /\ OverlapWords \in Nat
<1>1. size \div 5 \in Nat /\ chunkOverlap \div 5 \in Nat
  OBVIOUS
<1> DEFINE x == size \div 5
<1> HIDE DEF x
<1>2. x \in Nat /\ WordsPerChunk = IF x < 1 THEN 1 ELSE x
  BY <1>1 DEF x, WordsPerChunk
<1>3. QED
  BY <1>1, <1>2 DEF OverlapWords

LEMMA TakeWordsFits ==
    ASSUME ChunkerInductive, TokensFit, TakeWords
    PROVE  TokensFit'
<1> DEFINE n == Len(Words)  p == WordsPerChunk  v == OverlapWords  b == LastFrom(n, p, taken)
           next == NextFrom(n, p, v, taken)  new == Append(chunks, SubSeq(Words, taken, b))
<1>1. text \in Texts /\ size \in Nat /\ chunkOverlap \in Nat
  BY DEF ChunkerInductive
<1>2. p \in Nat \ {0} /\ v \in Nat
  BY <1>1, WordOptions
<1>3. IsText(Words) /\ n \in Nat
  BY <1>1, WordsAreText DEF IsText
<1>4. taken \in Nat \ {0} /\ taken <= n /\ ~cutDone /\ WordChunksFit(Words, p, v, chunks, taken)
  BY DEF TokensFit, TakeWords
<1> DEFINE end == IF taken + p > n + 1 THEN n + 1 ELSE taken + p
<1>5. /\ chunks' = Append(chunks, SubSeq(Words, taken, end - 1))
      /\ taken' = NextStart(taken, end)
      /\ UNCHANGED <<text, size, chunkOverlap, cutDone>>
  BY DEF TakeWords
<1>6. Words' = Words /\ p' = p /\ v' = v
  BY <1>5 DEF Words, WordsPerChunk, OverlapWords
<1>7. NextStart(taken, end) = IF end - v <= taken THEN taken + 1 ELSE end - v
  BY DEF NextStart
<1> HIDE DEF n, p, v
<1>8. end - 1 = b /\ end = b + 1 /\ b \in Int
  BY <1>2, <1>3, <1>4 DEF LastFrom
<1> HIDE DEF end, b
<1>9. chunks' = new /\ taken' = next
  <2>1. next = IF b + 1 - v <= taken THEN taken + 1 ELSE b + 1 - v
    BY DEF NextFrom, b
  <2>2. QED
    BY <1>2, <1>4, <1>5, <1>7, <1>8, <2>1
<1>10. taken \in 1..n
  BY <1>3, <1>4
<1>11. WordChunksFit(Words, p, v, new, next)
  BY <1>2, <1>3, <1>4, <1>10, WordChunksGrow DEF n, b
<1>12. next \in Nat \ {0}
  <2>1. b \in taken..n /\ next \in taken + 1..b + 1
    BY <1>2, <1>3, <1>10, NextIs DEF b
  <2>2. QED
    BY <1>10, <2>1
<1> HIDE DEF new, next
<1>13. QED
  BY <1>4, <1>5, <1>6, <1>9, <1>11, <1>12 DEF TokensFit, p, v

\* A suffix ends with the same word.
LEMMA SuffixLast ==
    ASSUME NEW s \in Seq(Piece), NEW t \in Seq(Piece), Len(s) # 0, IsSuffix(s, t)
    PROVE  Len(t) # 0 /\ s[Len(s)] = t[Len(t)]
<1> DEFINE m == Len(s)  n == Len(t)  r == Reverse(s)  q == Reverse(t)
<1>1. m \in Nat /\ n \in Nat
  OBVIOUS
<1>2. r = [i \in 1..m |-> s[(m - i) + 1]] /\ q = [i \in 1..n |-> t[(n - i) + 1]]
  BY DEF Reverse
<1>3. \A i \in 1..m : s[(m - i) + 1] \in Piece
  <2>1. \A i \in 1..m : (m - i) + 1 \in 1..m
    BY <1>1
  <2>2. QED
    BY <2>1, ElementOfSeq
<1>4. \A i \in 1..n : t[(n - i) + 1] \in Piece
  <2>1. \A i \in 1..n : (n - i) + 1 \in 1..n
    BY <1>1
  <2>2. QED
    BY <2>1, ElementOfSeq
<1> HIDE DEF r, q
<1>5. r \in Seq(Piece) /\ Len(r) = m
  BY <1>1, <1>2, <1>3
<1>6. q \in Seq(Piece) /\ Len(q) = n
  BY <1>1, <1>2, <1>4
<1>7. Len(r) <= Len(q) /\ SubSeq(r, 1, Len(r)) = SubSeq(q, 1, Len(r))
  BY DEF IsSuffix, IsPrefix, r, q
<1> HIDE DEF m, n
<1>8. m \in 1..n /\ 1 \in 1..m /\ 1 \in 1..n
  BY <1>1, <1>5, <1>6, <1>7 DEF m
<1>9. SubSeq(r, 1, m)[1] = r[1]
  <2>1. \A i \in 1..m : r[i] \in Piece
    BY <1>5, ElementOfSeq
  <2>2. \A i \in 1..m - 1 + 1 : SubSeq(r, 1, m)[i] = r[1 + i - 1]
    BY <1>1, <2>1, SubSeqProperties
  <2>3. m - 1 + 1 = m /\ \A i \in 1..m : 1 + i - 1 = i
    BY <1>1
  <2>4. \A i \in 1..m : SubSeq(r, 1, m)[i] = r[i]
    BY <2>2, <2>3
  <2>5. QED
    BY <1>8, <2>4
<1>10. SubSeq(q, 1, m)[1] = q[1]
  <2>1. \A i \in 1..m : q[i] \in Piece
    BY <1>6, <1>8, ElementOfSeq
  <2>2. \A i \in 1..m - 1 + 1 : SubSeq(q, 1, m)[i] = q[1 + i - 1]
    BY <1>1, <2>1, SubSeqProperties
  <2>3. m - 1 + 1 = m /\ \A i \in 1..m : 1 + i - 1 = i
    BY <1>1
  <2>4. \A i \in 1..m : SubSeq(q, 1, m)[i] = q[i]
    BY <2>2, <2>3
  <2>5. QED
    BY <1>8, <2>4
<1>11. r[1] = s[m] /\ q[1] = t[n]
  <2>1. (m - 1) + 1 = m /\ (n - 1) + 1 = n
    BY <1>1
  <2>2. QED
    BY <1>2, <1>8, <2>1
<1>12. QED
  BY <1>5, <1>7, <1>8, <1>9, <1>10, <1>11 DEF m, n

\* Of the chunks by words, those that are only a suffix of the one before are
\* not more than the words of the overlap.
LEMMA FewSuffixes ==
    ASSUME NEW W, IsText(W), NEW p \in Nat \ {0}, NEW v \in Nat, NEW chs, NEW next \in Nat,
           WordChunksFit(W, p, v, chs, next)
    PROVE  Cardinality({i \in 1..Len(chs) : i > 1 /\ IsSuffix(chs[i], chs[i - 1])}) <= v
<1> DEFINE n == Len(W)  m == Len(chs)  S == {i \in 1..m : i > 1 /\ IsSuffix(chs[i], chs[i - 1])}
           T == n + 1 - v..n  f == [i \in S |-> FirstIn(chs, i)]
<1>1. n \in Nat
  BY DEF IsText
<1>2. /\ chs \in Seq(Seq(Piece)) /\ m \in Nat
      /\ \A i \in 1..m :
            /\ FirstIn(chs, i) \in 1..n
            /\ FirstIn(chs, i) = StartIn(n, p, v, chs, i)
            /\ chs[i] = SubSeq(W, FirstIn(chs, i), LastFrom(n, p, FirstIn(chs, i)))
            /\ \A j \in 1..i - 1 : FirstIn(chs, j) < FirstIn(chs, i)
  <2>1. chs \in Seq(Seq(Piece))
    BY DEF WordChunksFit
  <2>2. m \in Nat
    BY <2>1
  <2>3. QED
    BY <2>1, <2>2 DEF WordChunksFit
<1> HIDE DEF n, m
<1>3. ASSUME NEW i \in 1..m
      PROVE  LET a == FirstIn(chs, i)  b == LastFrom(n, p, a) IN
             /\ b \in a..n /\ chs[i] \in Seq(Piece) /\ Len(chs[i]) = b - a + 1
             /\ chs[i][Len(chs[i])].word = b
  <2> DEFINE a == FirstIn(chs, i)  b == LastFrom(n, p, a)
  <2>1. a \in 1..n /\ chs[i] = SubSeq(W, a, b)
    BY <1>2
  <2> HIDE DEF a
  <2>2. b \in a..n
    BY <1>1, <2>1, NextIs
  <2> HIDE DEF b
  <2>3. b \in 1..Len(W) /\ a \in 1..b /\ b - a + 1 \in 1..b - a + 1 /\ a + (b - a + 1) - 1 = b
    BY <1>1, <2>1, <2>2 DEF n
  <2>4. /\ SubSeq(W, a, b) \in Seq(Piece) /\ Len(SubSeq(W, a, b)) = b - a + 1
        /\ \A j \in 1..b - a + 1 : SubSeq(W, a, b)[j].word = a + j - 1
    BY <2>3, WordChunkIs
  <2>5. SubSeq(W, a, b)[b - a + 1].word = b
    BY <2>3, <2>4
  <2>6. QED
    BY <2>1, <2>2, <2>4, <2>5 DEF a, b
<1>4. ASSUME NEW i \in S PROVE FirstIn(chs, i) \in T
  <2>1. i \in 1..m /\ i > 1 /\ IsSuffix(chs[i], chs[i - 1])
    OBVIOUS
  <2>2. PICK h \in 1..m : h = i - 1 /\ h \in 1..i - 1
    BY <1>2, <2>1
  <2> DEFINE a == FirstIn(chs, i)  b == LastFrom(n, p, a)  c == FirstIn(chs, h)  d == LastFrom(n, p, c)
  <2>3. /\ b \in a..n /\ chs[i] \in Seq(Piece) /\ Len(chs[i]) = b - a + 1
        /\ chs[i][Len(chs[i])].word = b
    BY <1>3, <2>1
  <2>4. d \in c..n /\ chs[h] \in Seq(Piece) /\ chs[h][Len(chs[h])].word = d
    BY <1>3
  <2>5. a \in 1..n /\ c \in 1..n /\ c < a
    BY <1>2, <2>1, <2>2
  <2>6. a = NextFrom(n, p, v, c)
    <3>1. a = StartIn(n, p, v, chs, i)
      BY <1>2, <2>1
    <3>2. i # 1
      BY <2>1
    <3>3. QED
      BY <2>2, <3>1, <3>2 DEF StartIn
  <2> HIDE DEF S
  <2>7. Len(chs[i]) # 0
    <3> DEFINE len == Len(chs[i])
    <3> HIDE DEF len, a, b
    <3>1. len = b - a + 1 /\ b \in a..n /\ a \in 1..n
      BY <2>3, <2>5 DEF len
    <3>2. len # 0
      BY <1>1, <3>1
    <3>3. QED
      BY <3>2 DEF len
  <2>8. b = d
    BY <2>1, <2>2, <2>3, <2>4, <2>7, SuffixLast
  <2>9. d = n
    <3>1. b = IF a + p > n + 1 THEN n ELSE a + p - 1
      BY DEF LastFrom
    <3>2. d = IF c + p > n + 1 THEN n ELSE c + p - 1
      BY DEF LastFrom
    <3> HIDE DEF a, b, c, d
    <3>3. p \in Nat /\ n \in Nat /\ a \in Nat /\ c \in Nat /\ c < a
      BY <1>1, <2>5
    <3>4. CASE c + p > n + 1
      BY <3>2, <3>4
    <3>5. CASE ~(c + p > n + 1)
      <4>1. d = c + p - 1
        BY <3>2, <3>5
      <4>2. ~(a + p - 1 = c + p - 1)
        BY <3>3
      <4>3. QED
        BY <2>8, <3>1, <4>1, <4>2
    <3>6. QED
      BY <3>4, <3>5
  <2>10. NextFrom(n, p, v, c) >= n + 1 - v
    BY <1>1, <2>5, <2>9, NextIs
  <2> HIDE DEF a, b, c, d
  <2>11. a \in T
    BY <1>1, <2>5, <2>6, <2>10
  <2>12. QED
    BY <2>11 DEF a
<1>5. ASSUME NEW i \in S, NEW j \in S, FirstIn(chs, i) = FirstIn(chs, j) PROVE i = j
  <2>1. i \in 1..m /\ j \in 1..m
    OBVIOUS
  <2> HIDE DEF S
  <2>2. FirstIn(chs, i) \in 1..n /\ FirstIn(chs, j) \in 1..n
    BY <1>2, <2>1
  <2>3. ~(i < j) /\ ~(j < i)
    <3>1. (i < j => i \in 1..j - 1) /\ (j < i => j \in 1..i - 1)
      BY <1>2, <2>1
    <3>2. (i < j => FirstIn(chs, i) < FirstIn(chs, j)) /\ (j < i => FirstIn(chs, j) < FirstIn(chs, i))
      BY <1>2, <2>1, <3>1
    <3>3. QED
      BY <1>1, <1>5, <2>2, <3>2
  <2>4. QED
    BY <1>2, <2>1, <2>3
<1> HIDE DEF S
<1>6. f \in [S -> T] /\ DOMAIN f = S /\ \A i \in S : f[i] = FirstIn(chs, i)
  BY <1>4
<1>7. f \in Injection(S, T)
  BY <1>5, <1>6 DEF Injection, IsInjective
<1> HIDE DEF f
<1>8. n + 1 - v \in Int /\ n \in Int
  BY <1>1
<1>9. IsFiniteSet(T) /\ Cardinality(T) = IF n + 1 - v > n THEN 0 ELSE n - (n + 1 - v) + 1
  BY <1>8, FS_Interval
<1>10. Cardinality(T) = v
  BY <1>1, <1>9
<1>11. Cardinality(S) <= Cardinality(T)
  BY <1>7, <1>9, FS_Injection
<1>12. QED
  BY <1>10, <1>11 DEF S, m
-----------------------------------------------------------------------------
(* The chunks are right *)

LEMMA ChunkerStarts == ChunkerInit => ChunkerInductive
<1> SUFFICES ASSUME ChunkerInit PROVE ChunkerInductive
  OBVIOUS
<1>1. /\ text \in Texts /\ size \in Nat /\ chunkOverlap \in Nat
      /\ method \in {"sentence", "token"} /\ cutDone = FALSE
      /\ current = <<>> /\ chunks = <<>> /\ starts = <<>>
      /\ taken = IF method = "sentence" THEN 0 ELSE 1
  BY ChunkOptionsAssumption DEF ChunkerInit
<1>2. Len(<<>>) = 0 /\ <<>> \in Seq(Seq(Piece)) /\ <<>> \in Seq(Nat)
  OBVIOUS
<1>3. ASSUME method = "sentence" PROVE SentencesFit
  <2>1. Len(text.ends) \in Nat
    BY <1>1, SentenceEnds
  <2>2. taken = 0 /\ taken \in 0..Len(text.ends)
    BY <1>1, <1>3, <2>1
  <2>3. ChunksFit(Document, chunks, starts)
    BY <1>1, <1>2 DEF ChunksFit
  <2>4. QED
    BY <1>1, <1>2, <2>2, <2>3 DEF SentencesFit
<1>4. ASSUME method = "token" PROVE TokensFit
  <2>1. taken = 1
    BY <1>1, <1>4
  <2>2. IsText(Words) /\ Len(Words) \in Nat
    BY <1>1, WordsAreText DEF IsText
  <2> DEFINE n == Len(Words)
  <2> HIDE DEF n
  <2>3. \A w \in 1..n : ~(w < taken)
    BY <2>1, <2>2 DEF n
  <2>4. StartIn(n, WordsPerChunk, OverlapWords, chunks, Len(chunks) + 1) = taken
    <3>1. Len(chunks) + 1 = 1
      BY <1>1, <1>2
    <3>2. QED
      BY <2>1, <3>1 DEF StartIn
  <2>5. \A i \in 1..Len(chunks) : FALSE
    BY <1>1, <1>2
  <2>6. WordChunksFit(Words, WordsPerChunk, OverlapWords, chunks, taken)
    BY <1>1, <1>2, <2>3, <2>4, <2>5 DEF WordChunksFit, n
  <2>7. QED
    BY <1>1, <2>1, <2>6 DEF TokensFit
<1>5. QED
  BY <1>1, <1>3, <1>4 DEF ChunkerInductive

LEMMA ChunkerSteps == ChunkerInductive /\ [ChunkerNext]_chunkVars => ChunkerInductive'
<1> SUFFICES ASSUME ChunkerInductive, [ChunkerNext]_chunkVars PROVE ChunkerInductive'
  OBVIOUS
<1>1. /\ text \in Texts /\ size \in Nat /\ chunkOverlap \in Nat
      /\ method \in {"sentence", "token"} /\ cutDone \in BOOLEAN
      /\ method = "sentence" => SentencesFit
      /\ method = "token" => TokensFit
  BY DEF ChunkerInductive
<1>2. UNCHANGED <<text, size, chunkOverlap, method>> /\ cutDone' \in BOOLEAN
  BY <1>1 DEF ChunkerNext, TakeSentence, EndOfSentences, TakeWords, WordsDone, chunkVars
<1>3. ASSUME method = "sentence" PROVE SentencesFit'
  <2>1. SentencesFit
    BY <1>1, <1>3
  <2>2. CASE TakeSentence
    BY <2>1, <2>2, TakeTooLong, TakeShort
  <2>3. CASE EndOfSentences
    BY <2>1, <2>3, EndFits
  <2>4. CASE UNCHANGED chunkVars
    <3>1. /\ UNCHANGED <<text, size, chunkOverlap, taken, current, chunks, starts, cutDone>>
      BY <2>4 DEF chunkVars
    <3>2. /\ Document' = Document /\ Words' = Words
          /\ SentenceEnd(taken)' = SentenceEnd(taken) /\ Sentence(taken)' = Sentence(taken)
      <4>1. PICK s : s = taken
        OBVIOUS
      <4>2. taken' = s
        BY <3>1, <4>1
      <4>3. QED
        BY <3>1, <4>1, <4>2, SameDocument
    <3>3. QED
      BY <2>1, <3>1, <3>2 DEF SentencesFit
  <2>5. QED
    BY <1>3, <2>2, <2>3, <2>4 DEF ChunkerNext, TakeWords, WordsDone
<1>4. ASSUME method = "token" PROVE TokensFit'
  <2>1. TokensFit
    BY <1>1, <1>4
  <2>2. CASE TakeWords
    BY <2>1, <2>2, TakeWordsFits
  <2>3. ASSUME UNCHANGED <<text, size, chunkOverlap, taken, chunks>>, cutDone' => taken > Len(Words)
        PROVE  TokensFit'
    <3>1. Words' = Words /\ WordsPerChunk' = WordsPerChunk /\ OverlapWords' = OverlapWords
      BY <2>3 DEF Words, WordsPerChunk, OverlapWords
    <3>2. QED
      BY <2>1, <2>3, <3>1 DEF TokensFit
  <2>4. CASE WordsDone
    BY <2>3, <2>4 DEF WordsDone
  <2>5. CASE UNCHANGED chunkVars
    BY <2>1, <2>3, <2>5 DEF chunkVars, TokensFit
  <2>6. QED
    BY <1>4, <2>2, <2>4, <2>5 DEF ChunkerNext, TakeSentence, EndOfSentences
<1>5. QED
  BY <1>1, <1>2, <1>3, <1>4 DEF ChunkerInductive

\* By sentences: nothing is lost, the end is repeated, and the size is kept.
LEMMA SentencesAreKept ==
    ASSUME ChunkerInductive, method = "sentence"
    PROVE  NothingLost /\ RepeatsTheEnd /\ SizeUnlessOneSentence
<1> DEFINE doc == Document  m == Len(chunks)
<1>1. ChunksFit(doc, chunks, starts) /\ (cutDone => EndIn(chunks, m) = Len(Words))
  BY DEF ChunkerInductive, SentencesFit
<1>2. chunks \in Seq(Seq(Piece)) /\ starts \in Seq(Nat) /\ m \in Nat /\ DOMAIN chunks = 1..m
  <2>1. chunks \in Seq(Seq(Piece)) /\ starts \in Seq(Nat)
    BY <1>1 DEF ChunksFit
  <2>2. QED
    BY <2>1
<1>3. doc.words = Words /\ doc.size = size /\ doc.overlap = chunkOverlap
      /\ doc.sentences = {Sentence(s) : s \in DOMAIN text.ends}
  BY DEF Document
<1> HIDE DEF doc
<1>4. ASSUME NEW i \in 1..m
      PROVE  /\ Fresh(i) = Behind(chunks[i], RepeatedIn(starts, i))
             /\ ChunkFits(doc, chunks[i], BeforeIn(chunks, i), EndIn(chunks, i - 1), RepeatedIn(starts, i), EndIn(chunks, i))
  <2>1. ChunkFits(doc, chunks[i], BeforeIn(chunks, i), EndIn(chunks, i - 1), RepeatedIn(starts, i), EndIn(chunks, i))
    BY <1>1 DEF ChunksFit
  <2>2. chunks[i] \in Seq(Piece)
    BY <2>1 DEF ChunkFits
  <2>3. CASE i = 1
    <3>1. Fresh(i) = chunks[i] /\ RepeatedIn(starts, i) = 0
      BY <2>3 DEF Fresh, RepeatedIn
    <3>2. QED
      BY <2>1, <2>2, <3>1, BehindNothing
  <2>4. CASE i # 1
    <3>1. Fresh(i) = SubSeq(chunks[i], starts[i - 1] + 1, Len(chunks[i])) /\ RepeatedIn(starts, i) = starts[i - 1]
      BY <2>4 DEF Fresh, RepeatedIn
    <3>2. QED
      BY <2>1, <3>1 DEF Behind
  <2>5. QED
    BY <2>3, <2>4
<1>5. \A i \in 0..m : EndOf(i) = EndIn(chunks, i)
  BY DEF EndOf, EndIn
<1>6. NothingLost
  <2>1. ASSUME NEW i \in 1..m
        PROVE  Fresh(i) # <<>> /\ Fresh(i) = SubSeq(Words, EndOf(i - 1) + 1, EndOf(i))
    <3> DEFINE c == chunks[i]  k == RepeatedIn(starts, i)
    <3>1. /\ c \in Seq(Piece) /\ k \in 0..Len(c) - 1
          /\ Behind(c, k) = SubSeq(doc.words, EndIn(chunks, i - 1) + 1, EndIn(chunks, i))
      BY <1>4 DEF ChunkFits
    <3>2. EndOf(i - 1) = EndIn(chunks, i - 1) /\ EndOf(i) = EndIn(chunks, i)
      <4>1. i - 1 \in 0..m /\ i \in 0..m
        BY <1>2
      <4>2. QED
        BY <1>5, <4>1
    <3>3. Behind(c, k) # <<>>
      <4> HIDE DEF c, k
      <4>1. Len(c) \in Nat
        BY <3>1
      <4>2. k \in 0..Len(c) /\ k # Len(c)
        BY <3>1, <4>1
      <4>3. Behind(c, k) = <<>> <=> k = Len(c)
        BY <3>1, <4>2, BehindIs
      <4>4. QED
        BY <4>2, <4>3
    <3>4. QED
      BY <1>3, <1>4, <3>1, <3>2, <3>3
  <2>2. EndOf(m) = EndIn(chunks, m)
    BY <1>2, <1>5
  <2>3. QED
    BY <1>1, <1>2, <2>1, <2>2 DEF NothingLost
<1>7. RepeatsTheEnd
  <2>1. SUFFICES ASSUME NEW i \in DOMAIN starts, i + 1 \in 1..m
        PROVE  LET again == SubSeq(chunks[i + 1], 1, starts[i]) IN
               /\ Length(again) <= chunkOverlap
               /\ \/ IsSuffix(again, chunks[i])
                  \/ Len(again) = 1 /\ again[1].word = Last(chunks[i]).word
    BY <1>2 DEF RepeatsTheEnd
  <2>2. PICK h \in 1..m : h = i + 1 /\ h # 1 /\ h - 1 = i /\ i \in 1..m
    <3>1. i \in Nat /\ i # 0
      BY <1>2
    <3> HIDE DEF m
    <3>2. i + 1 # 1 /\ (i + 1) - 1 = i /\ i \in 1..m
      BY <1>2, <2>1, <3>1
    <3>3. QED
      BY <2>1, <3>2
  <2>3. RepeatedIn(starts, h) = starts[i] /\ BeforeIn(chunks, h) = chunks[i]
    BY <2>2 DEF RepeatedIn, BeforeIn
  <2>4. RepeatFits(chunkOverlap, SubSeq(chunks[h], 1, starts[i]), chunks[i])
    BY <1>3, <1>4, <2>3 DEF ChunkFits
  <2>5. chunks[i] # <<>>
    <3> DEFINE c == chunks[i]
    <3>1. c \in Seq(Piece) /\ RepeatedIn(starts, i) \in 0..Len(c) - 1
      BY <1>4, <2>2 DEF ChunkFits
    <3> HIDE DEF c
    <3>2. Len(c) # 0
      BY <3>1
    <3>3. c # <<>>
      BY <3>2
    <3>4. QED
      BY <3>3 DEF c
  <2>6. QED
    BY <2>2, <2>4, <2>5 DEF RepeatFits
<1>8. SizeUnlessOneSentence
  <2>1. SUFFICES ASSUME NEW i \in 1..m, Length(chunks[i]) > size
        PROVE  \E s \in DOMAIN text.ends : Fresh(i) = Sentence(s)
    BY <1>2 DEF SizeUnlessOneSentence
  <2>2. Fresh(i) \in doc.sentences
    BY <1>3, <1>4, <2>1 DEF ChunkFits
  <2>3. QED
    BY <1>3, <2>2
<1>9. QED
  BY <1>6, <1>7, <1>8

\* By words: every word is in a chunk, and the chunks go on.
LEMMA WordsAreCovered ==
    ASSUME ChunkerInductive, method = "token"
    PROVE  WordsCovered
<1> DEFINE W == Words  n == Len(W)  p == WordsPerChunk  v == OverlapWords  m == Len(chunks)
           First(i) == FirstIn(chunks, i)  End(i) == LastFrom(n, p, FirstIn(chunks, i))
<1>1. /\ taken \in Nat /\ WordChunksFit(W, p, v, chunks, taken) /\ (cutDone => taken > n)
      /\ text \in Texts /\ size \in Nat /\ chunkOverlap \in Nat
  BY DEF ChunkerInductive, TokensFit
<1>2. IsText(W) /\ n \in Nat /\ W \in Seq(Piece)
  BY <1>1, WordsAreText DEF IsText
<1>3. p \in Nat \ {0} /\ v \in Nat
  BY <1>1, WordOptions
<1>4. chunks \in Seq(Seq(Piece)) /\ m \in Nat /\ DOMAIN chunks = 1..m
  <2>1. chunks \in Seq(Seq(Piece))
    BY <1>1 DEF WordChunksFit
  <2>2. QED
    BY <2>1
<1>5. Cardinality({i \in 1..m : i > 1 /\ IsSuffix(chunks[i], chunks[i - 1])}) <= v
  <2> HIDE DEF W, p, v
  <2>1. QED
    BY <1>1, <1>2, <1>3, FewSuffixes
<1> HIDE DEF W, n, p, v, m
<1>6. /\ \A i \in 1..m :
            /\ FirstIn(chunks, i) \in 1..n
            /\ FirstIn(chunks, i) = StartIn(n, p, v, chunks, i)
            /\ chunks[i] = SubSeq(W, FirstIn(chunks, i), LastFrom(n, p, FirstIn(chunks, i)))
            /\ \A j \in 1..i - 1 : FirstIn(chunks, j) < FirstIn(chunks, i)
      /\ \A w \in 1..n : w < taken =>
            \E i \in 1..m : w \in FirstIn(chunks, i)..LastFrom(n, p, FirstIn(chunks, i))
  BY <1>1 DEF WordChunksFit, n, m
<1>7. ASSUME NEW i \in 1..m
      PROVE  LET a == FirstIn(chunks, i)  b == LastFrom(n, p, a) IN
             /\ b \in a..n /\ b - a < p /\ NextFrom(n, p, v, a) \in a + 1..b + 1
             /\ Len(chunks[i]) = b - a + 1
             /\ \A j \in 1..b - a + 1 : chunks[i][j] = W[a + j - 1] /\ chunks[i][j].word = a + j - 1
  <2> DEFINE a == FirstIn(chunks, i)  b == LastFrom(n, p, a)
  <2>1. a \in 1..n /\ chunks[i] = SubSeq(W, a, b)
    BY <1>6
  <2> HIDE DEF a
  <2>2. b \in a..n /\ b - a < p /\ NextFrom(n, p, v, a) \in a + 1..b + 1
    BY <1>2, <1>3, <2>1, NextIs
  <2> HIDE DEF b
  <2>3. b \in 1..Len(W) /\ a \in 1..b
    BY <1>2, <2>1, <2>2 DEF n
  <2>4. /\ Len(SubSeq(W, a, b)) = b - a + 1
        /\ \A j \in 1..b - a + 1 : SubSeq(W, a, b)[j] = W[a + j - 1] /\ SubSeq(W, a, b)[j].word = a + j - 1
    BY <1>2, <2>3, WordChunkIs
  <2>5. QED
    BY <2>1, <2>2, <2>4 DEF a, b
<1>8. ASSUME cutDone, NEW x \in Range(W) PROVE \E i \in 1..m : x \in Range(chunks[i])
  <2>1. PICK w \in 1..n : x = W[w]
    BY <1>2 DEF Range, n
  <2>2. w < taken
    BY <1>1, <1>2, <1>8
  <2>3. PICK i \in 1..m : w \in FirstIn(chunks, i)..LastFrom(n, p, FirstIn(chunks, i))
    BY <1>6, <2>2
  <2> DEFINE a == FirstIn(chunks, i)  b == LastFrom(n, p, a)
  <2>4. /\ a \in 1..n /\ b \in a..n /\ Len(chunks[i]) = b - a + 1
        /\ \A j \in 1..b - a + 1 : chunks[i][j] = W[a + j - 1]
    BY <1>6, <1>7
  <2> HIDE DEF a
  <2>5. w \in a..b
    BY <2>3 DEF a
  <2> HIDE DEF b
  <2>6. PICK j \in 1..b - a + 1 : a + j - 1 = w
    <3>1. w - a + 1 \in 1..b - a + 1 /\ a + (w - a + 1) - 1 = w
      BY <1>2, <2>4, <2>5
    <3>2. QED
      BY <3>1
  <2>7. chunks[i][j] = x
    BY <2>1, <2>4, <2>6
  <2>8. chunks[i] \in Seq(Piece) /\ j \in 1..Len(chunks[i])
    <3>1. i \in DOMAIN chunks
      BY <1>4 DEF m
    <3>2. QED
      BY <1>4, <2>4, <3>1 DEF m
  <2>9. DOMAIN chunks[i] = 1..Len(chunks[i])
    BY <2>8
  <2>10. QED
    BY <2>7, <2>8, <2>9 DEF Range
<1>9. ASSUME NEW i \in 1..m
      PROVE  /\ Len(chunks[i]) \in 1..p
             /\ i > 1 => /\ chunks[i][1].word > chunks[i - 1][1].word
                         /\ chunks[i][1].word <= Last(chunks[i - 1]).word + 1
  <2> DEFINE a == FirstIn(chunks, i)  b == LastFrom(n, p, a)
  <2>1. a \in 1..n /\ b \in a..n /\ b - a < p /\ Len(chunks[i]) = b - a + 1
    BY <1>6, <1>7
  <2>2. Len(chunks[i]) \in 1..p
    <3> HIDE DEF a, b
    <3>1. b - a + 1 \in 1..p
      BY <1>2, <1>3, <2>1
    <3>2. QED
      BY <2>1, <3>1
  <2>3. ASSUME i > 1
        PROVE  /\ chunks[i][1].word > chunks[i - 1][1].word
               /\ chunks[i][1].word <= Last(chunks[i - 1]).word + 1
    <3>1. PICK h \in 1..m : h = i - 1 /\ h \in 1..i - 1 /\ i # 1
      BY <1>4, <2>3
    <3> DEFINE c == FirstIn(chunks, h)  d == LastFrom(n, p, c)
    <3>2. /\ c \in 1..n /\ d \in c..n /\ NextFrom(n, p, v, c) \in c + 1..d + 1
          /\ Len(chunks[h]) = d - c + 1
          /\ \A j \in 1..d - c + 1 : chunks[h][j].word = c + j - 1
      BY <1>6, <1>7
    <3>3. a = NextFrom(n, p, v, c)
      <4>1. a = StartIn(n, p, v, chunks, i)
        BY <1>6
      <4>2. QED
        BY <3>1, <4>1 DEF StartIn
    <3>4. chunks[i][1].word = a /\ chunks[h][1].word = c
      BY DEF FirstIn
    <3> HIDE DEF a, b, c, d
    <3>5. d - c + 1 \in 1..d - c + 1 /\ c + (d - c + 1) - 1 = d
      BY <1>2, <3>2
    <3>6. chunks[h][d - c + 1].word = d
      BY <3>2, <3>5
    <3>7. Last(chunks[h]).word = d
      BY <3>2, <3>6 DEF Last
    <3>8. a > c /\ a <= d + 1
      BY <1>2, <3>2, <3>3
    <3>9. QED
      BY <3>1, <3>4, <3>7, <3>8
  <2>4. QED
    BY <2>2, <2>3
<1>10. QED
  BY <1>4, <1>5, <1>8, <1>9 DEF WordsCovered, W, p, v, m

LEMMA ChunkerIsRight == ChunkerInductive => ChunkerInv
<1> SUFFICES ASSUME ChunkerInductive PROVE ChunkerInv
  OBVIOUS
<1>1. method \in {"sentence", "token"}
  BY DEF ChunkerInductive
<1>2. CASE method = "sentence"
  BY <1>2, SentencesAreKept DEF ChunkerInv, WordsCovered
<1>3. CASE method = "token"
  BY <1>3, WordsAreCovered DEF ChunkerInv, NothingLost, RepeatsTheEnd, SizeUnlessOneSentence
<1>4. QED
  BY <1>1, <1>2, <1>3

\* The chunker (chunker/service.go): no sentence is lost, cut or out of its place,
\* what is repeated is the end of the chunk before, a chunk longer than the size
\* has one new sentence, and by words all are covered; for any document, size and
\* overlap.
THEOREM ChunksAreRight == ChunkerSpec => []ChunkerInv
<1>1. ChunkerSpec => []ChunkerInductive
  BY ChunkerStarts, ChunkerSteps, PTL DEF ChunkerSpec
<1>2. QED
  BY <1>1, ChunkerIsRight, PTL

\* Retrieval as a whole: documents are cut without loss, stored and deleted as a
\* whole, and chats keep their story, whatever the interleaving of the three.
THEOREM RetrievalIsSound == RagSpec => []RagInv
<1>1. RagSpec => []ChunkerInv /\ []KnowledgeInv /\ []ConversationsInv
  BY ChunksAreRight, KnowledgeBaseIsCorrect, ConversationsAreKept DEF RagSpec
<1>2. QED
  BY <1>1, PTL DEF RagInv
=============================================================================
