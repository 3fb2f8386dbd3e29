-------------------------- MODULE AgentMemoryProofs --------------------------
(* Proofs about AgentMemory for any number of terminals, queries and        *)
(* cancellations, any bounds of the conversation and any period of the      *)
(* consolidation.                                                           *)
EXTENDS AgentMemory, SequenceTheorems, TLAPS

(* A thread at work works for a terminal that runs; the adapter has no      *)
(* long-term memory; a terminal with two threads at work has overlapped.    *)
Threads ==
    /\ \A q \in Query : asker[q] = Nobody <=> pc[q] \in {"none", "ended"}
    /\ \A q \in Query : asker[q] = Nobody => local[q] = NoLocal
    /\ \A q \in Query : asker[q] # Nobody => asker[q] \in running
    /\ \A q \in Query : pc[q] = "none" <=> q > nQueries
    /\ \A q, r \in Query : asker[q] = asker[r] /\ asker[q] \notin overlapped \cup {Nobody}
                               => q = r
    /\ \A q \in Query :
          /\ pc[q] \in {"tracking", "tracked", "clearing"} \cup Saves => backend = "agent"
          /\ pc[q] = "compacting" =>
                backend = "adapter" /\ Len(local[q].slice) > MaxMessages

(* An exchange is recorded in one terminal, by its own thread, after which  *)
(* it can be consolidated; a terminal consolidates what it has recorded.    *)
Fresh == {"none", "asking", "recording"}

RecordedOnce ==
    /\ \A t, u \in Terminal : t # u => Range(recorded[t]) \cap Range(recorded[u]) = {}
    /\ \A t \in Terminal : \A q \in Range(recorded[t]) :
          asker[q] \in {t, Nobody} /\ pc[q] \notin Fresh
    /\ \A t \in Terminal : Range(interactions[t]) \subseteq Range(recorded[t])
    /\ \A q \in Query : asker[q] # Nobody =>
          Range(local[q].taken) \subseteq Range(recorded[asker[q]])
    /\ \A q \in Query : pc[q] \in {"trimming", "tracking", "compacting"} =>
          q \in Range(recorded[asker[q]])
    /\ \A q \in Query : pc[q] \in Fresh => history[q] = 0

Whole(t) == t \in running \ overlapped

(* What has an end: it is in HISTORY.md, or never will be.                  *)
Stored == Logged \cup unlogged \cup unentered

(* The threads before and after the entry in HISTORY.md, and after the call *)
(* of consolidate.                                                          *)
Early == {"chatting", "logging"}
Late == {"replacing", "writing"}
Saved == Late \cup {"clearing"}
NotYet == {"trimming", "tracking"}

(* A thread w of t that consolidates has taken all that waits and is its    *)
(* own alone; what it has taken is not logged before its entry and is       *)
(* stored after it.                                                         *)
Holding(t, w) ==
    /\ \A r \in Range(local[w].taken) : pc[r] \notin NotYet
    /\ pc[w] \in Early => \A r \in Range(local[w].taken) \ atRisk : history[r] = 0
    /\ pc[w] \in Late => Range(local[w].taken) \subseteq Stored
    /\ pc[w] \in Early \cup Late =>
          Range(interactions[t]) \ atRisk \subseteq Range(local[w].taken)
    /\ pc[w] = "clearing" => Range(interactions[t]) \ atRisk \subseteq Stored

(* In a terminal that runs, an exchange waits for the consolidation from its*)
(* tracking on, and is logged once by the consolidation that clears it; an  *)
(* exchange that two of its threads have taken is at risk.                  *)
Layered(t) ==
    /\ \A r \in Range(recorded[t]) :
          pc[r] \in NotYet => history[r] = 0 /\ r \notin Range(interactions[t])
    /\ \A r \in Range(recorded[t]) \ atRisk :
          /\ history[r] <= 1
          /\ pc[r] \notin NotYet => r \in Range(interactions[t]) \cup Stored
    /\ (\A w \in Query : asker[w] = t => pc[w] \notin Saved) =>
          \A r \in Range(interactions[t]) : history[r] = 0
    /\ \A w \in Query : asker[w] = t => Holding(t, w)
    /\ \A w, x \in Query :
          /\ asker[w] = t /\ pc[w] \in Early \cup Late
          /\ asker[x] = t /\ pc[x] \in Early \cup Late /\ w # x
          => Range(local[w].taken) \cap Range(local[x].taken) \subseteq atRisk

Layers == backend = "agent" => \A t \in running : Layered(t)

(* What the LLM is told, c, after the exchanges of r: the last n of them    *)
(* and nothing between, perhaps behind a summary; and as many as the bound  *)
(* admits.  b is the backend.                                               *)
Line == Message \cup {Summary}

Tells(b, c, r, n) ==
    \/ c = Exchanges(LastOf(r, n))
    \/ b = "adapter" /\ c = <<Summary>> \o Exchanges(LastOf(r, n))
Enough(b, r, n) ==
    \/ n = Len(r)
    \/ b = "agent" /\ n = MaxPairs
    \/ b = "adapter" /\ 2 * n >= KeepRecent
Recalls(b, c, r) == \E n \in 0..Len(r) : Tells(b, c, r, n) /\ Enough(b, r, n)

(* The conversation recalls what is recorded, but for the first half of the *)
(* exchange that is being recorded; so does what is to replace it.          *)
Recalled(t) ==
    /\ Settled(t) => Recalls(backend, conversation[t], recorded[t])
    /\ \A q \in Query : asker[q] = t =>
          /\ pc[q] = "recording" =>
                \E c \in Seq(Line) : /\ conversation[t] = Append(c, Says("user", q))
                                     /\ Recalls(backend, c, recorded[t])
          /\ pc[q] = "trimming" => Recalls(backend, local[q].slice, recorded[t])
          /\ pc[q] = "compacting" =>
                /\ local[q].slice = conversation[t]
                /\ Recalls(backend, conversation[t], recorded[t])

Conversations == \A t \in Terminal : Whole(t) => Recalled(t)

(* A consolidation has read what MEMORY.md is to tell of, but for what was  *)
(* written since, or was being written; MEMORY.md has it all but while it is*)
(* rewritten.  Neither tells of what was not stored.                        *)
Told == Logged \cup unentered

Files ==
    /\ memory \subseteq Told
    /\ \A q \in Saving : /\ local[q].known \subseteq Told
                         /\ kept \ unseen[q] \subseteq local[q].known
    /\ \A q \in Query : pc[q] \in {"replacing", "writing"} =>
          Range(local[q].taken) \subseteq Told
    /\ Writing = {} => kept \subseteq memory

-----------------------------------------------------------------------------
LEMMA BoundFacts == MaxQueries \in Nat /\ MaxPairs \in Nat /\ MaxPairs > 0
                    /\ KeepRecent \in Nat /\ KeepRecent <= 2 * MaxPairs
                    /\ MaxMessages = 2 * MaxPairs /\ MaxMessages \in Nat
  BY BoundAssumption DEF MaxMessages

(* The end of a sequence that is long enough.                               *)
LEMMA LastOfProperties ==
    ASSUME NEW S, NEW s \in Seq(S), NEW n \in 0..Len(s)
    PROVE  /\ LastOf(s, n) \in Seq(S) /\ Len(LastOf(s, n)) = n
           /\ \A i \in 1..n : LastOf(s, n)[i] = s[Len(s) - n + i]
<1> DEFINE m == Len(s) - n + 1
<1>1. Len(s) \in Nat /\ n \in Nat /\ m \in Int /\ Len(s) \in Int
  BY LenProperties
<1>2. \A i \in m..Len(s) : s[i] \in S
  BY <1>1, ElementOfSeq
<1>3. /\ LastOf(s, n) \in Seq(S)
      /\ Len(LastOf(s, n)) = IF m <= Len(s) THEN Len(s) - m + 1 ELSE 0
      /\ \A i \in 1..Len(s) - m + 1 : LastOf(s, n)[i] = s[m + i - 1]
  BY <1>1, <1>2, SubSeqProperties DEF LastOf
<1> QED BY <1>1, <1>3

LEMMA MessageTypes ==
    /\ \A q \in Query : Says("user", q) \in Message \cup {Summary}
                        /\ Says("assistant", q) \in Message \cup {Summary}
    /\ <<Summary>> \in Seq(Message \cup {Summary}) /\ Len(<<Summary>>) = 1
  BY DEF Says, Message

LEMMA LocalTypes ==
    NoLocal \in [slice : Seq(Message \cup {Summary}), taken : Seq(Query),
                 known : SUBSET Query, update : BOOLEAN]
<1>1. <<>> \in Seq(Message \cup {Summary}) /\ <<>> \in Seq(Query)
  BY EmptySeq
<1> QED BY <1>1 DEF NoLocal

(* What a step of a thread does to the thread, and leaves alone.            *)
LEMMA ThreadMoves ==
    ASSUME TypeOK, Threads, NEW q \in Query, Thread(q)
    PROVE  /\ asker[q] \in running /\ asker[q] \in Terminal /\ asker[q] # Nobody
           /\ pc[q] \notin {"none", "ended"}
           /\ pc' = [pc EXCEPT ![q] = pc'[q]] /\ pc'[q] \in Label \ {"none", "asking"}
           /\ local' = [local EXCEPT ![q] = local'[q]]
           /\ asker' = [asker EXCEPT ![q] = asker'[q]]
           /\ \/ asker'[q] = asker[q] /\ pc'[q] # "ended"
              \/ asker'[q] = Nobody /\ pc'[q] = "ended" /\ local'[q] = NoLocal
           /\ UNCHANGED <<backend, running, nQueries, nCancels, cancel, overlapped>>
<1>1. pc[q] \notin {"none", "ended"}
  BY DEF Thread, Fails, RecordUser, RecordAssistant, Trim, Compact, CompactFails,
         Track, Consolidate, ConsolidateRaises, Reply, AppendHistory, Truncate,
         Write, SaveFails, Clear, At
<1>2. asker[q] \in running /\ asker[q] \in Terminal /\ asker[q] # Nobody
  BY <1>1 DEF Threads, TypeOK
<1> DEFINE Moves ==
    /\ pc' = [pc EXCEPT ![q] = pc'[q]] /\ pc'[q] \in Label \ {"none", "asking"}
    /\ local' = [local EXCEPT ![q] = local'[q]]
    /\ asker' = [asker EXCEPT ![q] = asker'[q]]
    /\ \/ asker'[q] = asker[q] /\ pc'[q] # "ended"
       \/ asker'[q] = Nobody /\ pc'[q] = "ended" /\ local'[q] = NoLocal
    /\ UNCHANGED <<running, nCancels, cancel>>
<1>3. ASSUME End(q) PROVE Moves
  BY <1>3 DEF End, TypeOK, Label
<1>4. ASSUME NEW label \in Label \ {"none", "asking", "ended"}, Goto(q, label) PROVE Moves
  BY <1>4 DEF Goto, session, TypeOK
<1>5. ASSUME NEW label \in Label \ {"none", "asking", "ended"}, NEW l, GotoWith(q, label, l)
      PROVE  Moves
  BY <1>5 DEF GotoWith, session, TypeOK
<1> HIDE DEF Moves
<1>6. ASSUME Recorded(q) PROVE Moves
  BY <1>6, <1>3, <1>4 DEF Recorded, Label
<1>7. Moves
  <2>1. CASE Fails(q) \/ ConsolidateRaises(q) \/ Compact(q) \/ Clear(q)
    BY <2>1, <1>3 DEF Fails, ConsolidateRaises, Compact, Clear
  <2>2. CASE RecordUser(q) \/ Track(q) \/ AppendHistory(q) \/ Truncate(q) \/ Write(q)
             \/ SaveFails(q)
    BY <2>2, <1>4, <1>5
       DEF RecordUser, Track, AppendHistory, Truncate, Write, SaveFails, Return, Label
  <2>3. CASE RecordAssistant(q) \/ Trim(q)
    BY <2>3, <1>5, <1>6 DEF RecordAssistant, Trim, Label
  <2>4. CASE CompactFails(q)
    BY <2>4, <1>5 DEF CompactFails, Label
  <2>5. CASE Consolidate(q)
    BY <2>5, <1>3, <1>5 DEF Consolidate, Label
  <2>6. CASE Reply(q)
    BY <2>6, <1>4, <1>5 DEF Reply, Return, Label
  <2> QED BY <2>1, <2>2, <2>3, <2>4, <2>5, <2>6 DEF Thread
<1>8. UNCHANGED <<backend, nQueries, overlapped>>
  BY DEF Thread, Fails, RecordUser, RecordAssistant, Trim, Compact, CompactFails,
         Track, Consolidate, ConsolidateRaises, Reply, AppendHistory, Truncate,
         Write, SaveFails, Clear, ghosts
<1> QED BY <1>1, <1>2, <1>7, <1>8 DEF Moves

(* Trimming and compacting make conversations of conversations.             *)
LEMMA TrimmedTypes ==
    ASSUME NEW c \in Seq(Message \cup {Summary})
    PROVE  Trimmed(c) \in Seq(Message \cup {Summary})
<1>1. CASE Len(c) > MaxMessages
  <2>1. MaxMessages \in 0..Len(c)
    BY <1>1, BoundFacts, LenProperties
  <2> QED BY <1>1, <2>1, LastOfProperties DEF Trimmed
<1>2. CASE ~(Len(c) > MaxMessages)
  BY <1>2 DEF Trimmed
<1> QED BY <1>1, <1>2

LEMMA CompactedTypes ==
    ASSUME NEW given \in Seq(Message \cup {Summary}), Len(given) > MaxMessages,
           NEW now \in Seq(Message \cup {Summary}), NEW result \in Compacted(given, now)
    PROVE  result \in Seq(Message \cup {Summary})
<1>1. KeepRecent \in 0..Len(given)
  BY BoundFacts, LenProperties
<1>2. <<Summary>> \o LastOf(given, KeepRecent) \in Seq(Message \cup {Summary})
  BY <1>1, LastOfProperties, MessageTypes, ConcatProperties
<1> QED BY <1>2 DEF Compacted

LEMMA RangeTypes ==
    ASSUME NEW S, NEW s \in Seq(S)
    PROVE  Range(s) \subseteq S /\ Range(s) = {s[i] : i \in 1..Len(s)}
  BY LenProperties DEF Range

(* Every action keeps the types.                                            *)
LEMMA TypeStep == ASSUME TypeOK, Threads, [Next]_vars PROVE TypeOK'
<1> USE DEF session, lists, files, threads, ghosts, unsaved, updates, Return
<1>1. CASE UNCHANGED vars
  BY <1>1 DEF vars, TypeOK
<1>2. ASSUME NEW t \in Terminal, Ask(t) PROVE TypeOK'
  <2>1. nQueries + 1 \in Query
    BY <1>2, BoundFacts DEF Ask, TypeOK, Query
  <2>2. nQueries' \in 0..MaxQueries
    BY <1>2, <2>1 DEF Ask, Query
  <2>3. /\ pending' \in [Terminal -> BOOLEAN] /\ cancel' \in [Terminal -> BOOLEAN]
        /\ pc' \in [Query -> Label]
        /\ asker' \in [Query -> Terminal \cup {Nobody}] /\ overlapped' \subseteq Terminal
    BY <1>2, <2>1 DEF Ask, TypeOK, Label
  <2> QED BY <1>2, <2>2, <2>3 DEF Ask, TypeOK
<1>3. ASSUME NEW t \in Terminal, CtrlC(t) PROVE TypeOK'
  <2>1. pending' \in [Terminal -> BOOLEAN] /\ cancel' \in [Terminal -> BOOLEAN]
    BY <1>3 DEF CtrlC, TypeOK
  <2>2. nCancels' \in 0..MaxCancels
    BY <1>3, BoundAssumption DEF CtrlC, TypeOK
  <2> QED BY <1>3, <2>1, <2>2 DEF CtrlC, TypeOK
<1>4. ASSUME NEW t \in Terminal, Exit(t) PROVE TypeOK'
  <2>1. <<>> \in Seq(Message \cup {Summary}) /\ <<>> \in Seq(Query)
    BY EmptySeq
  <2>2. /\ conversation' \in [Terminal -> Seq(Message \cup {Summary})]
        /\ interactions' \in [Terminal -> Seq(Query)]
        /\ recorded' \in [Terminal -> Seq(Query)]
    BY <1>4, <2>1 DEF Exit, TypeOK
  <2>3. /\ pc' \in [Query -> Label]
        /\ asker' \in [Query -> Terminal \cup {Nobody}]
    BY <1>4 DEF Exit, TypeOK, Label
  <2>4. local' \in [Query -> [slice : Seq(Message \cup {Summary}), taken : Seq(Query),
                              known : SUBSET Query, update : BOOLEAN]]
    BY <1>4, LocalTypes DEF Exit, TypeOK
  <2>5. /\ backend' \in {"agent", "adapter"} /\ running' \subseteq Terminal
        /\ pending' \in [Terminal -> BOOLEAN] /\ cancel' \in [Terminal -> BOOLEAN]
        /\ count' \in [Terminal -> Nat]
        /\ memory' \subseteq Query /\ history' \in [Query -> Nat]
        /\ nQueries' \in 0..MaxQueries /\ nCancels' \in 0..MaxCancels
        /\ unlogged' \subseteq Query /\ unentered' \subseteq Query
        /\ atRisk' \subseteq Query /\ overlapped' \subseteq Terminal
    BY <1>4 DEF Exit, TypeOK
  <2>6. kept' \subseteq Query /\ unseen' \in [Query -> SUBSET Query]
    BY <1>4 DEF Exit, TypeOK
  <2> QED BY <2>2, <2>3, <2>4, <2>5, <2>6 DEF TypeOK
<1>5. ASSUME NEW q \in Query, Thread(q) PROVE TypeOK'
  <2> DEFINE t == asker[q]
             Locals == [slice : Seq(Message \cup {Summary}), taken : Seq(Query),
                        known : SUBSET Query, update : BOOLEAN]
  <2>1. /\ t \in Terminal /\ t # Nobody
        /\ pc' = [pc EXCEPT ![q] = pc'[q]] /\ pc'[q] \in Label
        /\ local' = [local EXCEPT ![q] = local'[q]]
        /\ asker' = [asker EXCEPT ![q] = asker'[q]] /\ asker'[q] \in {asker[q], Nobody}
        /\ UNCHANGED <<backend, running, nQueries, nCancels, cancel, overlapped>>
    BY <1>5, ThreadMoves
  <2>2. /\ pc' \in [Query -> Label] /\ asker' \in [Query -> Terminal \cup {Nobody}]
        /\ backend' \in {"agent", "adapter"} /\ running' \subseteq Terminal
        /\ cancel' \in [Terminal -> BOOLEAN]
        /\ nQueries' \in 0..MaxQueries /\ nCancels' \in 0..MaxCancels
        /\ overlapped' \subseteq Terminal
    <3> DEFINE p == pc'[q]
               a == asker'[q]
    <3>0. p \in Label /\ a \in Terminal \cup {Nobody}
      BY <2>1
    <3>a. pc' = [pc EXCEPT ![q] = p] /\ asker' = [asker EXCEPT ![q] = a]
      BY <2>1
    <3> HIDE DEF p, a
    <3>1. pc' \in [Query -> Label] /\ asker' \in [Query -> Terminal \cup {Nobody}]
      BY <3>0, <3>a DEF TypeOK
    <3> QED BY <2>1, <3>1 DEF TypeOK
  <2>end. ASSUME End(q) PROVE pending' \in [Terminal -> BOOLEAN] /\ local'[q] \in Locals
    BY <2>end, <2>1, LocalTypes DEF End, TypeOK
  <2>go. ASSUME NEW label, Goto(q, label)
         PROVE  pending' \in [Terminal -> BOOLEAN] /\ local'[q] \in Locals
    BY <2>go DEF Goto, TypeOK
  <2>with. ASSUME NEW label, NEW l \in Locals, GotoWith(q, label, l)
           PROVE  pending' \in [Terminal -> BOOLEAN] /\ local'[q] \in Locals
    BY <2>with DEF GotoWith, TypeOK
  <2>none. NoLocal \in Locals
    BY LocalTypes
  <2>rec. ASSUME Recorded(q) PROVE pending' \in [Terminal -> BOOLEAN] /\ local'[q] \in Locals
    BY <2>rec, <2>end, <2>go DEF Recorded
  <2>lists. /\ conversation[t] \in Seq(Message \cup {Summary}) /\ interactions[t] \in Seq(Query)
            /\ recorded[t] \in Seq(Query) /\ local[q] \in Locals
    BY <2>1 DEF TypeOK
  <2>taken. Range(local[q].taken) \subseteq Query
    BY <2>lists, RangeTypes
  <2>3. conversation' \in [Terminal -> Seq(Message \cup {Summary})]
    <3>same. CASE UNCHANGED conversation
      BY <3>same DEF TypeOK
    <3>new. ASSUME NEW c \in Seq(Message \cup {Summary}),
                   conversation' = [conversation EXCEPT ![t] = c]
            PROVE  conversation' \in [Terminal -> Seq(Message \cup {Summary})]
      BY <3>new DEF TypeOK
    <3>1. CASE RecordUser(q)
      BY <3>1, <3>new, <2>lists, MessageTypes, AppendProperties DEF RecordUser
    <3>2. CASE RecordAssistant(q)
      BY <3>2, <3>new, <2>lists, MessageTypes, AppendProperties DEF RecordAssistant
    <3>3. CASE Trim(q)
      BY <3>3, <3>new, <2>lists DEF Trim
    <3>4. CASE Compact(q)
      <4>1. Len(local[q].slice) > MaxMessages
        BY <3>4 DEF Compact, At, Threads
      <4> QED BY <3>4, <4>1, <3>new, <2>lists, CompactedTypes DEF Compact
    <3> QED BY <1>5, <3>same, <3>1, <3>2, <3>3, <3>4
            DEF Thread, Fails, CompactFails, Track, Consolidate, ConsolidateRaises,
                Reply, AppendHistory, Truncate, Write, SaveFails, Clear
  <2>4. /\ interactions' \in [Terminal -> Seq(Query)] /\ count' \in [Terminal -> Nat]
        /\ recorded' \in [Terminal -> Seq(Query)]
    <3>0. <<>> \in Seq(Query) /\ Append(interactions[t], q) \in Seq(Query)
          /\ Append(recorded[t], q) \in Seq(Query)
      BY <2>lists, EmptySeq, AppendProperties
    <3>1. CASE RecordAssistant(q)
      BY <3>0, <3>1 DEF RecordAssistant, TypeOK
    <3>2. CASE Track(q)
      BY <3>0, <3>2, <2>1 DEF Track, CountInteraction, TypeOK
    <3>3. CASE Clear(q)
      BY <3>0, <3>3 DEF Clear, TypeOK
    <3>4. ASSUME UNCHANGED <<interactions, count, recorded>>
          PROVE  /\ interactions' \in [Terminal -> Seq(Query)] /\ count' \in [Terminal -> Nat]
                 /\ recorded' \in [Terminal -> Seq(Query)]
      BY <3>4 DEF TypeOK
    <3> QED BY <1>5, <3>1, <3>2, <3>3, <3>4
            DEF Thread, Fails, RecordUser, Trim, Compact, CompactFails, Consolidate,
                ConsolidateRaises, Reply, AppendHistory, Truncate, Write, SaveFails
  <2>5. /\ memory' \subseteq Query /\ history' \in [Query -> Nat]
    <3>2. CASE AppendHistory(q)
      <4>1. history' \in [Query -> Nat]
        BY <3>2 DEF AppendHistory, TypeOK
      <4> QED BY <3>2, <4>1 DEF AppendHistory, TypeOK
    <3>3. CASE Truncate(q) \/ Write(q)
      <4>1. local[q].known \subseteq Query
        BY <2>lists
      <4> QED BY <3>3, <4>1, <2>taken DEF Truncate, Write, Updated, TypeOK
    <3>4. ASSUME UNCHANGED <<memory, history>>
          PROVE  memory' \subseteq Query /\ history' \in [Query -> Nat]
      BY <3>4 DEF TypeOK
    <3> QED BY <1>5, <3>2, <3>3, <3>4
            DEF Thread, Fails, RecordUser, RecordAssistant, Trim, Compact, CompactFails,
                Track, Consolidate, ConsolidateRaises, Reply, SaveFails, Clear
  <2>ghosts. /\ unlogged' \subseteq Query /\ unentered' \subseteq Query
             /\ atRisk' \subseteq Query
             /\ kept' \subseteq Query /\ unseen' \in [Query -> SUBSET Query]
    <3>1. CASE Track(q)
      BY <3>1 DEF Track, Risks, TypeOK
    <3>2. CASE Consolidate(q)
      <4>1. Range(interactions[t]) \subseteq Query
        BY <2>lists, RangeTypes
      <4>2. atRisk' \subseteq Query /\ unseen' \in [Query -> SUBSET Query]
        <5>1. CASE Due(t)
          <6>1. atRisk' \subseteq Query
            BY <3>2, <4>1, <5>1 DEF Consolidate, Risks, TypeOK
          <6>2. unseen' = [unseen EXCEPT ![q] = IF Writing = {} THEN {} ELSE kept]
            BY <3>2, <5>1 DEF Consolidate
          <6>3. unseen' \in [Query -> SUBSET Query]
            BY <6>2 DEF TypeOK
          <6> QED BY <6>1, <6>3
        <5>2. CASE ~Due(t)
          BY <3>2, <5>2 DEF Consolidate, TypeOK
        <5> QED BY <5>1, <5>2
      <4> QED BY <3>2, <4>2 DEF Consolidate, TypeOK
    <3>3. CASE SaveFails(q) \/ Reply(q)
      BY <3>3, <2>taken DEF SaveFails, Reply, NotLogged, TypeOK
    <3>4. CASE Write(q)
      <4>1. unseen' \in [Query -> SUBSET Query]
        BY <3>4, <2>taken DEF Write, TypeOK
      <4> QED BY <3>4, <4>1, <2>taken DEF Write, TypeOK
    <3>5. ASSUME UNCHANGED <<unlogged, unentered, atRisk, kept, unseen>>
          PROVE  /\ unlogged' \subseteq Query /\ unentered' \subseteq Query
                 /\ atRisk' \subseteq Query
                 /\ kept' \subseteq Query /\ unseen' \in [Query -> SUBSET Query]
      BY <3>5 DEF TypeOK
    <3> QED BY <1>5, <3>1, <3>2, <3>3, <3>4, <3>5
            DEF Thread, Fails, RecordUser, RecordAssistant, Trim, Compact, CompactFails,
                ConsolidateRaises, AppendHistory, Truncate, Clear
  <2>6. pending' \in [Terminal -> BOOLEAN] /\ local'[q] \in Locals
    <3> HIDE DEF Locals
    <3>1. CASE Fails(q) \/ ConsolidateRaises(q) \/ Compact(q) \/ Clear(q)
      BY <3>1, <2>end DEF Fails, ConsolidateRaises, Compact, Clear
    <3>2. CASE RecordUser(q) \/ Track(q) \/ AppendHistory(q) \/ Truncate(q) \/ Write(q)
               \/ SaveFails(q)
      BY <3>2, <2>go, <2>with, <2>none
         DEF RecordUser, Track, AppendHistory, Truncate, Write, SaveFails
    <3>3. CASE RecordAssistant(q)
      <4> DEFINE c == Append(conversation[t], Says("assistant", q))
      <4>1. c \in Seq(Message \cup {Summary})
        BY <2>lists, MessageTypes, AppendProperties
      <4> HIDE DEF c
      <4>2. /\ [local[q] EXCEPT !.slice = Trimmed(c)] \in Locals
            /\ [local[q] EXCEPT !.slice = c] \in Locals
        BY <4>1, <2>lists, TrimmedTypes DEF Locals
      <4>3. \/ Recorded(q)
            \/ GotoWith(q, "trimming", [local[q] EXCEPT !.slice = Trimmed(c)])
            \/ GotoWith(q, "compacting", [local[q] EXCEPT !.slice = c])
        BY <3>3 DEF RecordAssistant, c
      <4> QED BY <4>2, <4>3, <2>rec, <2>with
    <3>4. CASE Trim(q)
      BY <3>4, <2>rec DEF Trim
    <3>5. CASE CompactFails(q)
      <4>1. [local[q] EXCEPT !.slice = Trimmed(conversation[t])] \in Locals
        BY <2>lists, TrimmedTypes DEF Locals
      <4> QED BY <4>1, <3>5, <2>with DEF CompactFails
    <3>6. CASE Consolidate(q)
      <4>1. [local[q] EXCEPT !.taken = interactions[t], !.known = memory] \in Locals
        BY <2>lists DEF Locals, TypeOK
      <4> QED BY <4>1, <3>6, <2>with, <2>end DEF Consolidate
    <3>7. CASE Reply(q)
      <4>1. \A update \in BOOLEAN : [local[q] EXCEPT !.update = update] \in Locals
        BY <2>lists DEF Locals
      <4> QED BY <4>1, <3>7, <2>with, <2>go, <2>none DEF Reply
    <3> QED BY <1>5, <3>1, <3>2, <3>3, <3>4, <3>5, <3>6, <3>7 DEF Thread
  <2>7. local' \in [Query -> Locals]
    BY <2>1, <2>6 DEF TypeOK
  <2> QED BY <2>2, <2>3, <2>4, <2>5, <2>ghosts, <2>6, <2>7 DEF TypeOK
<1> QED BY <1>1, <1>2, <1>3, <1>4, <1>5 DEF Next

-----------------------------------------------------------------------------
(* A step of a thread ends it or leaves it with its terminal, and no thread *)
(* starts but by a query.                                                   *)
LEMMA ThreadsStep == ASSUME TypeOK, Threads, [Next]_vars PROVE Threads'
<1>1. CASE UNCHANGED vars
  BY <1>1 DEF vars, Threads
<1>2. ASSUME NEW t \in Terminal, Ask(t) PROVE Threads'
  <2> DEFINE n == nQueries + 1
  <2>1. /\ n \in Query /\ nQueries \in Nat /\ t \in running /\ t # Nobody
        /\ UNCHANGED <<backend, running, local>> /\ nQueries' = n
        /\ asker' = [asker EXCEPT ![n] = t] /\ pc' = [pc EXCEPT ![n] = "asking"]
        /\ overlapped' = IF Busy(t) = {} THEN overlapped ELSE overlapped \cup {t}
    BY <1>2, BoundFacts, TerminalAssumption DEF Ask, TypeOK, Query
  <2>2. pc[n] = "none" /\ asker[n] = Nobody /\ local[n] = NoLocal
    BY <2>1 DEF Threads
  <2>3. \A q \in Query : pc'[q] = "none" <=> q > nQueries'
    BY <2>1, <2>2 DEF Threads, TypeOK, Query
  <2>4. \A q, r \in Query : asker'[q] = asker'[r] /\ asker'[q] \notin overlapped' \cup {Nobody}
                                => q = r
    BY <2>1, <2>2 DEF Threads, TypeOK, Busy
  <2>5. \A q \in Query : /\ asker'[q] = Nobody <=> pc'[q] \in {"none", "ended"}
                         /\ asker'[q] = Nobody => local'[q] = NoLocal
                         /\ asker'[q] # Nobody => asker'[q] \in running'
    BY <2>1, <2>2 DEF Threads, TypeOK
  <2>6. \A q \in Query :
          /\ pc'[q] \in {"tracking", "tracked", "clearing"} \cup Saves => backend' = "agent"
          /\ pc'[q] = "compacting" =>
                backend' = "adapter" /\ Len(local'[q].slice) > MaxMessages
    BY <2>1 DEF Threads, TypeOK, Saves
  <2> QED BY <2>3, <2>4, <2>5, <2>6 DEF Threads
<1>3. ASSUME NEW t \in Terminal, CtrlC(t) PROVE Threads'
  BY <1>3 DEF CtrlC, threads, ghosts, Threads
<1>4. ASSUME NEW t \in Terminal, Exit(t) PROVE Threads'
  <2>1. /\ running' = running \ {t} /\ t # Nobody
        /\ pc' = [q \in Query |-> IF asker[q] = t THEN "ended" ELSE pc[q]]
        /\ local' = [q \in Query |-> IF asker[q] = t THEN NoLocal ELSE local[q]]
        /\ asker' = [q \in Query |-> IF asker[q] = t THEN Nobody ELSE asker[q]]
        /\ overlapped' = overlapped \ {t} /\ UNCHANGED <<backend, nQueries>>
    BY <1>4, TerminalAssumption DEF Exit, Busy
  <2>2. \A q \in Query : pc[q] = "none" => asker[q] # t
    BY <2>1 DEF Threads
  <2>3. \A q, r \in Query : asker'[q] = asker'[r] /\ asker'[q] \notin overlapped' \cup {Nobody}
                                => q = r
    BY <2>1 DEF Threads
  <2>4. \A q \in Query : /\ asker'[q] = Nobody <=> pc'[q] \in {"none", "ended"}
                         /\ asker'[q] = Nobody => local'[q] = NoLocal
                         /\ asker'[q] # Nobody => asker'[q] \in running'
                         /\ pc'[q] = "none" <=> q > nQueries'
    BY <2>1, <2>2 DEF Threads
  <2>5. \A q \in Query :
          /\ pc'[q] \in {"tracking", "tracked", "clearing"} \cup Saves => backend' = "agent"
          /\ pc'[q] = "compacting" =>
                backend' = "adapter" /\ Len(local'[q].slice) > MaxMessages
    BY <2>1 DEF Threads, Saves
  <2> QED BY <2>3, <2>4, <2>5 DEF Threads
<1>5. ASSUME NEW q \in Query, Thread(q) PROVE Threads'
  <2>1. /\ asker[q] # Nobody /\ pc[q] \notin {"none", "ended"}
        /\ pc' = [pc EXCEPT ![q] = pc'[q]] /\ pc'[q] # "none"
        /\ local' = [local EXCEPT ![q] = local'[q]]
        /\ asker' = [asker EXCEPT ![q] = asker'[q]]
        /\ \/ asker'[q] = asker[q] /\ pc'[q] # "ended"
           \/ asker'[q] = Nobody /\ pc'[q] = "ended" /\ local'[q] = NoLocal
        /\ UNCHANGED <<backend, running, nQueries, overlapped>>
    BY <1>5, ThreadMoves
  <2>2. pc'[q] \in {"tracking", "tracked", "clearing"} \cup Saves => backend = "agent"
    <3>1. CASE pc[q] \in {"asking", "recording", "trimming", "compacting"}
      <4>1. CASE Fails(q) \/ RecordUser(q) \/ Compact(q) \/ CompactFails(q)
        <5>1. pc'[q] \in {"recording", "trimming", "ended"}
          BY <4>1 DEF Fails, RecordUser, Compact, CompactFails, End, Goto, GotoWith, TypeOK
        <5> QED BY <5>1 DEF Saves
      <4>2. CASE RecordAssistant(q) \/ Trim(q)
        <5>1. Recorded(q) \/ pc'[q] \in {"trimming", "compacting"}
          BY <4>2 DEF RecordAssistant, Trim, GotoWith, TypeOK
        <5>2. Recorded(q) => backend = "agent" \/ pc'[q] = "ended"
          BY DEF Recorded, End, TypeOK
        <5> QED BY <5>1, <5>2 DEF Saves
      <4> QED BY <1>5, <3>1, <4>1, <4>2
              DEF Thread, Track, Consolidate, ConsolidateRaises, Reply, AppendHistory,
                  Truncate, Write, SaveFails, Clear, At
    <3>2. CASE pc[q] \in {"tracking", "tracked", "clearing"} \cup Saves
      BY <3>2 DEF Threads
    <3> QED BY <3>1, <3>2, <2>1 DEF TypeOK, Label, Saves
  <2>3. pc'[q] = "compacting" => backend = "adapter" /\ Len(local'[q].slice) > MaxMessages
    <3>1. ASSUME pc'[q] = "compacting" PROVE RecordAssistant(q)
      BY <1>5, <3>1, <2>1
         DEF Thread, Fails, RecordUser, Trim, Compact, CompactFails,
             Track, Consolidate, ConsolidateRaises, Reply, AppendHistory, Truncate,
             Write, SaveFails, Clear, At, Recorded, End, Goto, GotoWith, Return, TypeOK
    <3>2. ASSUME pc'[q] = "compacting", RecordAssistant(q)
          PROVE  backend = "adapter" /\ Len(local'[q].slice) > MaxMessages
      <4> DEFINE c == Append(conversation[asker[q]], Says("assistant", q))
      <4>1. c \in Seq(Message \cup {Summary})
        BY <2>1, MessageTypes, AppendProperties DEF TypeOK
      <4>2. /\ ~(Len(c) <= MaxMessages) /\ backend # "agent"
            /\ GotoWith(q, "compacting", [local[q] EXCEPT !.slice = c])
        BY <3>2, <2>1 DEF RecordAssistant, Recorded, End, Goto, GotoWith, TypeOK
      <4>3. local'[q].slice = c
        BY <4>2, <2>1 DEF GotoWith, TypeOK
      <4> HIDE DEF c
      <4> QED BY <4>1, <4>2, <4>3, LenProperties, BoundFacts DEF TypeOK
    <3> QED BY <3>1, <3>2
  <2>4. \A r, s \in Query : asker'[r] = asker'[s] /\ asker'[r] \notin overlapped' \cup {Nobody}
                                => r = s
    <3>1. \A r \in Query : asker'[r] # Nobody => asker'[r] = asker[r]
      BY <2>1 DEF TypeOK
    <3> QED BY <2>1, <3>1 DEF Threads
  <2>5. \A r \in Query : /\ asker'[r] = Nobody <=> pc'[r] \in {"none", "ended"}
                         /\ asker'[r] = Nobody => local'[r] = NoLocal
                         /\ asker'[r] # Nobody => asker'[r] \in running'
                         /\ pc'[r] = "none" <=> r > nQueries'
    BY <2>1 DEF Threads, TypeOK
  <2>6. \A r \in Query :
          /\ pc'[r] \in {"tracking", "tracked", "clearing"} \cup Saves => backend' = "agent"
          /\ pc'[r] = "compacting" =>
                backend' = "adapter" /\ Len(local'[r].slice) > MaxMessages
    BY <2>1, <2>2, <2>3 DEF Threads, TypeOK
  <2> QED BY <2>4, <2>5, <2>6 DEF Threads
<1> QED BY <1>1, <1>2, <1>3, <1>4, <1>5 DEF Next

-----------------------------------------------------------------------------
(* What Append adds to the elements of a sequence.                          *)
LEMMA RangeAppend ==
    ASSUME NEW S, NEW s \in Seq(S), NEW e \in S
    PROVE  Range(Append(s, e)) = Range(s) \cup {e}
<1>1. /\ Append(s, e) \in Seq(S) /\ Len(Append(s, e)) = Len(s) + 1 /\ Len(s) \in Nat
      /\ \A i \in 1..Len(s) : Append(s, e)[i] = s[i]
      /\ Append(s, e)[Len(s) + 1] = e
  BY AppendProperties, LenProperties
<1>2. /\ Range(s) = {s[i] : i \in 1..Len(s)}
      /\ Range(Append(s, e)) = {Append(s, e)[i] : i \in 1..Len(s) + 1}
  BY <1>1, RangeTypes
<1>3. 1..Len(s) + 1 = 1..Len(s) \cup {Len(s) + 1}
  BY <1>1
<1> HIDE DEF Range
<1> QED BY <1>1, <1>2, <1>3

LEMMA RangeEmpty == Range(<<>>) = {}
  BY DEF Range

(* Every action keeps the exchanges with their terminals.                   *)
LEMMA RecordedStep ==
    ASSUME TypeOK, Threads, RecordedOnce, [Next]_vars PROVE RecordedOnce'
<1> USE DEF session, lists, files, threads, ghosts, Fresh
<1>sub. \A t \in Terminal : Range(recorded[t]) \subseteq Query
  BY RangeTypes DEF TypeOK
<1>1. CASE UNCHANGED vars
  BY <1>1 DEF vars, RecordedOnce
<1>2. ASSUME NEW t \in Terminal, Ask(t) PROVE RecordedOnce'
  <2> DEFINE n == nQueries + 1
  <2>1. /\ n \in Query /\ pc[n] = "none" /\ asker[n] = Nobody /\ local[n] = NoLocal
        /\ UNCHANGED <<recorded, interactions, history, local>>
        /\ asker' = [asker EXCEPT ![n] = t] /\ pc' = [pc EXCEPT ![n] = "asking"]
    BY <1>2, BoundFacts DEF Ask, TypeOK, Query, Threads
  <2>2. Range(local[n].taken) = {}
    BY <2>1, RangeEmpty DEF NoLocal
  <2>3. \A u \in Terminal : n \notin Range(recorded[u])
    BY <2>1 DEF RecordedOnce
  <2>4. \A q \in Query \ {n} : asker'[q] = asker[q] /\ pc'[q] = pc[q]
    BY <2>1 DEF TypeOK
  <2>5. asker'[n] = t /\ pc'[n] = "asking"
    BY <2>1 DEF TypeOK
  <2> HIDE DEF n
  <2>6. \A u \in Terminal : \A q \in Range(recorded[u]) :
            asker'[q] \in {u, Nobody} /\ pc'[q] \notin Fresh
    BY <2>3, <2>4, <1>sub DEF RecordedOnce
  <2>7. \A q \in Query : asker'[q] # Nobody =>
          Range(local[q].taken) \subseteq Range(recorded[asker'[q]])
    BY <2>2, <2>4, <2>5 DEF RecordedOnce
  <2>8. /\ \A q \in Query : pc'[q] \in {"trimming", "tracking", "compacting"} =>
              q \in Range(recorded[asker'[q]])
        /\ \A q \in Query : pc'[q] \in Fresh => history[q] = 0
    BY <2>1, <2>4, <2>5 DEF RecordedOnce
  <2> QED BY <2>1, <2>6, <2>7, <2>8 DEF RecordedOnce
<1>3. ASSUME NEW t \in Terminal, CtrlC(t) PROVE RecordedOnce'
  BY <1>3 DEF CtrlC, RecordedOnce
<1>4. ASSUME NEW t \in Terminal, Exit(t) PROVE RecordedOnce'
  <2>1. /\ pc' = [q \in Query |-> IF asker[q] = t THEN "ended" ELSE pc[q]]
        /\ local' = [q \in Query |-> IF asker[q] = t THEN NoLocal ELSE local[q]]
        /\ asker' = [q \in Query |-> IF asker[q] = t THEN Nobody ELSE asker[q]]
        /\ recorded' = [recorded EXCEPT ![t] = <<>>]
        /\ interactions' = [interactions EXCEPT ![t] = <<>>]
        /\ UNCHANGED history /\ t # Nobody
    BY <1>4, TerminalAssumption DEF Exit, Busy
  <2>2. \A u \in Terminal :
           /\ Range(recorded'[u]) = IF u = t THEN {} ELSE Range(recorded[u])
           /\ Range(interactions'[u]) = IF u = t THEN {} ELSE Range(interactions[u])
    BY <2>1, RangeEmpty DEF TypeOK
  <2>3. \A q \in Query : asker'[q] # Nobody =>
           asker'[q] = asker[q] /\ asker[q] # t /\ asker[q] \in Terminal /\ local'[q] = local[q]
    BY <2>1 DEF TypeOK
  <2>4. \A q \in Query : pc'[q] # "ended" => pc'[q] = pc[q] /\ asker'[q] = asker[q]
                                             /\ asker[q] # t
    BY <2>1
  <2>5. \A u \in Terminal : \A q \in Range(recorded'[u]) :
            asker'[q] \in {u, Nobody} /\ pc'[q] \notin Fresh
    BY <2>1, <2>2, <1>sub DEF RecordedOnce
  <2>6. \A q \in Query : asker'[q] # Nobody =>
          Range(local'[q].taken) \subseteq Range(recorded'[asker'[q]])
    BY <2>2, <2>3 DEF RecordedOnce
  <2>7. ASSUME NEW q \in Query, pc'[q] \in {"trimming", "tracking", "compacting"}
        PROVE  q \in Range(recorded'[asker'[q]])
    <3>1. asker[q] \in Terminal /\ asker[q] # t /\ asker'[q] = asker[q] /\ pc'[q] = pc[q]
      BY <2>4, <2>7 DEF Threads, TypeOK
    <3> QED BY <2>2, <2>7, <3>1 DEF RecordedOnce
  <2>8. \A q \in Query : pc'[q] \in Fresh => history'[q] = 0
    BY <2>1, <2>4 DEF RecordedOnce
  <2> QED BY <2>2, <2>5, <2>6, <2>7, <2>8 DEF RecordedOnce
<1>5. ASSUME NEW q \in Query, Thread(q) PROVE RecordedOnce'
  <2> DEFINE t == asker[q]
  <2>1. /\ t \in Terminal /\ t # Nobody /\ pc[q] \notin {"none", "ended"}
        /\ pc' = [pc EXCEPT ![q] = pc'[q]] /\ pc'[q] \notin {"none", "asking"}
        /\ local' = [local EXCEPT ![q] = local'[q]]
        /\ asker' = [asker EXCEPT ![q] = asker'[q]] /\ asker'[q] \in {asker[q], Nobody}
        /\ asker'[q] = Nobody <=> pc'[q] = "ended"
    BY <1>5, ThreadMoves
  <2>2. \A r \in Query \ {q} : pc'[r] = pc[r] /\ local'[r] = local[r] /\ asker'[r] = asker[r]
    BY <2>1 DEF TypeOK
  <2>3. /\ recorded[t] \in Seq(Query) /\ interactions[t] \in Seq(Query)
    BY <2>1 DEF TypeOK
  <2>4. CASE RecordAssistant(q)
    <3>1. /\ pc[q] = "recording" /\ pc'[q] \notin Fresh
          /\ recorded' = [recorded EXCEPT ![t] = Append(@, q)]
          /\ UNCHANGED <<interactions, history>>
      BY <2>4, <2>1 DEF RecordAssistant, At, Recorded, End, Goto, GotoWith, TypeOK
    <3>2. asker'[q] # Nobody => local'[q].taken = local[q].taken /\ asker'[q] = t
      BY <2>4, <2>1 DEF RecordAssistant, At, Recorded, End, Goto, GotoWith, TypeOK
    <3>3. /\ Range(recorded'[t]) = Range(recorded[t]) \cup {q}
          /\ \A u \in Terminal \ {t} : Range(recorded'[u]) = Range(recorded[u])
      <4>1. recorded'[t] = Append(recorded[t], q)
        BY <3>1, <2>1 DEF TypeOK
      <4>2. \A u \in Terminal \ {t} : recorded'[u] = recorded[u]
        BY <3>1 DEF TypeOK
      <4>3. Range(Append(recorded[t], q)) = Range(recorded[t]) \cup {q}
        BY <2>3, RangeAppend
      <4> QED BY <4>1, <4>2, <4>3
    <3> HIDE DEF t
    <3>4. \A u \in Terminal : q \notin Range(recorded[u])
      BY <3>1 DEF RecordedOnce
    <3>5. \A u, x \in Terminal : u # x => Range(recorded'[u]) \cap Range(recorded'[x]) = {}
      <4>1. \A u, x \in Terminal : u # x => Range(recorded[u]) \cap Range(recorded[x]) = {}
        BY DEF RecordedOnce
      <4>2. t \in Terminal
        BY <2>1 DEF t
      <4> QED BY <4>1, <4>2, <3>3, <3>4
    <3>6. \A u \in Terminal : \A r \in Range(recorded'[u]) :
              asker'[r] \in {u, Nobody} /\ pc'[r] \notin Fresh
      BY <3>1, <3>3, <2>1, <2>2, <1>sub DEF RecordedOnce, t
    <3>7. \A u \in Terminal : Range(interactions'[u]) \subseteq Range(recorded'[u])
      BY <3>1, <3>3 DEF RecordedOnce
    <3>8. \A r \in Query : asker'[r] # Nobody =>
            Range(local'[r].taken) \subseteq Range(recorded'[asker'[r]])
      <4>1. \A u \in Terminal : Range(recorded[u]) \subseteq Range(recorded'[u])
        BY <3>3
      <4>2. \A r \in Query : asker'[r] # Nobody =>
               /\ asker'[r] = asker[r] /\ asker[r] \in Terminal
               /\ local'[r].taken = local[r].taken
        <5>1. asker'[q] # Nobody => /\ asker'[q] = asker[q] /\ asker[q] \in Terminal
                                    /\ local'[q].taken = local[q].taken
          BY <3>2, <2>1 DEF t
        <5>2. \A r \in Query \ {q} : asker'[r] # Nobody =>
                 /\ asker'[r] = asker[r] /\ asker[r] \in Terminal
                 /\ local'[r].taken = local[r].taken
          BY <2>2 DEF TypeOK
        <5> QED BY <5>1, <5>2
      <4> QED BY <4>1, <4>2 DEF RecordedOnce
    <3>9. \A r \in Query : pc'[r] \in {"trimming", "tracking", "compacting"} =>
            r \in Range(recorded'[asker'[r]])
      <4>1. ASSUME NEW r \in Query \ {q}, pc'[r] \in {"trimming", "tracking", "compacting"}
            PROVE  r \in Range(recorded'[asker'[r]])
        <5>1. asker[r] \in Terminal
          BY <4>1, <2>2 DEF Threads, TypeOK
        <5> QED BY <4>1, <5>1, <2>2, <3>3 DEF RecordedOnce
      <4>2. pc'[q] \in {"trimming", "tracking", "compacting"} => q \in Range(recorded'[asker'[q]])
        BY <2>1, <3>3 DEF t
      <4> QED BY <4>1, <4>2
    <3>10. \A r \in Query : pc'[r] \in Fresh => history'[r] = 0
      BY <3>1, <2>2 DEF RecordedOnce
    <3> QED BY <3>5, <3>6, <3>7, <3>8, <3>9, <3>10 DEF RecordedOnce
  <2>5. ASSUME UNCHANGED recorded,
               \A u \in Terminal : Range(interactions'[u]) \subseteq Range(recorded[u]),
               asker'[q] = Nobody \/ Range(local'[q].taken) \subseteq Range(recorded[t]),
               pc'[q] \in {"trimming", "tracking", "compacting"} =>
                  pc[q] \in {"trimming", "tracking", "compacting"},
               pc'[q] \in Fresh => pc[q] \in Fresh,
               \A r \in Query : history'[r] = history[r] \/ r \in Range(local[q].taken)
        PROVE  RecordedOnce'
    <3>1. \A u \in Terminal : \A r \in Range(recorded[u]) :
              asker'[r] \in {u, Nobody} /\ pc'[r] \notin Fresh
      BY <2>5, <2>1, <2>2, <1>sub DEF RecordedOnce
    <3>2. \A r \in Query : asker'[r] # Nobody =>
            Range(local'[r].taken) \subseteq Range(recorded[asker'[r]])
      BY <2>5, <2>1, <2>2 DEF RecordedOnce
    <3>3. \A r \in Query : pc'[r] \in {"trimming", "tracking", "compacting"} =>
            r \in Range(recorded[asker'[r]])
      BY <2>5, <2>1, <2>2 DEF RecordedOnce
    <3>4. ASSUME NEW r \in Query, pc'[r] \in Fresh PROVE history'[r] = 0
      <4>1. pc[r] \in Fresh /\ history[r] = 0
        BY <3>4, <2>5, <2>2 DEF RecordedOnce
      <4>2. r \notin Range(local[q].taken)
        BY <4>1, <2>1 DEF RecordedOnce
      <4> QED BY <4>1, <4>2, <2>5
    <3> QED BY <2>5, <3>1, <3>2, <3>3, <3>4 DEF RecordedOnce
  <2>old. /\ \A u \in Terminal : Range(interactions[u]) \subseteq Range(recorded[u])
          /\ Range(local[q].taken) \subseteq Range(recorded[t])
    BY <2>1 DEF RecordedOnce
  <2>6. CASE Track(q)
    <3>1. /\ pc[q] = "tracking" /\ pc'[q] = "tracked" /\ local'[q] = local[q]
          /\ interactions' = [interactions EXCEPT ![t] = Append(@, q)]
          /\ UNCHANGED <<recorded, history>>
      BY <2>6, <2>1 DEF Track, At, Goto, TypeOK
    <3>2. q \in Range(recorded[t])
      BY <3>1 DEF RecordedOnce
    <3>3. \A u \in Terminal : Range(interactions'[u]) \subseteq Range(recorded[u])
      BY <3>1, <3>2, <2>1, <2>3, <2>old, RangeAppend DEF TypeOK
    <3> QED BY <3>1, <3>3, <2>old, <2>5
  <2>7. CASE Clear(q)
    <3>1. /\ pc'[q] = "ended" /\ asker'[q] = Nobody
          /\ interactions' = [interactions EXCEPT ![t] = <<>>]
          /\ UNCHANGED <<recorded, history>>
      BY <2>7, <2>1 DEF Clear, At, End, TypeOK
    <3>2. \A u \in Terminal : Range(interactions'[u]) \subseteq Range(recorded[u])
      BY <3>1, <2>1, <2>old, RangeEmpty DEF TypeOK
    <3> QED BY <3>1, <3>2, <2>5
  <2>8. CASE Consolidate(q)
    <3>1. /\ UNCHANGED <<recorded, history, interactions>>
          /\ \/ asker'[q] = Nobody
             \/ local'[q].taken = interactions[t]
          /\ pc'[q] \in {"ended", "chatting"}
      <4>1. \/ End(q)
            \/ GotoWith(q, "chatting", [local[q] EXCEPT !.taken = interactions[t],
                                                        !.known = memory])
        BY <2>8 DEF Consolidate
      <4>2. UNCHANGED <<recorded, history, interactions>>
        BY <2>8 DEF Consolidate
      <4>3. CASE End(q)
        BY <4>2, <4>3, <2>1 DEF End, TypeOK
      <4>4. CASE GotoWith(q, "chatting", [local[q] EXCEPT !.taken = interactions[t],
                                                        !.known = memory])
        <5>1. local'[q] = [local[q] EXCEPT !.taken = interactions[t], !.known = memory]
              /\ pc'[q] = "chatting"
          BY <4>4, <2>1 DEF GotoWith, TypeOK
        <5> QED BY <4>2, <5>1 DEF TypeOK
      <4> QED BY <4>1, <4>3, <4>4
    <3> QED BY <3>1, <2>1, <2>old, <2>5
  <2>ret. Return(q) => pc'[q] = "clearing" /\ Range(local'[q].taken) = {}
    BY <2>1, RangeEmpty DEF Return, GotoWith, NoLocal, TypeOK
  <2>9. CASE AppendHistory(q)
    <3>1. /\ UNCHANGED <<recorded, interactions>>
          /\ pc'[q] \in {"replacing", "clearing"}
          /\ \A r \in Query : history'[r] = history[r] \/ r \in Range(local[q].taken)
      BY <2>9, <2>1, <2>ret DEF AppendHistory, At, Goto, TypeOK
    <3>2. Range(local'[q].taken) \in {{}, Range(local[q].taken)}
      BY <2>9, <2>1, <2>ret DEF AppendHistory, Goto, TypeOK
    <3> QED BY <3>1, <3>2, <2>old, <2>5
  <2>10. CASE Fails(q) \/ RecordUser(q) \/ Trim(q) \/ Compact(q) \/ CompactFails(q)
              \/ ConsolidateRaises(q) \/ Reply(q) \/ Truncate(q) \/ Write(q) \/ SaveFails(q)
    <3>1. UNCHANGED <<recorded, interactions, history>>
      BY <2>10 DEF Fails, RecordUser, Trim, Compact, CompactFails, ConsolidateRaises,
                   Reply, Truncate, Write, SaveFails
    <3>2. asker'[q] = Nobody \/ Range(local'[q].taken) \in {{}, Range(local[q].taken)}
      <4>1. CASE \/ Fails(q) \/ RecordUser(q) \/ Trim(q) \/ Compact(q) \/ CompactFails(q)
                 \/ ConsolidateRaises(q) \/ Truncate(q)
        <5>1. asker'[q] = Nobody \/ local'[q].taken = local[q].taken
          BY <4>1, <2>1 DEF Fails, RecordUser, Trim, Compact, CompactFails, ConsolidateRaises,
                      Truncate, Recorded, End, Goto, GotoWith, TypeOK
        <5> QED BY <5>1
      <4>2. CASE Reply(q) /\ ~Return(q)
        <5>1. local'[q].taken = local[q].taken
          BY <4>2, <2>1 DEF Reply, Goto, GotoWith, TypeOK
        <5> QED BY <5>1
      <4> QED BY <2>10, <4>1, <4>2, <2>ret DEF Write, SaveFails
    <3>3. /\ pc'[q] \in {"trimming", "tracking", "compacting"} =>
                  pc[q] \in {"trimming", "tracking", "compacting"}
          /\ pc'[q] \in Fresh => pc[q] \in Fresh
      <4>1. CASE \/ Fails(q) \/ Compact(q) \/ ConsolidateRaises(q) \/ Reply(q)
                 \/ Truncate(q) \/ Write(q) \/ SaveFails(q)
        <5>1. pc'[q] \in {"ended", "logging", "replacing", "clearing", "writing"}
          BY <4>1, <2>ret DEF Fails, Compact, ConsolidateRaises, Reply, Truncate, Write,
                              SaveFails, End, Goto, GotoWith, TypeOK
        <5> QED BY <5>1
      <4>2. CASE RecordUser(q)
        BY <4>2 DEF RecordUser, Goto, At, TypeOK
      <4>3. CASE Trim(q) \/ CompactFails(q)
        <5>1. pc[q] \in {"trimming", "compacting"} /\ pc'[q] \in {"tracking", "trimming", "ended"}
          BY <4>3 DEF Trim, CompactFails, Recorded, End, Goto, GotoWith, At, TypeOK
        <5> QED BY <5>1
      <4> QED BY <2>10, <4>1, <4>2, <4>3
    <3> QED BY <3>1, <3>2, <3>3, <2>old, <2>5
  <2> QED BY <1>5, <2>4, <2>6, <2>7, <2>8, <2>9, <2>10 DEF Thread
<1> QED BY <1>1, <1>2, <1>3, <1>4, <1>5 DEF Next

-----------------------------------------------------------------------------
(* A step that leaves the files alone and starts no consolidation.          *)
FilesStay ==
    /\ memory' = memory /\ history' = history
    /\ unentered \subseteq unentered'
    /\ kept' = {} \/ (kept' = kept /\ Writing \subseteq Writing')
    /\ \A r \in Query : pc'[r] \in Saves =>
          /\ pc'[r] = pc[r] \/ (pc[r] = "chatting" /\ pc'[r] = "logging")
          /\ local'[r].known = local[r].known /\ local'[r].taken = local[r].taken
          /\ unseen'[r] = unseen[r]

LEMMA FilesKept == ASSUME Files, FilesStay PROVE Files'
<1> USE DEF FilesStay, Saves
<1>1. Told \subseteq Told'
  BY DEF Logged, Told
<1>2. Saving' \subseteq Saving
  BY DEF Saving
<1>3. \A q \in Saving' : /\ local'[q].known \subseteq Told'
                         /\ kept' \ unseen'[q] \subseteq local'[q].known
  BY <1>1, <1>2 DEF Files, Saving
<1>4. \A q \in Query : pc'[q] \in {"replacing", "writing"} =>
            Range(local'[q].taken) \subseteq Told'
  BY <1>1 DEF Files
<1>5. Writing' = {} => kept' \subseteq memory'
  BY DEF Files
<1> QED BY <1>1, <1>3, <1>4, <1>5 DEF Files

(* The files: who rewrites MEMORY.md has logged what it writes there, or had*)
(* no entry for it; and knows what is kept but for what it has not seen.    *)
LEMMA FilesStep ==
    ASSUME TypeOK, Threads, Files, [Next]_vars PROVE Files'
<1> USE DEF session, lists, files, threads, ghosts, unsaved, updates, Saving, Saves, At
<1> DEFINE Writer == {"replacing", "writing"}
<1>1. CASE UNCHANGED vars
  BY <1>1, FilesKept DEF vars, FilesStay, Writing
<1>2. ASSUME NEW t \in Terminal, Ask(t) PROVE Files'
  <2> DEFINE n == nQueries + 1
  <2>1. /\ n \in Query /\ pc[n] = "none"
        /\ UNCHANGED <<memory, history, unentered, kept, unseen, local>>
        /\ pc' = [pc EXCEPT ![n] = "asking"]
    BY <1>2, BoundFacts DEF Ask, TypeOK, Query, Threads
  <2> HIDE DEF n
  <2>2. \A r \in Query : pc'[r] = pc[r] \/ (pc[r] = "none" /\ pc'[r] = "asking")
    BY <2>1 DEF TypeOK
  <2>3. \A r \in Query : pc'[r] \in Saves => pc'[r] = pc[r]
    BY <2>2
  <2>4. Writing \subseteq Writing'
    BY <2>2 DEF Writing
  <2> QED BY <2>1, <2>3, <2>4, FilesKept DEF FilesStay
<1>3. ASSUME NEW t \in Terminal, CtrlC(t) PROVE Files'
  <2>1. UNCHANGED <<memory, history, unentered, kept, unseen, pc, local>>
    BY <1>3 DEF CtrlC
  <2> QED BY <2>1, FilesKept DEF FilesStay, Writing
<1>4. ASSUME NEW t \in Terminal, Exit(t) PROVE Files'
  <2>1. /\ UNCHANGED <<memory, history, unentered, unseen>>
        /\ kept' = IF {q \in Query : asker[q] = t} \cap Writing = {} THEN kept ELSE {}
        /\ \A r \in Query : IF asker[r] = t THEN pc'[r] = "ended"
                            ELSE pc'[r] = pc[r] /\ local'[r] = local[r]
    BY <1>4 DEF Exit, Busy
  <2>2. \A r \in Query : pc'[r] \in Saves => pc'[r] = pc[r] /\ local'[r] = local[r]
    BY <2>1
  <2>3. kept' = {} \/ (kept' = kept /\ Writing \subseteq Writing')
    BY <2>1 DEF Writing
  <2> QED BY <2>1, <2>2, <2>3, FilesKept DEF FilesStay
<1>5. ASSUME NEW q \in Query, Thread(q) PROVE Files'
  <2>1. /\ pc' = [pc EXCEPT ![q] = pc'[q]] /\ local' = [local EXCEPT ![q] = local'[q]]
    BY <1>5, ThreadMoves
  <2>2. \A r \in Query \ {q} : pc'[r] = pc[r] /\ local'[r] = local[r]
    BY <2>1 DEF TypeOK
  <2>3. \A u : Goto(q, u) => pc'[q] = u /\ local'[q] = local[q]
    BY DEF Goto, TypeOK
  <2>4. \A u, l : GotoWith(q, u, l) => pc'[q] = u /\ local'[q] = l
    BY DEF GotoWith, TypeOK
  <2>5. End(q) => pc'[q] = "ended"
    BY DEF End, TypeOK
  <2>ret. Return(q) => pc'[q] = "clearing"
    BY <2>4 DEF Return
  <2>6. CASE Consolidate(q)
    <3>1. CASE Due(asker[q])
      <4>1. /\ pc[q] = "tracked" /\ pc'[q] = "chatting" /\ local'[q].known = memory
            /\ UNCHANGED <<memory, history, unentered, kept>> /\ Told' = Told
            /\ unseen'[q] = (IF Writing = {} THEN {} ELSE kept)
            /\ \A r \in Query \ {q} : unseen'[r] = unseen[r]
        <5>1. GotoWith(q, "chatting", [local[q] EXCEPT !.taken = interactions[asker[q]],
                                                      !.known = memory])
          BY <2>6, <3>1 DEF Consolidate
        <5>2. /\ local'[q] = [local[q] EXCEPT !.taken = interactions[asker[q]], !.known = memory]
              /\ pc'[q] = "chatting"
          BY <5>1, <2>4
        <5>4. local'[q].known = memory
          BY <5>2 DEF TypeOK
        <5>3. /\ pc[q] = "tracked" /\ UNCHANGED <<memory, history, unentered, kept>>
              /\ unseen' = [unseen EXCEPT ![q] = IF Writing = {} THEN {} ELSE kept]
          BY <2>6, <3>1 DEF Consolidate
        <5> QED BY <5>2, <5>3, <5>4 DEF Logged, Told, TypeOK
      <4>2. Saving' = Saving \cup {q} /\ Writing' = Writing
        BY <4>1, <2>2 DEF Writing
      <4>3. \A r \in Saving' : local'[r].known \subseteq Told
        BY <4>1, <4>2, <2>2 DEF Files
      <4>4. \A r \in Query : pc'[r] \in Writer => Range(local'[r].taken) \subseteq Told
        BY <4>1, <2>2 DEF Files
      <4>5. kept \ unseen'[q] \subseteq local'[q].known
        BY <4>1 DEF Files
      <4>6. \A r \in Saving' : kept' \ unseen'[r] \subseteq local'[r].known
        BY <4>1, <4>2, <4>5, <2>2 DEF Files
      <4> QED BY <4>1, <4>2, <4>3, <4>4, <4>6 DEF Files
    <3>2. CASE ~Due(asker[q])
      <4>1. /\ pc[q] = "tracked" /\ pc'[q] = "ended"
            /\ UNCHANGED <<memory, history, unentered, kept, unseen>>
        BY <2>6, <3>2, <2>5 DEF Consolidate
      <4>2. Writing \subseteq Writing'
        BY <4>1, <2>2 DEF Writing
      <4> QED BY <4>1, <4>2, <2>2, FilesKept DEF FilesStay
    <3> QED BY <3>1, <3>2
  <2>7. CASE AppendHistory(q)
    <3>1. /\ pc[q] = "logging"
          /\ \/ pc'[q] = "replacing" /\ local'[q] = local[q]
             \/ pc'[q] = "clearing"
          /\ UNCHANGED <<memory, unentered, kept, unseen>>
      BY <2>7, <2>3, <2>ret DEF AppendHistory
    <3>2. Told \subseteq Told' /\ Range(local[q].taken) \subseteq Told'
      <4>1. \A e \in Query : history[e] \in Nat
        BY DEF TypeOK
      <4>2. history' = [e \in Query |-> IF e \in Range(local[q].taken)
                                       THEN history[e] + 1 ELSE history[e]]
        BY <2>7 DEF AppendHistory
      <4>3. Range(local[q].taken) \subseteq Query
        BY RangeTypes DEF TypeOK
      <4>4. Logged \subseteq Logged' /\ Range(local[q].taken) \subseteq Logged'
        BY <4>1, <4>2, <4>3 DEF Logged
      <4> QED BY <3>1, <4>4 DEF Told
    <3>3. /\ Saving' \subseteq Saving /\ \A r \in Saving' : local'[r] = local[r]
          /\ Writing' = Writing
      BY <3>1, <2>2 DEF Writing
    <3>4. \A r \in Saving' : /\ local'[r].known \subseteq Told'
                             /\ kept' \ unseen'[r] \subseteq local'[r].known
      BY <3>1, <3>2, <3>3 DEF Files
    <3>5. \A r \in Query : pc'[r] \in Writer => Range(local'[r].taken) \subseteq Told'
      BY <3>1, <3>2, <3>3, <2>2 DEF Files
    <3> QED BY <3>1, <3>2, <3>3, <3>4, <3>5 DEF Files
  <2>8. CASE Truncate(q)
    <3>1. /\ pc[q] = "replacing" /\ pc'[q] = "writing" /\ local'[q] = local[q]
          /\ memory' = {} /\ UNCHANGED <<history, unentered, kept, unseen>> /\ Told' = Told
      BY <2>8, <2>3 DEF Truncate, Logged, Told
    <3>2. Saving' = Saving /\ (\A r \in Query : local'[r] = local[r]) /\ q \in Writing'
      BY <3>1, <2>2 DEF Writing
    <3> QED BY <3>1, <3>2, <2>2 DEF Files
  <2>9. CASE Write(q)
    <3> DEFINE new == Range(local[q].taken)
    <3>1. /\ pc[q] = "writing" /\ pc'[q] = "clearing"
          /\ memory' = local[q].known \cup new
          /\ kept' = (kept \ unseen[q]) \cup new
          /\ \A r \in Query : unseen'[r] = IF r \in Saving \ {q} THEN unseen[r] \cup new ELSE {}
          /\ UNCHANGED <<history, unentered>> /\ Told' = Told
      BY <2>9, <2>ret DEF Write, Updated, Logged, Told
    <3>2. /\ Saving' = Saving \ {q} /\ q \in Saving
          /\ \A r \in Query \ {q} : local'[r] = local[r]
      BY <3>1, <2>2
    <3>3. new \subseteq Told /\ local[q].known \subseteq Told
          /\ kept \ unseen[q] \subseteq local[q].known
      BY <3>1, <3>2 DEF Files
    <3> HIDE DEF new
    <3>4. memory' \subseteq Told' /\ kept' \subseteq memory'
      BY <3>1, <3>3
    <3>5. \A r \in Query : pc'[r] \in Writer => Range(local'[r].taken) \subseteq Told'
      BY <3>1, <2>2 DEF Files
    <3>6. ASSUME NEW r \in Saving'
          PROVE  local'[r].known \subseteq Told' /\ kept' \ unseen'[r] \subseteq local'[r].known
      <4>1. /\ r \in Saving /\ r # q /\ r \in Query /\ local'[r] = local[r]
            /\ unseen'[r] = unseen[r] \cup new
        BY <3>1, <3>2, <3>6
      <4>2. local[r].known \subseteq Told /\ kept \ unseen[r] \subseteq local[r].known
        BY <4>1 DEF Files
      <4> QED BY <4>1, <4>2, <3>1
    <3> QED BY <3>4, <3>5, <3>6 DEF Files
  <2>10. CASE SaveFails(q)
    <3>1. /\ pc'[q] = "clearing" /\ UNCHANGED <<memory, history, unentered, unseen>>
          /\ kept' = IF pc[q] = "writing" THEN {} ELSE kept
      BY <2>10, <2>ret DEF SaveFails
    <3>2. kept' = {} \/ (kept' = kept /\ Writing \subseteq Writing')
      BY <3>1, <2>2 DEF Writing
    <3> QED BY <3>1, <3>2, <2>2, FilesKept DEF FilesStay
  <2>11. CASE Reply(q)
    <3>1. /\ pc[q] = "chatting" /\ UNCHANGED <<memory, history, kept, unseen>>
          /\ \/ pc'[q] = "clearing" /\ unentered \subseteq unentered'
             \/ /\ pc'[q] = "replacing" /\ local'[q] = local[q]
                /\ unentered' = unentered \cup Range(local[q].taken)
             \/ /\ pc'[q] = "logging" /\ local'[q].known = local[q].known
                /\ local'[q].taken = local[q].taken /\ unentered' = unentered
      <4>1. \/ Return(q) /\ unentered \subseteq unentered'
            \/ Goto(q, "replacing") /\ unentered' = unentered \cup Range(local[q].taken)
            \/ /\ unentered' = unentered
               /\ \E update \in BOOLEAN :
                     GotoWith(q, "logging", [local[q] EXCEPT !.update = update])
        BY <2>11 DEF Reply
      <4>2. pc[q] = "chatting" /\ UNCHANGED <<memory, history, kept, unseen>>
        BY <2>11 DEF Reply
      <4>3. CASE Return(q) /\ unentered \subseteq unentered'
        BY <4>2, <4>3, <2>ret
      <4>4. CASE Goto(q, "replacing") /\ unentered' = unentered \cup Range(local[q].taken)
        BY <4>2, <4>4, <2>3
      <4>5. ASSUME NEW update \in BOOLEAN,
                   GotoWith(q, "logging", [local[q] EXCEPT !.update = update])
            PROVE  /\ pc'[q] = "logging" /\ local'[q].known = local[q].known
                   /\ local'[q].taken = local[q].taken
        <5>1. local'[q] = [local[q] EXCEPT !.update = update] /\ pc'[q] = "logging"
          BY <4>5, <2>4
        <5> QED BY <5>1 DEF TypeOK
      <4> QED BY <4>1, <4>2, <4>3, <4>4, <4>5
    <3>2. Writing' = Writing
      BY <3>1, <2>2 DEF Writing
    <3>3. CASE pc'[q] # "replacing"
      <4>1. \A r \in Query : pc'[r] \in Saves =>
               /\ pc'[r] = pc[r] \/ (pc[r] = "chatting" /\ pc'[r] = "logging")
               /\ local'[r].known = local[r].known /\ local'[r].taken = local[r].taken
               /\ unseen'[r] = unseen[r]
        BY <3>1, <3>3, <2>2
      <4> QED BY <3>1, <3>2, <3>3, <4>1, FilesKept DEF FilesStay
    <3>4. CASE pc'[q] = "replacing"
      <4>1. /\ local'[q] = local[q] /\ Told' = Told \cup Range(local[q].taken)
            /\ UNCHANGED <<memory, kept, unseen>>
        BY <3>1, <3>4 DEF Told, Logged
      <4>2. Saving' = Saving /\ \A r \in Query : local'[r] = local[r]
        BY <4>1, <3>1, <3>4, <2>2
      <4>3. \A r \in Saving : /\ local[r].known \subseteq Told'
                              /\ kept \ unseen[r] \subseteq local[r].known
        BY <4>1 DEF Files
      <4>4. \A r \in Query : pc'[r] \in Writer => Range(local[r].taken) \subseteq Told'
        BY <4>1, <2>2 DEF Files
      <4> QED BY <4>1, <4>2, <4>3, <4>4, <3>2 DEF Files
    <3> QED BY <3>3, <3>4
  <2>12. CASE Fails(q) \/ RecordUser(q) \/ RecordAssistant(q) \/ Trim(q) \/ Compact(q)
              \/ CompactFails(q) \/ Track(q) \/ ConsolidateRaises(q) \/ Clear(q)
    <3>1. UNCHANGED <<memory, history, unentered, kept, unseen>> /\ pc[q] # "writing"
      BY <2>12 DEF Fails, RecordUser, RecordAssistant, Trim, Compact, CompactFails,
                   Track, ConsolidateRaises, Clear
    <3>2. pc'[q] \notin Saves
      BY <2>12, <2>3, <2>4, <2>5
         DEF Fails, RecordUser, RecordAssistant, Trim, Compact, CompactFails,
             Track, ConsolidateRaises, Clear, Recorded
    <3>3. Writing \subseteq Writing'
      BY <3>1, <2>2 DEF Writing
    <3> QED BY <3>1, <3>2, <3>3, <2>2, FilesKept DEF FilesStay
  <2> QED BY <1>5, <2>6, <2>7, <2>8, <2>9, <2>10, <2>11, <2>12 DEF Thread
<1> QED BY <1>1, <1>2, <1>3, <1>4, <1>5 DEF Next

-----------------------------------------------------------------------------
(* A step of a thread touches the lists of its own terminal, and logs what  *)
(* it has taken.                                                            *)
LEMMA ThreadsApart ==
    ASSUME TypeOK, Threads, NEW q \in Query, Thread(q)
    PROVE  /\ \A x \in Terminal \ {asker[q]} :
                 /\ recorded'[x] = recorded[x] /\ interactions'[x] = interactions[x]
                 /\ conversation'[x] = conversation[x]
           /\ unlogged \subseteq unlogged' /\ unentered \subseteq unentered'
           /\ atRisk \subseteq atRisk'
           /\ \A r \in Query \ Range(local[q].taken) : history'[r] = history[r]
<1> USE DEF lists, files, ghosts, unsaved, updates
<1>1. \A x \in Terminal \ {asker[q]} : recorded'[x] = recorded[x]
  BY DEF Thread, Fails, RecordUser, RecordAssistant, Trim, Compact, CompactFails, Track,
         Consolidate, ConsolidateRaises, Reply, AppendHistory, Truncate, Write, SaveFails,
         Clear, TypeOK
<1>2. \A x \in Terminal \ {asker[q]} : interactions'[x] = interactions[x]
  BY DEF Thread, Fails, RecordUser, RecordAssistant, Trim, Compact, CompactFails, Track,
         Consolidate, ConsolidateRaises, Reply, AppendHistory, Truncate, Write, SaveFails,
         Clear, TypeOK
<1>3. \A x \in Terminal \ {asker[q]} : conversation'[x] = conversation[x]
  BY DEF Thread, Fails, RecordUser, RecordAssistant, Trim, Compact, CompactFails, Track,
         Consolidate, ConsolidateRaises, Reply, AppendHistory, Truncate, Write, SaveFails,
         Clear, TypeOK
<1>4. unlogged \subseteq unlogged' /\ unentered \subseteq unentered' /\ atRisk \subseteq atRisk'
  BY DEF Thread, Fails, RecordUser, RecordAssistant, Trim, Compact, CompactFails, Track,
         Consolidate, ConsolidateRaises, Reply, AppendHistory, Truncate, Write, SaveFails,
         Clear, NotLogged, Risks
<1>5. \A r \in Query \ Range(local[q].taken) : history'[r] = history[r]
  BY DEF Thread, Fails, RecordUser, RecordAssistant, Trim, Compact, CompactFails, Track,
         Consolidate, ConsolidateRaises, Reply, AppendHistory, Truncate, Write, SaveFails,
         Clear, TypeOK
<1> QED BY <1>1, <1>2, <1>3, <1>4, <1>5

(* A step that leaves the layers of t as they are, or puts more of its      *)
(* exchanges at risk.                                                       *)
LayerStays(t) ==
    /\ recorded'[t] = recorded[t] /\ interactions'[t] = interactions[t]
    /\ \A r \in Range(recorded[t]) :
          /\ history'[r] = history[r]
          /\ pc'[r] \in NotYet <=> pc[r] \in NotYet
          /\ r \in atRisk => r \in atRisk'
          /\ r \in unlogged => r \in unlogged'
          /\ r \in unentered => r \in unentered'
    /\ \A w \in Query : asker'[w] = t =>
          /\ local'[w].taken = <<>> \/ (asker[w] = t /\ local'[w].taken = local[w].taken)
          /\ pc'[w] \in Early => pc[w] \in Early
          /\ pc'[w] \in Late => pc[w] \in Late
          /\ pc'[w] = "clearing" => pc[w] = "clearing"
          /\ pc'[w] \in Early \cup Saved => asker[w] = t /\ local'[w].taken = local[w].taken
    /\ \A w \in Query : asker[w] = t /\ pc[w] \in Saved => asker'[w] = t /\ pc'[w] \in Saved

LEMMA LayerKept ==
    ASSUME TypeOK, RecordedOnce, NEW t \in Terminal, t # Nobody, Layered(t), LayerStays(t)
    PROVE  Layered(t)'
<1> USE DEF LayerStays
<1>1. Range(interactions[t]) \subseteq Range(recorded[t]) /\ Range(recorded[t]) \subseteq Query
  BY RangeTypes DEF RecordedOnce, TypeOK
<1>2. \A r \in Range(recorded[t]) : r \in Stored => r \in Stored'
  BY <1>1 DEF Logged, Stored
<1>3. \A r \in Range(recorded[t]) :
          pc'[r] \in NotYet => history'[r] = 0 /\ r \notin Range(interactions[t])
  BY DEF Layered
<1>4. \A r \in Range(recorded[t]) \ atRisk' :
          /\ history'[r] <= 1
          /\ pc'[r] \notin NotYet => r \in Range(interactions[t]) \cup Stored'
  BY <1>2 DEF Layered
<1>5. (\A w \in Query : asker'[w] = t => pc'[w] \notin Saved) =>
          \A r \in Range(interactions[t]) : history'[r] = 0
  BY <1>1 DEF Layered
<1>6. ASSUME NEW w \in Query, asker'[w] = t PROVE Holding(t, w)'
  <2>1. CASE asker[w] = t /\ local'[w].taken = local[w].taken
    <3>1. Holding(t, w) /\ Range(local[w].taken) \subseteq Range(recorded[t])
      BY <2>1 DEF Layered, RecordedOnce
    <3>2. /\ \A r \in Range(local[w].taken) : pc'[r] \notin NotYet
          /\ pc'[w] \in Early => \A r \in Range(local[w].taken) \ atRisk' : history'[r] = 0
      BY <3>1, <1>6 DEF Holding
    <3>3. pc'[w] \in Late => Range(local[w].taken) \subseteq Stored'
      BY <3>1, <1>2, <1>6 DEF Holding
    <3>4. pc'[w] \in Early \cup Late =>
             Range(interactions[t]) \ atRisk' \subseteq Range(local[w].taken)
      BY <3>1, <1>1, <1>6 DEF Holding
    <3>5. pc'[w] = "clearing" => Range(interactions[t]) \ atRisk' \subseteq Stored'
      BY <3>1, <1>1, <1>2, <1>6 DEF Holding
    <3> QED BY <2>1, <3>2, <3>3, <3>4, <3>5 DEF Holding
  <2>2. CASE ~(asker[w] = t /\ local'[w].taken = local[w].taken)
    <3>1. local'[w].taken = <<>> /\ pc'[w] \notin Early \cup Saved
      BY <2>2, <1>6
    <3> QED BY <3>1, RangeEmpty DEF Holding, Saved
  <2> QED BY <2>1, <2>2
<1>7. ASSUME NEW w \in Query, NEW x \in Query, w # x,
             asker'[w] = t, pc'[w] \in Early \cup Late,
             asker'[x] = t, pc'[x] \in Early \cup Late
      PROVE  Range(local'[w].taken) \cap Range(local'[x].taken) \subseteq atRisk'
  <2>1. /\ asker[w] = t /\ pc[w] \in Early \cup Late /\ local'[w].taken = local[w].taken
        /\ asker[x] = t /\ pc[x] \in Early \cup Late /\ local'[x].taken = local[x].taken
    BY <1>7 DEF Saved
  <2>2. Range(local[w].taken) \cap Range(local[x].taken) \subseteq atRisk
    BY <2>1, <1>7 DEF Layered
  <2>3. Range(local[w].taken) \subseteq Range(recorded[t])
    BY <2>1 DEF RecordedOnce
  <2> QED BY <2>1, <2>2, <2>3
<1> QED BY <1>3, <1>4, <1>5, <1>6, <1>7 DEF Layered

(* A thread goes on with its consolidation: what it logs nobody else has    *)
(* taken but at risk, and it has stored all it took when it gets past the   *)
(* entry.                                                                   *)
ConsolidationMoves(u, q) ==
    /\ UNCHANGED <<recorded, interactions, atRisk>>
    /\ asker' = asker
    /\ \A w \in Query \ {q} : pc'[w] = pc[w] /\ local'[w] = local[w]
    /\ unlogged \subseteq unlogged' /\ unentered \subseteq unentered'
    /\ pc[q] \in Early \cup Late
    /\ \/ pc'[q] \in Early \cup Late /\ local'[q].taken = local[q].taken
       \/ pc'[q] = "clearing" /\ local'[q].taken = <<>>
    /\ pc'[q] \in Early => pc[q] \in Early /\ history' = history
    /\ \/ history' = history
       \/ /\ pc[q] \in Early
          /\ \A r \in Query : history'[r] = IF r \in Range(local[q].taken)
                                            THEN history[r] + 1 ELSE history[r]
    /\ pc'[q] \in Saved => Range(local[q].taken) \subseteq Stored'

LEMMA ConsolidationKept ==
    ASSUME TypeOK, RecordedOnce, NEW u \in Terminal, u # Nobody, NEW q \in Query,
           asker[q] = u, Layered(u), ConsolidationMoves(u, q)
    PROVE  Layered(u)'
<1> DEFINE mine == Range(local[q].taken)
<1>1. /\ Range(interactions[u]) \subseteq Range(recorded[u])
      /\ Range(recorded[u]) \subseteq Query /\ mine \subseteq Range(recorded[u])
  <2>1. recorded[u] \in Seq(Query)
    BY DEF TypeOK
  <2> QED BY <2>1, RangeTypes DEF RecordedOnce
<1> USE DEF ConsolidationMoves
<1>nat. \A r \in Query : history[r] \in Nat
  BY DEF TypeOK
<1>2. Stored \subseteq Stored'
  <2>1. \A r \in Query : history[r] > 0 => history'[r] > 0
    BY <1>nat
  <2> QED BY <2>1 DEF Stored, Logged
<1>3. /\ Holding(u, q) /\ pc'[q] \notin NotYet /\ pc[q] \notin NotYet
      /\ \A r \in Query : pc'[r] \in NotYet <=> pc[r] \in NotYet
  BY DEF Layered, Early, Late, NotYet, TypeOK
<1>4. \A r \in Range(recorded[u]) :
          pc'[r] \in NotYet => history'[r] = 0 /\ r \notin Range(interactions[u])
  <2>1. \A r \in Range(recorded[u]) : pc'[r] \in NotYet => r \notin mine
    BY <1>1, <1>3 DEF Holding
  <2> QED BY <2>1, <1>1, <1>3 DEF Layered
<1>5. \A r \in Range(recorded[u]) \ atRisk : history'[r] <= 1
  <2>1. \A r \in mine \ atRisk : pc[q] \in Early => history[r] = 0
    BY <1>3 DEF Holding
  <2>2. \A r \in Range(recorded[u]) \ atRisk : history[r] <= 1
    BY DEF Layered
  <2> QED BY <2>1, <2>2, <1>1
<1>6. \A r \in Range(recorded[u]) \ atRisk :
          pc'[r] \notin NotYet => r \in Range(interactions[u]) \cup Stored'
  BY <1>1, <1>2, <1>3 DEF Layered
<1>7. (\A w \in Query : asker[w] = u => pc'[w] \notin Saved) =>
          \A r \in Range(interactions[u]) : history'[r] = 0
  <2> SUFFICES ASSUME \A w \in Query : asker[w] = u => pc'[w] \notin Saved
               PROVE  \A r \in Range(interactions[u]) : history'[r] = 0
    OBVIOUS
  <2>1. pc'[q] \in Early /\ pc[q] \in Early /\ history' = history
    BY DEF Saved
  <2>2. \A w \in Query : asker[w] = u => pc[w] \notin Saved
    BY <2>1 DEF Saved, Early, Late
  <2> QED BY <2>1, <2>2 DEF Layered
<1>8. ASSUME NEW w \in Query, asker[w] = u PROVE Holding(u, w)'
  <2>1. CASE w # q
    <3>1. /\ pc'[w] = pc[w] /\ local'[w] = local[w] /\ Holding(u, w)
          /\ Range(local[w].taken) \subseteq Range(recorded[u])
      BY <2>1, <1>8 DEF Layered, RecordedOnce
    <3>2. pc[w] \in Early => \A r \in Range(local[w].taken) \ atRisk : history'[r] = 0
      <4> SUFFICES ASSUME pc[w] \in Early, NEW r \in Range(local[w].taken) \ atRisk
                   PROVE  history'[r] = 0
        OBVIOUS
      <4>1. history[r] = 0
        BY <3>1 DEF Holding
      <4>2. r \notin mine
        BY <2>1, <1>8 DEF Layered
      <4> QED BY <4>1, <4>2, <3>1, <1>1
    <3>3. \A r \in Range(local[w].taken) : pc'[r] \notin NotYet
      BY <3>1, <1>1, <1>3 DEF Holding
    <3> QED BY <3>1, <3>2, <3>3, <1>2 DEF Holding
  <2>2. CASE w = q
    <3>1. CASE pc'[q] = "clearing" /\ local'[q].taken = <<>>
      <4>1. Range(interactions[u]) \ atRisk \subseteq Stored'
        BY <3>1, <1>3 DEF Holding, Saved
      <4> QED BY <4>1, <3>1, <2>2, RangeEmpty DEF Holding, Early, Late
    <3>2. CASE pc'[q] \in Early \cup Late /\ local'[q].taken = local[q].taken
      <4>1. \A r \in mine : pc'[r] \notin NotYet
        BY <1>1, <1>3 DEF Holding
      <4>2. pc'[q] \in Early => \A r \in mine \ atRisk : history'[r] = 0
        BY <1>3 DEF Holding
      <4>3. pc'[q] \in Late => mine \subseteq Stored'
        BY DEF Saved
      <4>4. Range(interactions[u]) \ atRisk \subseteq mine /\ pc'[q] # "clearing"
        BY <1>3, <3>2 DEF Holding, Early, Late
      <4> QED BY <2>2, <3>2, <4>1, <4>2, <4>3, <4>4 DEF Holding
    <3> QED BY <3>1, <3>2
  <2> QED BY <2>1, <2>2
<1>9. ASSUME NEW w \in Query, NEW x \in Query, w # x,
             asker[w] = u, pc'[w] \in Early \cup Late,
             asker[x] = u, pc'[x] \in Early \cup Late
      PROVE  Range(local'[w].taken) \cap Range(local'[x].taken) \subseteq atRisk
  <2>1. \A y \in {w, x} : /\ pc[y] \in Early \cup Late
                          /\ local'[y].taken = local[y].taken
    BY <1>9 DEF Early, Late
  <2> QED BY <2>1, <1>9 DEF Layered
<1> HIDE DEF ConsolidationMoves
<1> QED BY <1>4, <1>5, <1>6, <1>7, <1>8, <1>9 DEF Layered, ConsolidationMoves

(* Every action keeps the layers of a terminal.                             *)
LEMMA LayersStep ==
    ASSUME TypeOK, Threads, RecordedOnce, Layers, [Next]_vars PROVE Layers'
<1> USE DEF session, lists, files, threads, ghosts, unsaved, updates, NotYet, Saves
<1>1. CASE UNCHANGED vars
  BY <1>1 DEF vars, Layers, Layered, Holding, Stored, Logged
<1>range. \A t \in Terminal : /\ Range(recorded[t]) \subseteq Query
                              /\ Range(interactions[t]) \subseteq Range(recorded[t])
  BY RangeTypes DEF TypeOK, RecordedOnce
<1>run. running \subseteq Terminal /\ Nobody \notin Terminal
  BY TerminalAssumption DEF TypeOK
<1>2. ASSUME NEW u \in Terminal, Ask(u) PROVE Layers'
  <2> DEFINE n == nQueries + 1
  <2>1. /\ n \in Query /\ pc[n] = "none" /\ local[n] = NoLocal
        /\ UNCHANGED <<backend, running, recorded, interactions, history, unlogged,
                       unentered, atRisk, local>>
        /\ pc' = [pc EXCEPT ![n] = "asking"] /\ asker' = [asker EXCEPT ![n] = u]
        /\ asker[n] = Nobody
    BY <1>2, BoundFacts DEF Ask, TypeOK, Query, Threads
  <2> HIDE DEF n
  <2>2. pc'[n] = "asking" /\ \A r \in Query \ {n} : pc'[r] = pc[r] /\ asker'[r] = asker[r]
    BY <2>1 DEF TypeOK
  <2>3. \A t \in Terminal : n \notin Range(recorded[t])
    BY <2>1 DEF RecordedOnce, Fresh
  <2>4. local[n].taken = <<>>
    BY <2>1 DEF NoLocal
  <2>5. ASSUME NEW t \in Terminal PROVE LayerStays(t)
    <3>1. \A r \in Range(recorded[t]) : pc'[r] = pc[r]
      BY <2>2, <2>3, <1>range
    <3>2. \A w \in Query : asker[w] = t => asker'[w] = t /\ pc'[w] = pc[w]
      BY <2>1, <2>2, <1>run
    <3>3. \A w \in Query : asker'[w] = t =>
             \/ asker[w] = t /\ pc'[w] = pc[w]
             \/ local'[w].taken = <<>> /\ pc'[w] = "asking"
      BY <2>1, <2>2, <2>4
    <3> QED BY <2>1, <3>1, <3>2, <3>3 DEF LayerStays, Early, Late, Saved
  <2> QED BY <2>1, <2>5, <1>run, LayerKept DEF Layers
<1>3. ASSUME NEW u \in Terminal, CtrlC(u) PROVE Layers'
  <2>1. (\A t \in Terminal : LayerStays(t)) /\ UNCHANGED <<backend, running>>
    BY <1>3, <1>range DEF CtrlC, LayerStays
  <2> QED BY <2>1, <1>run, LayerKept DEF Layers
<1>4. ASSUME NEW u \in Terminal, Exit(u) PROVE Layers'
  <2>1. /\ running' = running \ {u}
        /\ UNCHANGED <<backend, history, unentered>>
        /\ recorded' = [recorded EXCEPT ![u] = <<>>]
        /\ interactions' = [interactions EXCEPT ![u] = <<>>]
        /\ unlogged' = unlogged \ Range(recorded[u]) /\ atRisk' = atRisk \ Range(recorded[u])
        /\ \A r \in Query : IF asker[r] = u THEN pc'[r] = "ended" /\ asker'[r] = Nobody
                            ELSE /\ pc'[r] = pc[r] /\ asker'[r] = asker[r]
                                 /\ local'[r] = local[r]
    BY <1>4 DEF Exit, Busy
  <2>2. ASSUME NEW t \in Terminal, t # u PROVE LayerStays(t)
    <3>1. recorded'[t] = recorded[t] /\ interactions'[t] = interactions[t] /\ t # Nobody
      BY <2>1, <2>2, <1>run DEF TypeOK
    <3>2. \A r \in Range(recorded[t]) : asker[r] # u /\ r \notin Range(recorded[u])
      BY <2>2, <1>4, <1>run DEF RecordedOnce
    <3>3. \A r \in Range(recorded[t]) :
             /\ history'[r] = history[r] /\ pc'[r] = pc[r]
             /\ r \in atRisk => r \in atRisk'
             /\ r \in unlogged => r \in unlogged'
             /\ r \in unentered => r \in unentered'
      BY <2>1, <3>2, <1>range
    <3>4. \A w \in Query : asker'[w] = t \/ asker[w] = t =>
             asker[w] = t /\ asker'[w] = t /\ pc'[w] = pc[w] /\ local'[w] = local[w]
      BY <2>1, <2>2, <1>run
    <3> QED BY <3>1, <3>3, <3>4 DEF LayerStays
  <2> QED BY <2>1, <2>2, <1>run, LayerKept DEF Layers
<1>5. ASSUME NEW q \in Query, Thread(q) PROVE Layers'
  <2>u. PICK u \in Terminal : asker[q] = u
    BY <1>5, ThreadMoves
  <2>1. /\ asker[q] = u /\ u # Nobody /\ u \in running
        /\ pc' = [pc EXCEPT ![q] = pc'[q]]
        /\ local' = [local EXCEPT ![q] = local'[q]]
        /\ asker' = [asker EXCEPT ![q] = asker'[q]] /\ asker'[q] \in {asker[q], Nobody}
        /\ asker'[q] = Nobody <=> pc'[q] = "ended"
        /\ UNCHANGED <<backend, running>>
    BY <1>5, <2>u, ThreadMoves
  <2>2. \A r \in Query \ {q} : pc'[r] = pc[r] /\ local'[r] = local[r] /\ asker'[r] = asker[r]
    BY <2>1 DEF TypeOK
  <2>3. ASSUME NEW t \in Terminal, t # u PROVE LayerStays(t)
    <3>1. /\ recorded'[t] = recorded[t] /\ interactions'[t] = interactions[t]
          /\ unlogged \subseteq unlogged' /\ unentered \subseteq unentered'
          /\ atRisk \subseteq atRisk'
          /\ \A r \in Query \ Range(local[q].taken) : history'[r] = history[r]
      BY <1>5, <2>1, <2>3, ThreadsApart
    <3>2. \A r \in Range(recorded[t]) : r # q /\ r \notin Range(local[q].taken)
      BY <2>1, <2>3 DEF RecordedOnce
    <3>3. asker[q] # t /\ asker'[q] # t
      BY <2>1, <2>3, <1>run
    <3>4. \A r \in Range(recorded[t]) : history'[r] = history[r] /\ pc'[r] = pc[r]
      BY <3>1, <3>2, <2>2, <1>range
    <3>5. \A w \in Query : asker'[w] = t \/ asker[w] = t =>
             asker[w] = t /\ asker'[w] = t /\ pc'[w] = pc[w] /\ local'[w] = local[w]
      BY <3>3, <2>2
    <3> QED BY <3>1, <3>4, <3>5 DEF LayerStays
  <2>4. ASSUME backend = "agent" PROVE Layered(u)'
    <3>1. Layered(u)
      BY <2>1, <2>4 DEF Layers
    <3>goto. \A label : Goto(q, label) => pc'[q] = label /\ local'[q] = local[q] /\ asker' = asker
      BY DEF Goto, TypeOK
    <3>with. \A label, l : GotoWith(q, label, l) =>
                pc'[q] = label /\ local'[q] = l /\ asker' = asker
      BY DEF GotoWith, TypeOK
    <3>ret. Return(q) => pc'[q] = "clearing" /\ local'[q].taken = <<>> /\ asker' = asker
      BY <3>with DEF Return, NoLocal
    <3>end. End(q) => pc'[q] = "ended" /\ asker'[q] = Nobody
      BY DEF End, TypeOK
    <3>stays. ASSUME UNCHANGED <<recorded, interactions, history, unlogged, unentered, atRisk>>,
                     pc'[q] \in NotYet <=> pc[q] \in NotYet,
                     \/ asker'[q] = Nobody
                     \/ asker'[q] = u /\ local'[q].taken = local[q].taken,
                     pc'[q] \in Early \cup Saved <=> pc[q] \in Early \cup Saved,
                     pc'[q] \in Early => pc[q] \in Early,
                     pc'[q] \in Late => pc[q] \in Late,
                     pc'[q] = "clearing" => pc[q] = "clearing"
              PROVE  Layered(u)'
      <4>1. asker'[q] = Nobody => pc'[q] \notin Early \cup Saved
        BY <2>1 DEF Early, Late, Saved
      <4>2. \A w \in Query : asker[w] = u /\ pc[w] \in Saved => asker'[w] = u /\ pc'[w] \in Saved
        BY <3>stays, <4>1, <2>1, <2>2 DEF Early, Late, Saved
      <4>3. \A w \in Query : asker'[w] = u => asker[w] = u /\ local'[w].taken = local[w].taken
        BY <3>stays, <2>1, <2>2
      <4>4. \A r \in Query : pc'[r] \in NotYet <=> pc[r] \in NotYet
        BY <3>stays, <2>2
      <4>5. \A w \in Query : /\ pc'[w] \in Early => pc[w] \in Early
                             /\ pc'[w] \in Late => pc[w] \in Late
                             /\ pc'[w] = "clearing" => pc[w] = "clearing"
        BY <3>stays, <2>2
      <4>6. LayerStays(u)
        BY <3>stays, <4>2, <4>3, <4>4, <4>5, <1>range DEF LayerStays
      <4> QED BY <4>6, <3>1, <2>1, LayerKept
    <3>5. CASE Fails(q) \/ RecordUser(q) \/ ConsolidateRaises(q) \/ Truncate(q)
      <4>1. UNCHANGED <<recorded, interactions, history, unlogged, unentered, atRisk>>
        BY <3>5 DEF Fails, RecordUser, ConsolidateRaises, Truncate
      <4>2. \/ /\ pc[q] \in {"asking", "tracked"} /\ pc'[q] \in {"ended", "recording"}
               /\ asker'[q] = Nobody \/ (asker' = asker /\ local'[q] = local[q])
            \/ /\ pc[q] = "replacing" /\ pc'[q] = "writing"
               /\ asker' = asker /\ local'[q] = local[q]
        BY <3>5, <3>goto, <3>end DEF Fails, RecordUser, ConsolidateRaises, Truncate, At
      <4> QED BY <4>1, <4>2, <3>stays, <2>1 DEF Early, Late, Saved
    <3>6. CASE Trim(q)
      <4>1. /\ pc[q] = "trimming" /\ pc'[q] = "tracking" /\ asker' = asker /\ local'[q] = local[q]
            /\ UNCHANGED <<recorded, interactions, history, unlogged, unentered, atRisk>>
        BY <3>6, <3>goto, <2>4 DEF Trim, Recorded, At
      <4> QED BY <4>1, <3>stays, <2>1 DEF Early, Late, Saved
    <3>7. CASE RecordAssistant(q)
      <4>1. /\ pc[q] = "recording" /\ pc'[q] \in {"trimming", "tracking"} /\ asker' = asker
            /\ local'[q].taken = local[q].taken
            /\ recorded'[u] = Append(recorded[u], q)
            /\ UNCHANGED <<interactions, history, unlogged, unentered, atRisk>>
        <5>1. /\ pc[q] = "recording" /\ recorded'[u] = Append(recorded[u], q)
              /\ UNCHANGED <<interactions, history, unlogged, unentered, atRisk>>
          BY <3>7, <2>1 DEF RecordAssistant, At, TypeOK
        <5>2. \/ Goto(q, "tracking")
              \/ \E c : GotoWith(q, "trimming", [local[q] EXCEPT !.slice = c])
          BY <3>7, <2>4 DEF RecordAssistant, Recorded
        <5>3. ASSUME NEW c, GotoWith(q, "trimming", [local[q] EXCEPT !.slice = c])
              PROVE  pc'[q] = "trimming" /\ asker' = asker /\ local'[q].taken = local[q].taken
          <6>1. local'[q] = [local[q] EXCEPT !.slice = c]
            BY <5>3, <3>with
          <6>2. local'[q].taken = local[q].taken
            BY <6>1 DEF TypeOK
          <6> QED BY <6>2, <5>3, <3>with
        <5>4. Goto(q, "tracking") =>
                 pc'[q] = "tracking" /\ asker' = asker /\ local'[q].taken = local[q].taken
          BY <3>goto
        <5> QED BY <5>1, <5>2, <5>3, <5>4
      <4>2. Range(recorded'[u]) = Range(recorded[u]) \cup {q}
        BY <4>1, <2>1, RangeAppend DEF TypeOK
      <4>3. q \notin Range(recorded[u]) /\ history[q] = 0
        BY <4>1, <2>1 DEF RecordedOnce, Fresh
      <4>4. q \notin Range(interactions[u]) /\ Stored' = Stored
        BY <4>1, <4>3, <2>1, <1>range DEF Logged, Stored
      <4>5. /\ \A r \in Range(recorded[u]) : pc'[r] = pc[r]
            /\ \A w \in Query : asker[w] = u =>
                  Range(local[w].taken) \subseteq Range(recorded[u])
        BY <4>3, <2>1, <2>2, <1>range DEF RecordedOnce
      <4>6. /\ \A r \in Range(recorded'[u]) :
                  pc'[r] \in NotYet => history'[r] = 0 /\ r \notin Range(interactions'[u])
            /\ \A r \in Range(recorded'[u]) \ atRisk' :
                  /\ history'[r] <= 1
                  /\ pc'[r] \notin NotYet => r \in Range(interactions'[u]) \cup Stored'
        BY <4>1, <4>2, <4>3, <4>4, <4>5, <3>1 DEF Layered
      <4>7. \A w \in Query : /\ local'[w].taken = local[w].taken
                             /\ pc'[w] \in Early \cup Saved => pc'[w] = pc[w] /\ w # q
                             /\ pc[w] \in Saved => pc'[w] = pc[w]
        BY <4>1, <2>2 DEF Early, Late, Saved
      <4>8. (\A w \in Query : asker'[w] = u => pc'[w] \notin Saved) =>
                \A r \in Range(interactions'[u]) : history'[r] = 0
        BY <4>1, <4>7, <3>1 DEF Layered
      <4>9. ASSUME NEW w \in Query, asker'[w] = u PROVE Holding(u, w)'
        <5>1. Holding(u, w) /\ \A r \in Range(local[w].taken) : pc'[r] = pc[r]
          BY <4>1, <4>5, <4>9, <3>1 DEF Layered
        <5>2. \A r \in Range(local'[w].taken) : pc'[r] \notin NotYet
          BY <5>1, <4>7 DEF Holding
        <5> QED BY <5>1, <5>2, <4>1, <4>4, <4>7 DEF Holding, Saved
      <4>10. \A w, x \in Query :
                /\ asker'[w] = u /\ pc'[w] \in Early \cup Late
                /\ asker'[x] = u /\ pc'[x] \in Early \cup Late /\ w # x
                => Range(local'[w].taken) \cap Range(local'[x].taken) \subseteq atRisk'
        BY <4>1, <4>7, <3>1 DEF Layered, Saved
      <4> QED BY <4>6, <4>8, <4>9, <4>10 DEF Layered
    <3>8. CASE Track(q)
      <4>1. /\ pc[q] = "tracking" /\ pc'[q] = "tracked" /\ asker' = asker
            /\ local'[q] = local[q]
            /\ interactions'[u] = Append(interactions[u], q)
            /\ UNCHANGED <<recorded, history, unlogged, unentered>> /\ Stored' = Stored
            /\ atRisk' = IF Consolidating(u) = {} THEN atRisk ELSE atRisk \cup {q}
        BY <3>8, <3>goto, <2>1 DEF Track, Risks, At, TypeOK, Logged, Stored
      <4>2. Range(interactions'[u]) = Range(interactions[u]) \cup {q}
        BY <4>1, <2>1, RangeAppend DEF TypeOK
      <4>3. q \in Range(recorded[u]) /\ history[q] = 0
        BY <4>1, <2>1, <3>1 DEF RecordedOnce, Layered
      <4>4. /\ \A r \in Query \ {q} : pc'[r] = pc[r]
            /\ \A w \in Query : /\ local'[w] = local[w]
                                /\ pc'[w] \in Early \cup Saved => pc'[w] = pc[w]
                                /\ pc[w] \in Saved => pc'[w] = pc[w]
        BY <4>1, <2>2 DEF Early, Late, Saved
      <4>5. /\ \A r \in Range(recorded'[u]) :
                  pc'[r] \in NotYet => history'[r] = 0 /\ r \notin Range(interactions'[u])
            /\ \A r \in Range(recorded'[u]) \ atRisk' :
                  /\ history'[r] <= 1
                  /\ pc'[r] \notin NotYet => r \in Range(interactions'[u]) \cup Stored'
        BY <4>1, <4>2, <4>3, <4>4, <3>1, <1>range DEF Layered
      <4>6. (\A w \in Query : asker'[w] = u => pc'[w] \notin Saved) =>
                \A r \in Range(interactions'[u]) : history'[r] = 0
        BY <4>1, <4>2, <4>3, <4>4, <3>1 DEF Layered
      <4>7. ASSUME NEW w \in Query, asker'[w] = u PROVE Holding(u, w)'
        <5>1. Holding(u, w) /\ local'[w] = local[w]
          BY <4>1, <4>4, <4>7, <3>1 DEF Layered
        <5>2. \A r \in Range(local[w].taken) : pc'[r] \notin NotYet
          BY <5>1, <4>1, <4>4, <4>7, <2>1, <1>range DEF Holding, RecordedOnce
        <5>3. pc'[w] \in Early \cup Saved => w \in Consolidating(u)
          BY <4>1, <4>4, <4>7 DEF Consolidating, Busy, Early, Late, Saved
        <5>4. pc'[w] \in Early \cup Saved =>
                 Range(interactions'[u]) \ atRisk' = Range(interactions[u]) \ (atRisk \cup {q})
          BY <5>3, <4>1, <4>2
        <5> HIDE DEF Consolidating
        <5> QED BY <5>1, <5>2, <5>4, <4>1, <4>4 DEF Holding, Saved
      <4>8. \A w, x \in Query :
               /\ asker'[w] = u /\ pc'[w] \in Early \cup Late
               /\ asker'[x] = u /\ pc'[x] \in Early \cup Late /\ w # x
               => Range(local'[w].taken) \cap Range(local'[x].taken) \subseteq atRisk'
        BY <4>1, <4>4, <3>1 DEF Layered, Saved
      <4> QED BY <4>5, <4>6, <4>7, <4>8 DEF Layered
    <3>9. CASE Consolidate(q)
      <4>1. CASE Due(u)
        <5>1. GotoWith(q, "chatting", [local[q] EXCEPT !.taken = interactions[u],
                                                      !.known = memory])
          BY <3>9, <4>1, <2>1 DEF Consolidate
        <5>2. [local[q] EXCEPT !.taken = interactions[u], !.known = memory].taken
                 = interactions[u]
          BY DEF TypeOK
        <5>3. /\ pc[q] = "tracked" /\ pc'[q] = "chatting" /\ asker' = asker
              /\ local'[q].taken = interactions[u]
              /\ UNCHANGED <<recorded, interactions, history, unlogged, unentered>>
              /\ atRisk' = IF Consolidating(u) = {} THEN atRisk
                           ELSE atRisk \cup Range(interactions[u])
              /\ Stored' = Stored
          <6>1. pc'[q] = "chatting" /\ asker' = asker /\ local'[q].taken = interactions[u]
            BY <5>1, <5>2, <3>with
          <6>2. /\ pc[q] = "tracked"
                /\ UNCHANGED <<recorded, interactions, history, unlogged, unentered>>
                /\ Risks(u, Range(interactions[u]))
            BY <3>9, <4>1, <2>1 DEF Consolidate, At
          <6>3. Stored' = Stored
            BY <6>2 DEF Logged, Stored
          <6> QED BY <6>1, <6>2, <6>3 DEF Risks
        <5>4. /\ \A r \in Query : pc'[r] \in NotYet <=> pc[r] \in NotYet
              /\ \A w \in Query \ {q} : pc'[w] = pc[w] /\ local'[w] = local[w]
          BY <5>3, <2>2
        <5>5. /\ \A r \in Range(recorded'[u]) :
                    pc'[r] \in NotYet => history'[r] = 0 /\ r \notin Range(interactions'[u])
              /\ \A r \in Range(recorded'[u]) \ atRisk' :
                    /\ history'[r] <= 1
                    /\ pc'[r] \notin NotYet => r \in Range(interactions'[u]) \cup Stored'
          BY <5>3, <5>4, <3>1, <1>range DEF Layered
        <5>6. (\A w \in Query : asker'[w] = u => pc'[w] \notin Saved) =>
                  \A r \in Range(interactions'[u]) : history'[r] = 0
          BY <5>3, <5>4, <3>1 DEF Layered, Saved, Late
        <5>7. \A r \in Range(interactions[u]) \ atRisk' : history[r] = 0
          <6>1. CASE Consolidating(u) = {}
            <7>1. \A w \in Query : asker[w] = u => pc[w] \notin Saved
              BY <6>1 DEF Consolidating, Busy, Late, Saved
            <7> QED BY <7>1, <3>1 DEF Layered
          <6>2. CASE Consolidating(u) # {}
            BY <6>2, <5>3
          <6> QED BY <6>1, <6>2
        <5>8. \A r \in Range(interactions[u]) : pc'[r] \notin NotYet
          BY <5>4, <3>1, <1>range DEF Layered
        <5>9. ASSUME NEW w \in Query, asker'[w] = u PROVE Holding(u, w)'
          <6>1. CASE w = q
            <7>1. pc'[w] = "chatting" /\ local'[w].taken = interactions[u]
              BY <6>1, <5>3
            <7> QED BY <7>1, <5>3, <5>7, <5>8 DEF Holding, Early, Late
          <6>2. CASE w # q
            <7>1. /\ Holding(u, w) /\ pc'[w] = pc[w] /\ local'[w] = local[w]
                  /\ atRisk \subseteq atRisk'
                  /\ Range(local[w].taken) \subseteq Query
              BY <6>2, <5>3, <5>4, <5>9, <3>1, <2>1, <1>range DEF Layered, RecordedOnce
            <7>2. \A r \in Range(local[w].taken) : pc'[r] \notin NotYet
              BY <7>1, <5>4 DEF Holding
            <7> QED BY <7>1, <7>2, <5>3 DEF Holding
          <6> QED BY <6>1, <6>2
        <5>10. ASSUME NEW w \in Query, asker'[w] = u, pc'[w] \in Early \cup Late, w # q
               PROVE  Range(local'[w].taken) \cap Range(interactions[u]) \subseteq atRisk'
          <6>1. w \in Consolidating(u)
            BY <5>10, <5>3, <5>4 DEF Consolidating, Busy, Early, Late
          <6> QED BY <6>1, <5>3
        <5>11. ASSUME NEW w \in Query, NEW x \in Query, w # x,
                      asker'[w] = u, pc'[w] \in Early \cup Late,
                      asker'[x] = u, pc'[x] \in Early \cup Late
               PROVE  Range(local'[w].taken) \cap Range(local'[x].taken) \subseteq atRisk'
          <6>1. CASE w = q
            BY <6>1, <5>3, <5>10, <5>11
          <6>2. CASE x = q
            BY <6>2, <5>3, <5>10, <5>11
          <6>3. CASE w # q /\ x # q
            BY <6>3, <5>3, <5>4, <5>11, <3>1 DEF Layered
          <6> QED BY <6>1, <6>2, <6>3
        <5> QED BY <5>5, <5>6, <5>9, <5>11 DEF Layered
      <4>2. CASE ~Due(u)
        <5>1. /\ pc[q] = "tracked" /\ pc'[q] = "ended" /\ asker'[q] = Nobody
              /\ UNCHANGED <<recorded, interactions, history, unlogged, unentered, atRisk>>
          BY <3>9, <4>2, <3>end, <2>1 DEF Consolidate, At
        <5> QED BY <5>1, <3>stays DEF Early, Late, Saved
      <4> QED BY <4>1, <4>2
    <3>hold. pc[q] \in Early \cup Late => Holding(u, q) /\ Range(local[q].taken) \subseteq Query
      BY <3>1, <2>1, <1>range DEF Layered, RecordedOnce
    <3>10. CASE Reply(q)
      <4>1. /\ pc[q] = "chatting" /\ UNCHANGED <<recorded, interactions, history, atRisk>>
        BY <3>10 DEF Reply, At
      <4>2. CASE \E update \in BOOLEAN :
                    GotoWith(q, "logging", [local[q] EXCEPT !.update = update])
        <5>1. PICK update \in BOOLEAN : GotoWith(q, "logging", [local[q] EXCEPT !.update = update])
          BY <4>2
        <5>2. [local[q] EXCEPT !.update = update].taken = local[q].taken
          BY DEF TypeOK
        <5>3. pc'[q] = "logging" /\ local'[q].taken = local[q].taken /\ asker' = asker
          BY <5>1, <5>2, <3>with
        <5>4. unlogged \subseteq unlogged' /\ unentered \subseteq unentered'
          BY <3>10 DEF Reply, NotLogged
        <5>5. ConsolidationMoves(u, q)
          BY <4>1, <5>3, <5>4, <2>2 DEF ConsolidationMoves, Early, Late, Saved
        <5> QED BY <5>5, <3>1, <2>1, ConsolidationKept
      <4>3. CASE ~\E update \in BOOLEAN :
                    GotoWith(q, "logging", [local[q] EXCEPT !.update = update])
        <5>1. /\ \/ pc'[q] = "replacing" /\ local'[q] = local[q] /\ asker' = asker
                 \/ pc'[q] = "clearing" /\ local'[q].taken = <<>> /\ asker' = asker
              /\ unlogged \subseteq unlogged' /\ unentered \subseteq unentered'
              /\ Range(local[q].taken) \subseteq unlogged' \cup unentered'
          BY <3>10, <4>3, <3>goto, <3>ret DEF Reply, NotLogged
        <5>2. ConsolidationMoves(u, q)
          BY <4>1, <5>1, <2>2 DEF ConsolidationMoves, Early, Late, Saved, Stored
        <5> QED BY <5>2, <3>1, <2>1, ConsolidationKept
      <4> QED BY <4>2, <4>3
    <3>11. CASE AppendHistory(q)
      <4>1. /\ pc[q] = "logging"
            /\ UNCHANGED <<recorded, interactions, atRisk, unlogged, unentered>>
            /\ \/ pc'[q] = "replacing" /\ local'[q] = local[q] /\ asker' = asker
               \/ pc'[q] = "clearing" /\ local'[q].taken = <<>> /\ asker' = asker
            /\ \A r \in Query : history'[r] = IF r \in Range(local[q].taken)
                                              THEN history[r] + 1 ELSE history[r]
        BY <3>11, <3>goto, <3>ret DEF AppendHistory, At
      <4>2. Range(local[q].taken) \subseteq Logged'
        <5>1. \A r \in Query : history[r] \in Nat
          BY DEF TypeOK
        <5> QED BY <5>1, <4>1, <3>hold DEF Logged, Early
      <4>3. ConsolidationMoves(u, q)
        BY <4>1, <4>2, <2>2 DEF ConsolidationMoves, Early, Late, Saved, Stored
      <4> QED BY <4>3, <3>1, <2>1, ConsolidationKept
    <3>12. CASE SaveFails(q) \/ Write(q)
      <4>1. /\ pc[q] \in {"logging", "replacing", "writing"}
            /\ pc'[q] = "clearing" /\ local'[q].taken = <<>> /\ asker' = asker
            /\ UNCHANGED <<recorded, interactions, history, atRisk, unentered>>
            /\ unlogged \subseteq unlogged'
            /\ pc[q] = "logging" => Range(local[q].taken) \subseteq unlogged'
        BY <3>12, <3>ret DEF SaveFails, Write, NotLogged, At
      <4>2. Range(local[q].taken) \subseteq Stored'
        BY <4>1, <3>hold DEF Holding, Early, Late, Stored, Logged
      <4>3. ConsolidationMoves(u, q)
        BY <4>1, <4>2, <2>2 DEF ConsolidationMoves, Early, Late, Saved
      <4> QED BY <4>3, <3>1, <2>1, ConsolidationKept
    <3>13. CASE Clear(q)
      <4>1. /\ pc[q] = "clearing" /\ pc'[q] = "ended" /\ asker'[q] = Nobody
            /\ interactions'[u] = <<>>
            /\ UNCHANGED <<recorded, history, unlogged, unentered, atRisk>>
            /\ Stored' = Stored
        BY <3>13, <3>end, <2>1 DEF Clear, At, TypeOK, Logged, Stored
      <4>2. Range(interactions'[u]) = {}
        BY <4>1, RangeEmpty
      <4>3. Range(interactions[u]) \ atRisk \subseteq Stored
        BY <4>1, <3>1, <2>1 DEF Layered, Holding
      <4>4. \A r \in Query : pc'[r] \in NotYet <=> pc[r] \in NotYet
        BY <4>1, <2>2
      <4>5. /\ \A r \in Range(recorded'[u]) :
                  pc'[r] \in NotYet => history'[r] = 0 /\ r \notin Range(interactions'[u])
            /\ \A r \in Range(recorded'[u]) \ atRisk' :
                  /\ history'[r] <= 1
                  /\ pc'[r] \notin NotYet => r \in Range(interactions'[u]) \cup Stored'
        BY <4>1, <4>2, <4>3, <4>4, <3>1, <1>range DEF Layered
      <4>6. \A w \in Query : asker'[w] = u =>
               asker[w] = u /\ pc'[w] = pc[w] /\ local'[w] = local[w]
        BY <4>1, <2>1, <2>2
      <4>7. ASSUME NEW w \in Query, asker'[w] = u PROVE Holding(u, w)'
        <5>1. Holding(u, w) /\ Range(local[w].taken) \subseteq Query
          BY <4>6, <4>7, <3>1, <2>1, <1>range DEF Layered, RecordedOnce
        <5> QED BY <5>1, <4>1, <4>2, <4>4, <4>6, <4>7 DEF Holding
      <4>8. \A w, x \in Query :
               /\ asker'[w] = u /\ pc'[w] \in Early \cup Late
               /\ asker'[x] = u /\ pc'[x] \in Early \cup Late /\ w # x
               => Range(local'[w].taken) \cap Range(local'[x].taken) \subseteq atRisk'
        BY <4>1, <4>6, <3>1 DEF Layered
      <4> QED BY <4>2, <4>5, <4>7, <4>8 DEF Layered
    <3>14. CASE Compact(q) \/ CompactFails(q)
      BY <3>14, <2>4 DEF Compact, CompactFails, At, Threads
    <3> QED BY <1>5, <3>5, <3>6, <3>7, <3>8, <3>9, <3>10, <3>11, <3>12, <3>13, <3>14
            DEF Thread
  <2>5. \A t \in running : backend = "agent" => Layered(t)'
    BY <2>1, <2>3, <2>4, <1>run, LayerKept DEF Layers
  <2> QED BY <2>1, <2>5 DEF Layers
<1> QED BY <1>1, <1>2, <1>3, <1>4, <1>5 DEF Next

-----------------------------------------------------------------------------
(* Exchanges: the messages of a sequence of exchanges.                      *)
LEMMA ExchangesProperties ==
    ASSUME NEW r \in Seq(Query)
    PROVE  /\ Exchanges(r) \in Seq(Message \cup {Summary})
           /\ Len(Exchanges(r)) = 2 * Len(r)
           /\ \A i \in 1..2 * Len(r) : Exchanges(r)[i] =
                 Says(IF i % 2 = 1 THEN "user" ELSE "assistant", r[(i + 1) \div 2])
<1> DEFINE n == 2 * Len(r)
           e == [i \in 1..n |->
                    Says(IF i % 2 = 1 THEN "user" ELSE "assistant", r[(i + 1) \div 2])]
<1>1. n \in Nat /\ Len(r) \in Nat
  BY LenProperties
<1>2. ASSUME NEW i \in 1..n PROVE e[i] \in Message \cup {Summary}
  <2>1. (i + 1) \div 2 \in 1..Len(r)
    BY <1>1
  <2>2. r[(i + 1) \div 2] \in Query
    BY <2>1, ElementOfSeq
  <2> QED BY <2>2, MessageTypes
<1>3. e \in [1..n -> Message \cup {Summary}]
  BY <1>2
<1>4. e \in Seq(Message \cup {Summary}) /\ Len(e) = n
  BY <1>1, <1>3
<1>5. Exchanges(r) = e
  BY DEF Exchanges
<1> QED BY <1>1, <1>4, <1>5

(* The end of the end of a sequence; the end of one that grows.             *)
LEMMA LastOfLastOf ==
    ASSUME NEW S, NEW s \in Seq(S), NEW n \in 0..Len(s), NEW m \in 0..n
    PROVE  LastOf(LastOf(s, n), m) = LastOf(s, m)
<1> DEFINE e == LastOf(s, n)
<1>1. Len(s) \in Nat /\ m \in 0..Len(s) /\ m \in Nat /\ n \in Nat
  BY LenProperties
<1>2. e \in Seq(S) /\ Len(e) = n /\ \A i \in 1..n : e[i] = s[Len(s) - n + i]
  BY LastOfProperties
<1>3. /\ LastOf(s, m) \in Seq(S) /\ Len(LastOf(s, m)) = m
      /\ \A i \in 1..m : LastOf(s, m)[i] = s[Len(s) - m + i]
  BY <1>1, LastOfProperties
<1> HIDE DEF e
<1>4. /\ LastOf(e, m) \in Seq(S) /\ Len(LastOf(e, m)) = m
      /\ \A i \in 1..m : LastOf(e, m)[i] = e[n - m + i]
  <2>1. e \in Seq(S) /\ m \in 0..Len(e)
    BY <1>2
  <2>2. /\ LastOf(e, m) \in Seq(S) /\ Len(LastOf(e, m)) = m
        /\ \A i \in 1..m : LastOf(e, m)[i] = e[Len(e) - m + i]
    BY <2>1, LastOfProperties
  <2> QED BY <2>2, <1>2
<1>5. ASSUME NEW i \in 1..m PROVE LastOf(e, m)[i] = LastOf(s, m)[i]
  <2>1. n - m + i \in 1..n /\ Len(s) - n + (n - m + i) = Len(s) - m + i
    BY <1>1
  <2> QED BY <2>1, <1>2, <1>3, <1>4
<1>6. LastOf(e, m) = LastOf(s, m)
  BY <1>3, <1>4, <1>5, SeqEqual
<1> QED BY <1>6 DEF e

LEMMA LastOfAppend ==
    ASSUME NEW S, NEW s \in Seq(S), NEW e \in S, NEW n \in 0..Len(s)
    PROVE  LastOf(Append(s, e), n + 1) = Append(LastOf(s, n), e)
<1> DEFINE a == Append(s, e)
           l == LastOf(s, n)
<1>1. /\ a \in Seq(S) /\ Len(a) = Len(s) + 1 /\ Len(s) \in Nat /\ n \in Nat
      /\ \A i \in 1..Len(s) : a[i] = s[i]
      /\ a[Len(s) + 1] = e
  BY AppendProperties, LenProperties
<1>2. l \in Seq(S) /\ Len(l) = n /\ \A i \in 1..n : l[i] = s[Len(s) - n + i]
  BY LastOfProperties
<1> HIDE DEF a, l
<1>3. /\ LastOf(a, n + 1) \in Seq(S) /\ Len(LastOf(a, n + 1)) = n + 1
      /\ \A i \in 1..n + 1 : LastOf(a, n + 1)[i] = a[Len(a) - (n + 1) + i]
  <2>1. n + 1 \in 0..Len(a)
    BY <1>1
  <2> QED BY <2>1, <1>1, LastOfProperties
<1>4. /\ Append(l, e) \in Seq(S) /\ Len(Append(l, e)) = n + 1
      /\ \A i \in 1..n : Append(l, e)[i] = l[i]
      /\ Append(l, e)[n + 1] = e
  BY <1>2, AppendProperties
<1>5. ASSUME NEW i \in 1..n + 1 PROVE LastOf(a, n + 1)[i] = Append(l, e)[i]
  <2>1. LastOf(a, n + 1)[i] = a[Len(s) - n + i]
    <3>1. Len(a) - (n + 1) + i = Len(s) - n + i
      BY <1>1
    <3> QED BY <3>1, <1>3
  <2>2. CASE i = n + 1
    <3>1. Len(s) - n + i = Len(s) + 1
      BY <1>1, <2>2
    <3> QED BY <3>1, <2>1, <2>2, <1>1, <1>4
  <2>3. CASE i \in 1..n
    <3>1. Len(s) - n + i \in 1..Len(s)
      BY <1>1, <2>3
    <3> QED BY <3>1, <2>1, <2>3, <1>1, <1>2, <1>4
  <2>4. i = n + 1 \/ i \in 1..n
    BY <1>1
  <2> QED BY <2>2, <2>3, <2>4
<1>6. LastOf(a, n + 1) = Append(l, e)
  BY <1>3, <1>4, <1>5, SeqEqual
<1> QED BY <1>6 DEF a, l

(* An exchange more; the last exchanges are the last messages.              *)
LEMMA ExchangesAppend ==
    ASSUME NEW r \in Seq(Query), NEW q \in Query
    PROVE  Exchanges(Append(r, q)) =
               Append(Append(Exchanges(r), Says("user", q)), Says("assistant", q))
<1> DEFINE e == Exchanges(r)
           a == Append(r, q)
           u == Append(e, Says("user", q))
           w == Append(u, Says("assistant", q))
<1>1. /\ a \in Seq(Query) /\ Len(a) = Len(r) + 1 /\ Len(r) \in Nat
      /\ \A i \in 1..Len(r) : a[i] = r[i]
      /\ a[Len(r) + 1] = q
  BY AppendProperties, LenProperties
<1>2. /\ e \in Seq(Line) /\ Len(e) = 2 * Len(r)
      /\ \A i \in 1..2 * Len(r) : e[i] =
            Says(IF i % 2 = 1 THEN "user" ELSE "assistant", r[(i + 1) \div 2])
  BY ExchangesProperties DEF Line
<1> HIDE DEF a, e
<1>3. /\ Exchanges(a) \in Seq(Line) /\ Len(Exchanges(a)) = 2 * Len(r) + 2
      /\ \A i \in 1..2 * Len(r) + 2 : Exchanges(a)[i] =
            Says(IF i % 2 = 1 THEN "user" ELSE "assistant", a[(i + 1) \div 2])
  <2>1. 2 * Len(a) = 2 * Len(r) + 2
    BY <1>1
  <2> QED BY <2>1, <1>1, ExchangesProperties DEF Line
<1>4. Says("user", q) \in Line /\ Says("assistant", q) \in Line
  BY MessageTypes DEF Line
<1>5. /\ u \in Seq(Line) /\ Len(u) = 2 * Len(r) + 1
      /\ \A i \in 1..2 * Len(r) : u[i] = e[i]
      /\ u[2 * Len(r) + 1] = Says("user", q)
  <2>1. /\ u \in Seq(Line) /\ Len(u) = Len(e) + 1
        /\ \A i \in 1..Len(e) : u[i] = e[i]
        /\ u[Len(e) + 1] = Says("user", q)
    <3>1. e \in Seq(Line)
      BY <1>2
    <3> QED BY <3>1, <1>4, AppendProperties
  <2> QED BY <2>1, <1>2
<1> HIDE DEF u
<1>6. /\ w \in Seq(Line) /\ Len(w) = 2 * Len(r) + 2
      /\ \A i \in 1..2 * Len(r) + 1 : w[i] = u[i]
      /\ w[2 * Len(r) + 2] = Says("assistant", q)
  <2>1. u \in Seq(Line) /\ Len(u) = 2 * Len(r) + 1 /\ Len(u) + 1 = 2 * Len(r) + 2
    BY <1>1, <1>5
  <2>2. u \in Seq(Line)
    BY <2>1
  <2>3. /\ w \in Seq(Line) /\ Len(w) = Len(u) + 1
        /\ \A i \in 1..Len(u) : w[i] = u[i]
        /\ w[Len(u) + 1] = Says("assistant", q)
    BY <2>2, <1>4, AppendProperties
  <2> QED BY <2>1, <2>3
<1> HIDE DEF w
<1>7. ASSUME NEW i \in 1..2 * Len(r) + 2 PROVE Exchanges(a)[i] = w[i]
  <2>1. CASE i = 2 * Len(r) + 2
    <3>1. i % 2 # 1 /\ (i + 1) \div 2 = Len(r) + 1
      BY <1>1, <2>1
    <3> QED BY <3>1, <2>1, <1>1, <1>3, <1>6
  <2>2. CASE i = 2 * Len(r) + 1
    <3>1. i % 2 = 1 /\ (i + 1) \div 2 = Len(r) + 1 /\ i \in 1..2 * Len(r) + 1
      BY <1>1, <2>2
    <3> QED BY <3>1, <2>2, <1>1, <1>3, <1>5, <1>6
  <2>3. CASE i \in 1..2 * Len(r)
    <3>1. (i + 1) \div 2 \in 1..Len(r) /\ i \in 1..2 * Len(r) + 1
      BY <1>1, <2>3
    <3> QED BY <3>1, <2>3, <1>1, <1>2, <1>3, <1>5, <1>6
  <2> QED BY <2>1, <2>2, <2>3, <1>1
<1>8. Exchanges(a) = w
  BY <1>3, <1>6, <1>7, SeqEqual
<1> QED BY <1>8 DEF a, e, u, w

LEMMA LastOfExchanges ==
    ASSUME NEW r \in Seq(Query), NEW m \in 0..Len(r)
    PROVE  LastOf(Exchanges(r), 2 * m) = Exchanges(LastOf(r, m))
<1> DEFINE e == Exchanges(r)
           l == LastOf(r, m)
<1>1. Len(r) \in Nat /\ m \in Nat /\ m <= Len(r)
  BY LenProperties
<1>2. /\ e \in Seq(Line) /\ Len(e) = 2 * Len(r)
      /\ \A i \in 1..2 * Len(r) : e[i] =
            Says(IF i % 2 = 1 THEN "user" ELSE "assistant", r[(i + 1) \div 2])
  BY ExchangesProperties DEF Line
<1>3. l \in Seq(Query) /\ Len(l) = m /\ \A i \in 1..m : l[i] = r[Len(r) - m + i]
  BY LastOfProperties
<1> HIDE DEF e, l
<1>4. /\ LastOf(e, 2 * m) \in Seq(Line) /\ Len(LastOf(e, 2 * m)) = 2 * m
      /\ \A i \in 1..2 * m : LastOf(e, 2 * m)[i] = e[2 * Len(r) - 2 * m + i]
  <2> DEFINE k == 2 * m
  <2>1. k \in 0..Len(e)
    BY <1>1, <1>2
  <2> HIDE DEF k
  <2>2. /\ LastOf(e, k) \in Seq(Line) /\ Len(LastOf(e, k)) = k
        /\ \A i \in 1..k : LastOf(e, k)[i] = e[Len(e) - k + i]
    BY <2>1, <1>2, LastOfProperties
  <2> QED BY <2>2, <1>2 DEF k
<1>5. /\ Exchanges(l) \in Seq(Line) /\ Len(Exchanges(l)) = 2 * m
      /\ \A i \in 1..2 * m : Exchanges(l)[i] =
            Says(IF i % 2 = 1 THEN "user" ELSE "assistant", l[(i + 1) \div 2])
  BY <1>3, ExchangesProperties DEF Line
<1>6. ASSUME NEW i \in 1..2 * m PROVE LastOf(e, 2 * m)[i] = Exchanges(l)[i]
  <2> DEFINE j == 2 * Len(r) - 2 * m + i
  <2>1. j \in 1..2 * Len(r) /\ (j % 2 = 1 <=> i % 2 = 1)
    BY <1>1
  <2>2. (i + 1) \div 2 \in 1..m /\ (j + 1) \div 2 = Len(r) - m + (i + 1) \div 2
    BY <1>1
  <2>3. LastOf(e, 2 * m)[i] = e[j]
    BY <1>4
  <2>4. e[j] = Says(IF j % 2 = 1 THEN "user" ELSE "assistant", r[(j + 1) \div 2])
    BY <1>2, <2>1
  <2>5. r[(j + 1) \div 2] = l[(i + 1) \div 2]
    BY <1>3, <2>2
  <2> HIDE DEF j
  <2> QED BY <2>1, <2>3, <2>4, <2>5, <1>5
<1>7. LastOf(e, 2 * m) = Exchanges(l)
  BY <1>4, <1>5, <1>6, SeqEqual
<1> QED BY <1>7 DEF e, l

(* A line before a sequence is not at its end.                              *)
LEMMA LastOfBehind ==
    ASSUME NEW S, NEW e \in S, NEW s \in Seq(S), NEW n \in 0..Len(s)
    PROVE  LastOf(<<e>> \o s, n) = LastOf(s, n)
<1> DEFINE c == <<e>> \o s
<1>1. Len(s) \in Nat /\ n \in Nat /\ n <= Len(s)
  BY LenProperties
<1>2. <<e>> \in Seq(S) /\ Len(<<e>>) = 1
  OBVIOUS
<1>3. /\ c \in Seq(S) /\ Len(c) = 1 + Len(s)
      /\ \A i \in 1..1 + Len(s) : c[i] = IF i <= 1 THEN <<e>>[i] ELSE s[i - 1]
  BY <1>2, ConcatProperties
<1> HIDE DEF c
<1>4. /\ LastOf(c, n) \in Seq(S) /\ Len(LastOf(c, n)) = n
      /\ \A i \in 1..n : LastOf(c, n)[i] = c[Len(c) - n + i]
  <2>1. c \in Seq(S) /\ n \in 0..Len(c)
    BY <1>1, <1>3
  <2> QED BY <2>1, LastOfProperties
<1>5. /\ LastOf(s, n) \in Seq(S) /\ Len(LastOf(s, n)) = n
      /\ \A i \in 1..n : LastOf(s, n)[i] = s[Len(s) - n + i]
  BY LastOfProperties
<1>6. ASSUME NEW i \in 1..n PROVE LastOf(c, n)[i] = LastOf(s, n)[i]
  <2> DEFINE j == Len(c) - n + i
  <2>1. j \in 1..1 + Len(s) /\ ~(j <= 1) /\ j - 1 = Len(s) - n + i
    BY <1>1, <1>3
  <2> QED BY <2>1, <1>3, <1>4, <1>5
<1>7. LastOf(c, n) = LastOf(s, n)
  BY <1>4, <1>5, <1>6, SeqEqual
<1> QED BY <1>7 DEF c

(* The lengths and the ends of what the LLM is told.                        *)
LEMMA TellsLength ==
    ASSUME NEW b, NEW c, NEW r \in Seq(Query), NEW n \in 0..Len(r), Tells(b, c, r, n)
    PROVE  /\ c \in Seq(Line)
           /\ \/ Len(c) = 2 * n
              \/ b = "adapter" /\ Len(c) = 2 * n + 1
<1> DEFINE e == Exchanges(LastOf(r, n))
<1>1. LastOf(r, n) \in Seq(Query) /\ Len(LastOf(r, n)) = n /\ n \in Nat
  BY LastOfProperties, LenProperties
<1>2. e \in Seq(Line) /\ Len(e) = 2 * n
  BY <1>1, ExchangesProperties DEF Line
<1> HIDE DEF e
<1>3. <<Summary>> \in Seq(Line) /\ Len(<<Summary>>) = 1
  BY MessageTypes DEF Line
<1>4. <<Summary>> \o e \in Seq(Line) /\ Len(<<Summary>> \o e) = 2 * n + 1
  <2>1. <<Summary>> \o e \in Seq(Line) /\ Len(<<Summary>> \o e) = Len(<<Summary>>) + Len(e)
    BY <1>2, <1>3, ConcatProperties
  <2> QED BY <2>1, <1>1, <1>2, <1>3
<1>5. c = e \/ (b = "adapter" /\ c = <<Summary>> \o e)
  BY DEF Tells, e
<1> QED BY <1>2, <1>4, <1>5

LEMMA TellsLast ==
    ASSUME NEW b, NEW c, NEW r \in Seq(Query), NEW n \in 0..Len(r), Tells(b, c, r, n),
           NEW m \in 0..n
    PROVE  LastOf(c, 2 * m) = Exchanges(LastOf(r, m)) /\ m \in 0..Len(r)
<1> DEFINE l == LastOf(r, n)
           e == Exchanges(l)
           k == 2 * m
<1>1. l \in Seq(Query) /\ Len(l) = n /\ n \in Nat /\ m \in 0..Len(r) /\ m \in 0..n
  BY LastOfProperties, LenProperties
<1>2. LastOf(l, m) = LastOf(r, m)
  BY LastOfLastOf
<1>3. c = e \/ c = <<Summary>> \o e
  BY DEF Tells
<1> HIDE DEF l
<1>4. LastOf(e, k) = Exchanges(LastOf(r, m))
  BY <1>1, <1>2, LastOfExchanges
<1>5. e \in Seq(Line) /\ Len(e) = 2 * n
  BY <1>1, ExchangesProperties DEF Line
<1>6. k \in 0..Len(e)
  BY <1>1, <1>5
<1>7. Summary \in Line
  BY DEF Line
<1> HIDE DEF e, k
<1>8. LastOf(<<Summary>> \o e, k) = LastOf(e, k)
  BY <1>5, <1>6, <1>7, LastOfBehind
<1> QED BY <1>1, <1>3, <1>4, <1>8 DEF k

LEMMA AppendBehind ==
    ASSUME NEW S, NEW p \in Seq(S), NEW s \in Seq(S), NEW e \in S
    PROVE  Append(p \o s, e) = p \o Append(s, e)
<1>1. /\ p \o s \in Seq(S) /\ Append(s, e) \in Seq(S) /\ Append(p \o s, e) \in Seq(S)
      /\ p \o Append(s, e) \in Seq(S) /\ <<e>> \in Seq(S)
  BY ConcatProperties, AppendProperties
<1>2. Append(p \o s, e) = (p \o s) \o <<e>> /\ Append(s, e) = s \o <<e>>
  BY <1>1, AppendIsConcat
<1>3. (p \o s) \o <<e>> = p \o (s \o <<e>>)
  BY <1>1, ConcatAssociative
<1> QED BY <1>2, <1>3

(* Nothing is told of nothing; an exchange more is told of an exchange more;*)
(* a list that is too long recalls enough when it is sliced or compacted.   *)
LEMMA RecallsNothing == ASSUME NEW b PROVE Recalls(b, <<>>, <<>>)
<1> DEFINE none == LastOf(<<>>, 0)
<1>1. <<>> \in Seq(Query) /\ Len(<<>>) = 0
  BY EmptySeq
<1>2. 0 \in 0..Len(<<>>)
  BY <1>1
<1>3. none \in Seq(Query) /\ Len(none) = 0
  BY <1>1, <1>2, LastOfProperties
<1> HIDE DEF none
<1>4. Exchanges(none) \in Seq(Line) /\ Len(Exchanges(none)) = 0
  <2>1. Exchanges(none) \in Seq(Line) /\ Len(Exchanges(none)) = 2 * Len(none)
    BY <1>3, ExchangesProperties DEF Line
  <2> QED BY <2>1, <1>3
<1>5. Exchanges(none) = <<>>
  BY <1>4, EmptySeq
<1> QED BY <1>1, <1>2, <1>5 DEF Recalls, Tells, Enough, none

LEMMA RecallsOneMore ==
    ASSUME NEW b \in {"agent", "adapter"}, NEW c \in Seq(Line), NEW r \in Seq(Query),
           NEW q \in Query, NEW n \in 0..Len(r), Tells(b, c, r, n)
    PROVE  /\ Append(r, q) \in Seq(Query) /\ n + 1 \in 0..Len(Append(r, q))
           /\ Tells(b, Append(Append(c, Says("user", q)), Says("assistant", q)),
                    Append(r, q), n + 1)
<1> DEFINE l == LastOf(r, n)
           e == Exchanges(l)
           u == Says("user", q)
           a == Says("assistant", q)
<1>1. l \in Seq(Query) /\ Len(r) \in Nat /\ n \in Nat
  BY LastOfProperties, LenProperties
<1>2. Append(r, q) \in Seq(Query) /\ Len(Append(r, q)) = Len(r) + 1
  BY AppendProperties
<1>3. LastOf(Append(r, q), n + 1) = Append(l, q)
  BY LastOfAppend
<1>4. c = e \/ (b = "adapter" /\ c = <<Summary>> \o e)
  BY DEF Tells
<1> HIDE DEF l
<1>5. Exchanges(Append(l, q)) = Append(Append(e, u), a)
  BY <1>1, ExchangesAppend
<1>6. e \in Seq(Line) /\ u \in Line /\ a \in Line /\ <<Summary>> \in Seq(Line)
  BY <1>1, ExchangesProperties, MessageTypes DEF Line
<1> HIDE DEF e, u, a
<1>7. Append(Append(<<Summary>> \o e, u), a) = <<Summary>> \o Append(Append(e, u), a)
  <2>1. Append(<<Summary>> \o e, u) = <<Summary>> \o Append(e, u)
    BY <1>6, AppendBehind
  <2>2. Append(e, u) \in Seq(Line)
    BY <1>6, AppendProperties
  <2>3. Append(<<Summary>> \o Append(e, u), a) = <<Summary>> \o Append(Append(e, u), a)
    BY <1>6, <2>2, AppendBehind
  <2> QED BY <2>1, <2>3
<1>8. n + 1 \in 0..Len(Append(r, q))
  BY <1>1, <1>2
<1>9. \/ Append(Append(c, u), a) = Exchanges(LastOf(Append(r, q), n + 1))
      \/ /\ b = "adapter"
         /\ Append(Append(c, u), a) = <<Summary>> \o Exchanges(LastOf(Append(r, q), n + 1))
  BY <1>3, <1>4, <1>5, <1>7
<1> QED BY <1>2, <1>8, <1>9 DEF Tells, u, a

LEMMA RecallsSliced ==
    ASSUME NEW b, NEW c, NEW r \in Seq(Query), NEW n \in 0..Len(r), Tells(b, c, r, n),
           b \in {"agent", "adapter"}, Len(c) > MaxMessages
    PROVE  Recalls(b, Trimmed(c), r)
<1>1. MaxPairs \in 0..n /\ 2 * MaxPairs >= KeepRecent /\ MaxMessages = 2 * MaxPairs
  BY BoundFacts, TellsLength
<1>2. LastOf(c, 2 * MaxPairs) = Exchanges(LastOf(r, MaxPairs)) /\ MaxPairs \in 0..Len(r)
  BY <1>1, TellsLast
<1>3. Trimmed(c) = Exchanges(LastOf(r, MaxPairs))
  BY <1>1, <1>2 DEF Trimmed
<1>4. Enough(b, r, MaxPairs)
  BY <1>1 DEF Enough
<1> QED BY <1>2, <1>3, <1>4 DEF Recalls, Tells

LEMMA RecallsCompacted ==
    ASSUME NEW c, NEW r \in Seq(Query), Recalls("adapter", c, r),
           Len(c) > MaxMessages, NEW result \in Compacted(c, c)
    PROVE  Recalls("adapter", result, r)
<1>1. CASE result = c
  BY <1>1
<1>2. CASE result = <<Summary>> \o LastOf(c, KeepRecent)
  <2>1. PICK n \in 0..Len(r) : Tells("adapter", c, r, n)
    BY DEF Recalls
  <2>2. PICK k \in 0..MaxPairs : KeepRecent = 2 * k
    BY BoundAssumption
  <2>3. k \in 0..n /\ 2 * k >= KeepRecent
    BY <2>1, <2>2, BoundFacts, TellsLength
  <2>4. LastOf(c, 2 * k) = Exchanges(LastOf(r, k)) /\ k \in 0..Len(r)
    BY <2>1, <2>3, TellsLast
  <2> QED BY <1>2, <2>2, <2>3, <2>4 DEF Recalls, Tells, Enough
<1> QED BY <1>1, <1>2 DEF Compacted

Composing == {"recording", "trimming", "compacting"}

ConversationStays(t) ==
    /\ UNCHANGED backend
    /\ conversation'[t] = conversation[t] /\ recorded'[t] = recorded[t]
    /\ \A q \in Query : asker'[q] = t /\ pc'[q] \in Composing =>
          asker[q] = t /\ pc'[q] = pc[q] /\ local'[q].slice = local[q].slice
    /\ \A q \in Query : asker[q] = t /\ pc[q] \in Composing =>
          asker'[q] = t /\ pc'[q] \in Composing

LEMMA ConversationKept ==
    ASSUME NEW t \in Terminal, Recalled(t), ConversationStays(t)
    PROVE  Recalled(t)'
<1>1. Settled(t)' => Settled(t)
  BY DEF ConversationStays, Settled, Busy, Composing
<1>2. Settled(t)' => Recalls(backend, conversation[t], recorded[t])'
  BY <1>1 DEF Recalled, ConversationStays, Recalls, Enough, Tells
<1>3. ASSUME NEW q \in Query, asker'[q] = t, pc'[q] = "recording"
      PROVE  \E c \in Seq(Line) : /\ conversation'[t] = Append(c, Says("user", q))
                                  /\ Recalls(backend', c, recorded'[t])
  BY <1>3 DEF Recalled, ConversationStays, Composing
<1>4. ASSUME NEW q \in Query, asker'[q] = t, pc'[q] = "trimming"
      PROVE  Recalls(backend', local'[q].slice, recorded'[t])
  BY <1>4 DEF Recalled, ConversationStays, Composing
<1>5. ASSUME NEW q \in Query, asker'[q] = t, pc'[q] = "compacting"
      PROVE  /\ local'[q].slice = conversation'[t]
             /\ Recalls(backend', conversation'[t], recorded'[t])
  BY <1>5 DEF Recalled, ConversationStays, Composing
<1> QED BY <1>2, <1>3, <1>4, <1>5 DEF Recalled, Recalls, Enough, Tells

(* When the only thread at work in a terminal is q, what it holds of the    *)
(* invariant.                                                               *)
LEMMA OneAtWork ==
    ASSUME NEW u \in Terminal, NEW q \in Query, NEW c, NEW b, NEW r,
           conversation'[u] = c, backend' = b, recorded'[u] = r,
           \A w \in Query : asker'[w] = u => w = q,
           pc'[q] = "ended" => asker'[q] # u,
           asker'[q] # u \/ pc'[q] \notin Composing => Recalls(b, c, r),
           pc'[q] = "recording" =>
              \E d \in Seq(Line) : c = Append(d, Says("user", q)) /\ Recalls(b, d, r),
           pc'[q] = "trimming" => Recalls(b, local'[q].slice, r),
           pc'[q] = "compacting" => local'[q].slice = c /\ Recalls(b, c, r)
    PROVE  Recalled(u)'
<1>1. Settled(u)' => Recalls(backend', conversation'[u], recorded'[u])
  BY DEF Settled, Busy, Composing
<1>2. ASSUME NEW w \in Query, asker'[w] = u
      PROVE  /\ w = q
             /\ pc'[w] = "recording" =>
                   \E d \in Seq(Line) : /\ conversation'[u] = Append(d, Says("user", w))
                                        /\ Recalls(backend', d, recorded'[u])
             /\ pc'[w] = "trimming" => Recalls(backend', local'[w].slice, recorded'[u])
             /\ pc'[w] = "compacting" =>
                   /\ local'[w].slice = conversation'[u]
                   /\ Recalls(backend', conversation'[u], recorded'[u])
  BY <1>2
<1> QED BY <1>1, <1>2 DEF Recalled, Recalls, Enough, Tells

(* Every action keeps the conversations.                                    *)
LEMMA ConversationsStep ==
    ASSUME TypeOK, Threads, Conversations, [Next]_vars PROVE Conversations'
<1> USE DEF session, lists, files, threads, ghosts
<1>1. CASE UNCHANGED vars
  <2>1. \A t \in Terminal : ConversationStays(t) /\ (Whole(t)' <=> Whole(t))
    BY <1>1 DEF vars, ConversationStays, Whole
  <2> QED BY <2>1, ConversationKept DEF Conversations
<1>2. ASSUME NEW u \in Terminal, Ask(u) PROVE Conversations'
  <2>1. /\ UNCHANGED <<backend, running, conversation, recorded, local>>
        /\ overlapped \subseteq overlapped'
        /\ nQueries + 1 \in Query /\ pc[nQueries + 1] = "none"
        /\ pc' = [pc EXCEPT ![nQueries + 1] = "asking"]
        /\ asker' = [asker EXCEPT ![nQueries + 1] = u]
    BY <1>2, BoundFacts DEF Ask, TypeOK, Query, Threads
  <2>2. ASSUME NEW w \in Query
        PROVE  \/ pc'[w] = pc[w] /\ asker'[w] = asker[w]
               \/ pc[w] = "none" /\ pc'[w] = "asking"
    BY <2>1 DEF TypeOK
  <2>3. \A t \in Terminal : ConversationStays(t) /\ (Whole(t)' => Whole(t))
    BY <2>1, <2>2 DEF ConversationStays, Whole, Composing
  <2> QED BY <2>3, ConversationKept DEF Conversations
<1>3. ASSUME NEW u \in Terminal, CtrlC(u) PROVE Conversations'
  <2>1. \A t \in Terminal : ConversationStays(t) /\ (Whole(t)' <=> Whole(t))
    BY <1>3 DEF CtrlC, ConversationStays, Whole
  <2> QED BY <2>1, ConversationKept DEF Conversations
<1>4. ASSUME NEW u \in Terminal, Exit(u) PROVE Conversations'
  <2>1. ASSUME NEW t \in Terminal, t # u PROVE ConversationStays(t)
    <3>1. /\ UNCHANGED backend /\ conversation'[t] = conversation[t]
          /\ recorded'[t] = recorded[t]
      BY <1>4, <2>1 DEF Exit, TypeOK
    <3>2. ASSUME NEW w \in Query
          PROVE  /\ asker'[w] = t <=> asker[w] = t
                 /\ asker[w] = t => pc'[w] = pc[w] /\ local'[w] = local[w]
      BY <1>4, <2>1, TerminalAssumption DEF Exit, TypeOK, Busy
    <3> QED BY <3>1, <3>2 DEF ConversationStays
  <2>2. \A t \in Terminal : Whole(t)' => Whole(t) /\ t # u
    BY <1>4 DEF Exit, Whole
  <2> QED BY <2>1, <2>2, ConversationKept DEF Conversations
<1>5. ASSUME NEW q \in Query, Thread(q) PROVE Conversations'
  <2>u. PICK u \in Terminal : asker[q] = u
    BY <1>5, ThreadMoves
  <2>1. /\ asker[q] = u /\ u # Nobody
        /\ pc' = [pc EXCEPT ![q] = pc'[q]]
        /\ local' = [local EXCEPT ![q] = local'[q]]
        /\ asker' = [asker EXCEPT ![q] = asker'[q]] /\ asker'[q] \in {asker[q], Nobody}
        /\ asker'[q] = Nobody <=> pc'[q] = "ended"
        /\ UNCHANGED <<backend, running, overlapped>>
    BY <1>5, <2>u, ThreadMoves
  <2>2. \A r \in Query \ {q} : pc'[r] = pc[r] /\ local'[r] = local[r] /\ asker'[r] = asker[r]
    BY <2>1 DEF TypeOK
  <2>3. ASSUME NEW t \in Terminal, t # u PROVE ConversationStays(t)
    <3>1. recorded'[t] = recorded[t] /\ conversation'[t] = conversation[t]
      BY <1>5, <2>1, <2>3, ThreadsApart
    <3>2. asker[q] # t /\ asker'[q] # t
      BY <2>1, <2>3, TerminalAssumption
    <3> QED BY <3>1, <3>2, <2>1, <2>2 DEF ConversationStays
  <2>4. \A t \in Terminal : Whole(t)' <=> Whole(t)
    BY <2>1 DEF Whole
  <2>5. ASSUME Whole(u) PROVE Recalled(u)'
    <3>1. /\ Recalled(u) /\ conversation[u] \in Seq(Line) /\ recorded[u] \in Seq(Query)
          /\ backend \in {"agent", "adapter"}
      BY <2>5 DEF Conversations, TypeOK, Line
    <3>2. \A w \in Query : asker[w] = u => w = q
      BY <2>1, <2>5 DEF Threads, Whole
    <3>3. (\A w \in Query : asker'[w] = u => w = q) /\ (pc'[q] = "ended" => asker'[q] # u)
      BY <3>2, <2>2, <2>1
    <3>settled. pc[q] \notin Composing => Recalls(backend, conversation[u], recorded[u])
      BY <3>1, <3>2 DEF Recalled, Settled, Busy, Composing
    <3>busy. /\ pc[q] = "recording" =>
                   \E c \in Seq(Line) : /\ conversation[u] = Append(c, Says("user", q))
                                        /\ Recalls(backend, c, recorded[u])
             /\ pc[q] = "trimming" => Recalls(backend, local[q].slice, recorded[u])
             /\ pc[q] = "compacting" =>
                   /\ local[q].slice = conversation[u]
                   /\ Recalls(backend, conversation[u], recorded[u])
      BY <3>1, <2>1 DEF Recalled
    <3>same. ASSUME NEW c, conversation'[u] = c, recorded'[u] = recorded[u],
                    Recalls(backend, c, recorded[u]), pc'[q] \notin Composing
             PROVE  Recalled(u)'
      BY <3>same, <3>3, <2>1, OneAtWork DEF Composing
    <3>end. End(q) => pc'[q] = "ended"
      BY DEF End, TypeOK
    <3>goto. \A label : Goto(q, label) => pc'[q] = label /\ local'[q] = local[q]
      BY DEF Goto, TypeOK
    <3>with. \A label, l : GotoWith(q, label, l) => pc'[q] = label /\ local'[q] = l
      BY DEF GotoWith, TypeOK
    <3>4. CASE \/ Fails(q) \/ Track(q) \/ Consolidate(q) \/ ConsolidateRaises(q) \/ Reply(q)
               \/ AppendHistory(q) \/ Truncate(q) \/ Write(q) \/ SaveFails(q) \/ Clear(q)
      <4>1. UNCHANGED <<conversation, recorded>> /\ pc[q] \notin Composing
        BY <3>4 DEF Fails, Track, Consolidate, ConsolidateRaises, Reply, AppendHistory,
                    Truncate, Write, SaveFails, Clear, At, Composing
      <4>2. pc'[q] \notin Composing
        <5>1. CASE Fails(q) \/ ConsolidateRaises(q) \/ Clear(q)
          BY <5>1, <3>end DEF Fails, ConsolidateRaises, Clear, Composing
        <5>2. CASE Track(q) \/ AppendHistory(q) \/ Truncate(q) \/ Write(q) \/ SaveFails(q)
          <6>1. pc'[q] \in {"tracked", "replacing", "clearing", "writing"}
            BY <5>2, <3>goto, <3>with
               DEF Track, AppendHistory, Truncate, Write, SaveFails, Return
          <6> QED BY <6>1 DEF Composing
        <5>3. CASE Consolidate(q)
          <6>1. End(q) \/ \E l : GotoWith(q, "chatting", l)
            BY <5>3 DEF Consolidate
          <6> QED BY <6>1, <3>end, <3>with DEF Composing
        <5>4. CASE Reply(q)
          <6>1. pc'[q] \in {"replacing", "clearing", "logging"}
            BY <5>4, <3>goto, <3>with DEF Reply, Return
          <6> QED BY <6>1 DEF Composing
        <5> QED BY <3>4, <5>1, <5>2, <5>3, <5>4
      <4> QED BY <4>1, <4>2, <3>settled, <3>same
    <3>5. CASE RecordUser(q)
      <4>1. /\ conversation'[u] = Append(conversation[u], Says("user", q))
            /\ UNCHANGED recorded /\ pc[q] = "asking" /\ pc'[q] = "recording"
        <5>1. /\ At(q, "asking") /\ Goto(q, "recording") /\ UNCHANGED recorded
              /\ conversation' = [conversation EXCEPT
                                     ![u] = Append(conversation[u], Says("user", q))]
          BY <3>5, <2>1 DEF RecordUser
        <5>2. conversation'[u] = Append(conversation[u], Says("user", q))
          BY <5>1 DEF TypeOK
        <5> QED BY <5>1, <5>2, <3>goto DEF At
      <4>2. Recalls(backend, conversation[u], recorded[u])
        BY <4>1, <3>settled DEF Composing
      <4>3. asker'[q] = u /\ pc'[q] \in Composing
        BY <4>1, <2>1 DEF Composing
      <4>4. \E d \in Seq(Line) : /\ conversation'[u] = Append(d, Says("user", q))
                                 /\ Recalls(backend, d, recorded[u])
        BY <4>1, <4>2, <3>1
      <4> QED BY <4>1, <4>3, <4>4, <3>3, <2>1, OneAtWork
    <3>6. CASE RecordAssistant(q)
      <4> DEFINE a == Append(conversation[u], Says("assistant", q))
                 r == Append(recorded[u], q)
      <4>1. /\ conversation'[u] = a /\ recorded'[u] = r /\ pc[q] = "recording"
            /\ IF Len(a) <= MaxMessages THEN Recorded(q)
               ELSE IF backend = "agent"
                    THEN GotoWith(q, "trimming", [local[q] EXCEPT !.slice = Trimmed(a)])
                    ELSE GotoWith(q, "compacting", [local[q] EXCEPT !.slice = a])
        BY <3>6, <2>1 DEF RecordAssistant, At, TypeOK
      <4>2. PICK c \in Seq(Line) : /\ conversation[u] = Append(c, Says("user", q))
                                   /\ Recalls(backend, c, recorded[u])
        BY <4>1, <3>busy
      <4>3. PICK n \in 0..Len(recorded[u]) :
               Tells(backend, c, recorded[u], n) /\ Enough(backend, recorded[u], n)
        BY <4>2 DEF Recalls
      <4>4. /\ r \in Seq(Query) /\ n + 1 \in 0..Len(r) /\ Tells(backend, a, r, n + 1)
            /\ Len(r) = Len(recorded[u]) + 1
        BY <4>2, <4>3, <3>1, RecallsOneMore, AppendProperties
      <4>5. /\ a \in Seq(Line) /\ Len(a) \in Nat /\ n \in Nat
            /\ \/ Len(a) = 2 * (n + 1)
               \/ backend = "adapter" /\ Len(a) = 2 * (n + 1) + 1
        <5> HIDE DEF a, r
        <5> DEFINE m == n + 1
        <5>1. m \in 0..Len(r) /\ Tells(backend, a, r, m)
          BY <4>4
        <5> HIDE DEF m
        <5>2. /\ a \in Seq(Line)
              /\ Len(a) = 2 * m \/ (backend = "adapter" /\ Len(a) = 2 * m + 1)
          BY <5>1, <4>4, TellsLength
        <5>3. n \in Nat
          BY <3>1, LenProperties
        <5> QED BY <5>2, <5>3, LenProperties DEF m
      <4> HIDE DEF a, r
      <4>6. ASSUME backend = "adapter" \/ Len(a) <= MaxMessages
            PROVE  Recalls(backend, a, r)
        <5>1. Enough(backend, r, n + 1)
          BY <4>3, <4>4, <4>5, <4>6, <3>1, BoundFacts DEF Enough
        <5> QED BY <5>1, <4>4 DEF Recalls
      <4>7. CASE Len(a) <= MaxMessages
        <5>1. pc'[q] \notin Composing
          BY <4>1, <4>7, <3>end, <3>goto DEF Recorded, Composing
        <5> QED BY <5>1, <4>1, <4>6, <4>7, <3>3, <2>1, OneAtWork DEF Composing
      <4>8. CASE Len(a) > MaxMessages /\ backend = "agent"
        <5>1. pc'[q] = "trimming" /\ local'[q] = [local[q] EXCEPT !.slice = Trimmed(a)]
          BY <4>1, <4>5, <4>8, <3>with, BoundFacts
        <5>2. local'[q].slice = Trimmed(a)
          BY <5>1 DEF TypeOK
        <5>3. Recalls(backend, Trimmed(a), r)
          <6> DEFINE m == n + 1
          <6>1. m \in 0..Len(r) /\ Tells(backend, a, r, m) /\ r \in Seq(Query)
            BY <4>4
          <6> HIDE DEF m
          <6> QED BY <6>1, <4>8, <3>1, RecallsSliced
        <5>4. asker'[q] = u /\ pc'[q] \in Composing
          BY <5>1, <2>1 DEF Composing
        <5>5. Recalls(backend, local'[q].slice, r) /\ pc'[q] = "trimming"
          BY <5>1, <5>2, <5>3
        <5> QED BY <5>4, <5>5, <4>1, <3>3, <2>1, OneAtWork
      <4>9. CASE Len(a) > MaxMessages /\ backend = "adapter"
        <5>1. pc'[q] = "compacting" /\ local'[q] = [local[q] EXCEPT !.slice = a]
          BY <4>1, <4>5, <4>9, <3>with, BoundFacts
        <5>2. local'[q].slice = a
          BY <5>1 DEF TypeOK
        <5> QED BY <5>1, <5>2, <4>1, <4>6, <4>9, <3>3, <2>1, OneAtWork DEF Composing
      <4> QED BY <4>5, <4>7, <4>8, <4>9, <3>1, BoundFacts
    <3>7. CASE Trim(q)
      <4>1. /\ conversation'[u] = local[q].slice /\ UNCHANGED recorded
            /\ pc[q] = "trimming" /\ pc'[q] \notin Composing
        BY <3>7, <3>end, <3>goto, <2>1 DEF Trim, Recorded, At, Composing, TypeOK
      <4> QED BY <4>1, <3>busy, <3>same
    <3>8. CASE Compact(q)
      <4>1. pc[q] = "compacting" /\ pc'[q] = "ended" /\ UNCHANGED recorded
        BY <3>8, <3>end DEF Compact, At
      <4>2. PICK result \in Compacted(local[q].slice, conversation[u]) :
               conversation' = [conversation EXCEPT ![u] = result]
        BY <3>8, <2>1 DEF Compact
      <4>3. /\ local[q].slice = conversation[u] /\ backend = "adapter"
            /\ Len(conversation[u]) > MaxMessages
            /\ Recalls("adapter", conversation[u], recorded[u])
        BY <4>1, <3>busy DEF Threads
      <4>4. Recalls(backend, result, recorded[u])
        BY <4>2, <4>3, <3>1, RecallsCompacted
      <4>5. conversation'[u] = result
        BY <4>2 DEF TypeOK
      <4> QED BY <4>1, <4>4, <4>5, <3>same DEF Composing
    <3>9. CASE CompactFails(q)
      <4>1. /\ pc[q] = "compacting" /\ pc'[q] = "trimming" /\ UNCHANGED <<recorded, conversation>>
            /\ local'[q] = [local[q] EXCEPT !.slice = Trimmed(conversation[u])]
        BY <3>9, <3>with, <2>1 DEF CompactFails, At
      <4>2. local'[q].slice = Trimmed(conversation[u])
        BY <4>1 DEF TypeOK
      <4>3. /\ Len(conversation[u]) > MaxMessages
            /\ Recalls(backend, conversation[u], recorded[u])
        BY <4>1, <3>busy DEF Threads
      <4>4. PICK n \in 0..Len(recorded[u]) : Tells(backend, conversation[u], recorded[u], n)
        BY <4>3 DEF Recalls
      <4>5. Recalls(backend, Trimmed(conversation[u]), recorded[u])
        BY <4>3, <4>4, <3>1, RecallsSliced
      <4>6. asker'[q] = u /\ pc'[q] \in Composing
        BY <4>1, <2>1 DEF Composing
      <4>7. /\ Recalls(backend, local'[q].slice, recorded[u]) /\ pc'[q] = "trimming"
            /\ conversation'[u] = conversation[u] /\ recorded'[u] = recorded[u]
        BY <4>1, <4>2, <4>5
      <4> QED BY <4>6, <4>7, <3>3, <2>1, OneAtWork
    <3> QED BY <1>5, <3>4, <3>5, <3>6, <3>7, <3>8, <3>9 DEF Thread
  <2>6. \A t \in Terminal : Whole(t) => Recalled(t)'
    BY <2>3, <2>5, ConversationKept DEF Conversations
  <2> QED BY <2>4, <2>6 DEF Conversations
<1> QED BY <1>1, <1>2, <1>3, <1>4, <1>5 DEF Next

-----------------------------------------------------------------------------
(* The invariant of the system, in named parts.                             *)
IInv == TypeOK /\ Threads /\ RecordedOnce /\ Layers /\ Files /\ Conversations

LEMMA InitIInv == ASSUME Init PROVE IInv
<1>0. <<>> \in Seq(Line) /\ <<>> \in Seq(Query) /\ Range(<<>>) = {}
  BY EmptySeq, RangeEmpty
<1>1. TypeOK
  <2>1. /\ conversation \in [Terminal -> Seq(Message \cup {Summary})]
        /\ interactions \in [Terminal -> Seq(Query)]
        /\ recorded \in [Terminal -> Seq(Query)]
    BY <1>0 DEF Init, Line
  <2>2. nQueries \in 0..MaxQueries /\ nCancels \in 0..MaxCancels
    BY BoundAssumption DEF Init
  <2>3. local \in [Query -> [slice : Seq(Message \cup {Summary}), taken : Seq(Query),
                             known : SUBSET Query, update : BOOLEAN]]
    BY LocalTypes DEF Init
  <2>4. pc \in [Query -> Label] /\ asker \in [Query -> Terminal \cup {Nobody}]
    BY DEF Init, Label
  <2> QED BY <2>1, <2>2, <2>3, <2>4 DEF Init, TypeOK
<1>2. \A q \in Query : pc[q] = "none" /\ asker[q] = Nobody /\ local[q] = NoLocal
  BY DEF Init
<1>3. \A t \in Terminal : /\ recorded[t] = <<>> /\ interactions[t] = <<>>
                          /\ conversation[t] = <<>>
  BY DEF Init
<1>4. nQueries = 0 /\ memory = {} /\ kept = {}
      /\ \A q \in Query : history[q] = 0
  BY DEF Init
<1>5. Threads
  <2>1. \A q \in Query : q > nQueries
    BY <1>4 DEF Query
  <2>2. \A q \in Query : pc[q] \notin {"tracking", "tracked", "clearing", "compacting"} \cup Saves
    BY <1>2 DEF Saves
  <2> QED BY <1>2, <2>1, <2>2 DEF Threads
<1>6. RecordedOnce
  BY <1>0, <1>2, <1>3, <1>4 DEF RecordedOnce
<1>7. Layers
  <2>1. \A t \in Terminal, q \in Query : asker[q] # t
    BY <1>2, TerminalAssumption
  <2>2. \A t \in Terminal : Layered(t)
    BY <1>0, <1>3, <2>1 DEF Layered
  <2> QED BY <2>2 DEF Layers, Init
<1>8. Files
  BY <1>2, <1>4 DEF Files, Saving, Saves
<1>9. Conversations
  <2>1. \A t \in Terminal, q \in Query : asker[q] # t
    BY <1>2, TerminalAssumption
  <2>2. \A t \in Terminal : Recalled(t)
    BY <1>3, <2>1, RecallsNothing DEF Recalled
  <2> QED BY <2>2 DEF Conversations
<1> QED BY <1>1, <1>5, <1>6, <1>7, <1>8, <1>9 DEF IInv

THEOREM Invariance == Spec => []IInv
<1>1. IInv /\ [Next]_vars => IInv'
  BY TypeStep, ThreadsStep, RecordedStep, LayersStep, FilesStep, ConversationsStep DEF IInv
<1> QED BY <1>1, InitIInv, PTL DEF Spec

(* The lists hold messages and queries, the files tell of queries, and a    *)
(* thread is where its handler can be (agent_service.py, memory.py).        *)
THEOREM TypeCorrect == Spec => []TypeOK
<1>1. IInv => TypeOK
  BY DEF IInv
<1> QED BY <1>1, Invariance, PTL

(* However the threads of any number of terminals interleave, what the LLM  *)
(* is told in a terminal where no cancelled query lingered is the latest    *)
(* whole exchanges in order, as many as the bound admits                    *)
(* (forge_llm_adapter.py:107-143, agent_service.py:164-179).                *)
THEOREM ConversationIsRecalled == Spec => []RecentAreRemembered
<1>1. ASSUME IInv PROVE RecentAreRemembered
  <2>1. ASSUME NEW t \in running \ overlapped, Settled(t)
        PROVE  \E n \in 0..Len(recorded[t]) :
                  /\ \/ conversation[t] = Exchanges(LastOf(recorded[t], n))
                     \/ /\ backend = "adapter"
                        /\ conversation[t] = <<Summary>> \o Exchanges(LastOf(recorded[t], n))
                  /\ \/ n = Len(recorded[t])
                     \/ backend = "agent" /\ n = MaxPairs
                     \/ backend = "adapter" /\ 2 * n >= KeepRecent
    <3>1. t \in Terminal /\ Whole(t)
      BY <1>1, <2>1 DEF IInv, TypeOK, Whole
    <3>2. Recalls(backend, conversation[t], recorded[t])
      BY <1>1, <2>1, <3>1 DEF IInv, Conversations, Recalled
    <3> QED BY <3>2 DEF Recalls, Tells, Enough
  <2> QED BY <2>1 DEF RecentAreRemembered
<1> QED BY <1>1, Invariance, PTL

(* Nor does an exchange get lost between the lists and HISTORY.md without a *)
(* consolidation that failed or made no entry, nor is it written down twice,*)
(* but for one that two threads of its terminal have hold of                *)
(* (agent_service.py:181-222, memory.py:122-144).                           *)
THEOREM ExchangesAreKept == Spec => []KeptUntilSaved
<1>1. ASSUME IInv PROVE KeptUntilSaved
  <2>1. ASSUME backend = "agent", NEW t \in running,
               NEW q \in Range(recorded[t]), pc[q] \notin {"trimming", "tracking"}
        PROVE  /\ q \notin atRisk =>
                     /\ q \in Range(interactions[t]) \/ q \in Logged \cup unlogged \cup unentered
                     /\ history[q] <= 1
               /\ q \in Range(interactions[t]) /\ Busy(t) = {} => q \notin Logged
    <3>1. t \in Terminal
      BY <1>1, <2>1 DEF IInv, TypeOK
    <3>2. Layered(t)
      BY <1>1, <2>1 DEF IInv, Layers
    <3>3. q \in Range(interactions[t]) /\ Busy(t) = {} => history[q] = 0
      BY <3>2 DEF Layered, Busy
    <3> QED BY <2>1, <3>2, <3>3 DEF Layered, Logged, Stored, NotYet
  <2> QED BY <2>1 DEF KeptUntilSaved
<1> QED BY <1>1, Invariance, PTL

(* The two files agree: MEMORY.md never tells of what HISTORY.md does not   *)
(* but for what had no entry; and has all its updates but for those that    *)
(* were written after the read of the thread that wrote last, or during it, *)
(* and those before a write cut short (memory.py:64-66, 96-144).            *)
THEOREM FilesAgree == Spec => []LayersAgree
<1>1. IInv => LayersAgree
  BY DEF IInv, Files, Told, LayersAgree
<1> QED BY <1>1, Invariance, PTL
=============================================================================
