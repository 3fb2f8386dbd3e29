----------------------------- MODULE AgentMemory -----------------------------
(***************************************************************************)
(* What the assistant remembers: AgentService.process with MemoryStore     *)
(* (src/infrastructure/agent), or ForgeLLMAdapter.request                  *)
(* (src/infrastructure/intelligence) when the agent is disabled.           *)
(*                                                                         *)
(* Each terminal is a process with its own service; all of them share the  *)
(* files MEMORY.md and HISTORY.md.  A query runs in a thread of its own and*)
(* records its exchange in the service's lists, which have no lock: after a*)
(* Ctrl-C the thread of the cancelled query may still be recording, or     *)
(* consolidating, when that of the next one starts.  A process that exits  *)
(* takes its threads with it wherever they are.                            *)
(*                                                                         *)
(* Exchanges are known by the number of their query; the LLM's answers are *)
(* choices.  What the queue of answers does to the session is in NLSession.*)
(***************************************************************************)
EXTENDS Naturals, FiniteSets, SequencesExt

CONSTANTS
    Terminal,    \* the processes that use the same home directory
    MaxQueries,  \* bound on the queries of all terminals, for TLC
    MaxCancels,  \* bound on Ctrl-C while a query is pending, for TLC
    MaxAtWork,   \* bound on the queries at work at a time, for TLC
    MaxPairs,    \* _max_history_pairs, max_history: 5 in the code
    KeepRecent,  \* keep_recent of the compactor, in messages, whole pairs: 4
    EveryN       \* memory_consolidate_every: 10 by default, 0 is never

ASSUME BoundAssumption ==
    /\ MaxQueries \in Nat /\ MaxCancels \in Nat /\ MaxAtWork \in Nat
    /\ EveryN \in Nat
    /\ MaxPairs \in Nat \ {0}
    /\ KeepRecent \in {2 * n : n \in 0..MaxPairs}

Query == 1..MaxQueries
Message == [role : {"user", "assistant"}, of : Query]
Summary == [role |-> "summary", of |-> 0]
Nobody == "nobody"

ASSUME TerminalAssumption == Nobody \notin Terminal

VARIABLES
    backend,      \* "agent" or "adapter": config.agent.enabled
    running,      \* the terminals that have not exited
    pending,      \* [terminal -> _llm_pending]
    cancel,       \* [terminal -> _llm_cancel is set]
    conversation, \* [terminal -> _conversation_history, or _history]
    interactions, \* [terminal -> _interactions]
    count,        \* [terminal -> _interaction_count]
    memory,       \* the exchanges MEMORY.md tells of
    history,      \* [exchange -> the entries of HISTORY.md that tell of it]
    nQueries,     \* number of queries asked
    nCancels,     \* number of Ctrl-C while one was pending
    asker,        \* [query -> the terminal its thread runs in]
    pc,           \* [query -> what its thread does next]
    local,        \* [query -> the thread's locals]
    recorded,     \* history: [terminal -> the exchanges recorded, in order]
    overlapped,   \* history: the terminals where two queries ran at a time
    unlogged,     \* history: exchanges given to a consolidation that failed
    unentered,    \* history: exchanges given to one that had no entry
    atRisk,       \* history: exchanges that two consolidations have hold of
    kept,         \* history: exchanges that MEMORY.md is to tell of
    unseen        \* history: [query -> those written since its thread's read]

session == <<running, pending, cancel, nCancels>>
lists == <<conversation, interactions, count>>
files == <<memory, history>>
threads == <<nQueries, asker, pc, local>>
unsaved == <<unlogged, unentered>>
updates == <<kept, unseen>>
ghosts == <<recorded, overlapped, unsaved, atRisk, updates>>
vars == <<backend, running, pending, cancel, conversation, interactions, count,
          memory, history, nQueries, nCancels, asker, pc, local, recorded,
          overlapped, unlogged, unentered, atRisk, kept, unseen>>

(* slice: a copy of the conversation.  taken: the interactions put in the  *)
(* prompt of a consolidation.  known: what has been read of MEMORY.md.     *)
(* update: save_memory has a memory_update that is not the memory read.    *)
NoLocal == [slice |-> <<>>, taken |-> <<>>, known |-> {}, update |-> FALSE]

Init ==
    /\ backend \in {"agent", "adapter"}
    /\ running = Terminal
    /\ pending = [t \in Terminal |-> FALSE] /\ cancel = pending
    /\ conversation = [t \in Terminal |-> <<>>] /\ interactions = conversation
    /\ count = [t \in Terminal |-> 0]
    /\ memory = {} /\ history = [q \in Query |-> 0]
    /\ nQueries = 0 /\ nCancels = 0
    /\ asker = [q \in Query |-> Nobody]
    /\ pc = [q \in Query |-> "none"]
    /\ local = [q \in Query |-> NoLocal]
    /\ recorded = [t \in Terminal |-> <<>>]
    /\ overlapped = {} /\ unlogged = {} /\ unentered = {} /\ atRisk = {}
    /\ kept = {} /\ unseen = [q \in Query |-> {}]

Busy(t) == {q \in Query : asker[q] = t}
Saves == {"chatting", "logging", "replacing", "writing"}
Saving == {q \in Query : pc[q] \in Saves}
Consolidating(t) == {q \in Busy(t) : pc[q] \in Saves \cup {"clearing"}}
Writing == {q \in Query : pc[q] = "writing"}

At(q, label) == pc[q] = label
Goto(q, label) == /\ pc' = [pc EXCEPT ![q] = label]
                  /\ UNCHANGED <<session, asker, local>>
GotoWith(q, label, l) == /\ pc' = [pc EXCEPT ![q] = label]
                         /\ local' = [local EXCEPT ![q] = l]
                         /\ UNCHANGED <<session, asker>>

(* The thread ends; its answer is what the session waits for, unless the   *)
(* cancel event is set when it looks.                                      *)
End(q) ==
    /\ pc' = [pc EXCEPT ![q] = "ended"]
    /\ local' = [local EXCEPT ![q] = NoLocal]
    /\ asker' = [asker EXCEPT ![q] = Nobody]
    /\ pending' = [pending EXCEPT ![asker[q]] = @ /\ cancel[asker[q]]]
    /\ UNCHANGED <<running, cancel, nCancels>>

-----------------------------------------------------------------------------
(* The session.                                                            *)

Ask(t) ==
    LET q == nQueries + 1 IN
    /\ nQueries < MaxQueries
    /\ Cardinality(UNION {Busy(x) : x \in Terminal}) < MaxAtWork
    /\ t \in running /\ ~pending[t]
    /\ nQueries' = q
    /\ asker' = [asker EXCEPT ![q] = t]
    /\ pc' = [pc EXCEPT ![q] = "asking"]
    /\ pending' = [pending EXCEPT ![t] = TRUE]
    /\ cancel' = [cancel EXCEPT ![t] = FALSE]
    /\ overlapped' = IF Busy(t) = {} THEN overlapped ELSE overlapped \cup {t}
    /\ UNCHANGED <<backend, running, nCancels, lists, files, local, recorded,
                   unsaved, atRisk, updates>>

CtrlC(t) ==
    /\ t \in running /\ pending[t] /\ nCancels < MaxCancels
    /\ nCancels' = nCancels + 1
    /\ pending' = [pending EXCEPT ![t] = FALSE]
    /\ cancel' = [cancel EXCEPT ![t] = TRUE]
    /\ UNCHANGED <<backend, running, lists, files, threads, ghosts>>

(* The process ends and nobody calls AgentService.shutdown.                *)
Exit(t) ==
    /\ t \in running
    /\ running' = running \ {t}
    /\ pending' = [pending EXCEPT ![t] = FALSE]
    /\ cancel' = [cancel EXCEPT ![t] = FALSE]
    /\ conversation' = [conversation EXCEPT ![t] = <<>>]
    /\ interactions' = [interactions EXCEPT ![t] = <<>>]
    /\ count' = [count EXCEPT ![t] = 0]
    /\ pc' = [q \in Query |-> IF q \in Busy(t) THEN "ended" ELSE pc[q]]
    /\ local' = [q \in Query |-> IF q \in Busy(t) THEN NoLocal ELSE local[q]]
    /\ asker' = [q \in Query |-> IF asker[q] = t THEN Nobody ELSE asker[q]]
    /\ recorded' = [recorded EXCEPT ![t] = <<>>]
    /\ overlapped' = overlapped \ {t}
    /\ kept' = IF Busy(t) \cap Writing = {} THEN kept ELSE {}
    /\ unlogged' = unlogged \ Range(recorded[t])
    /\ atRisk' = atRisk \ Range(recorded[t])
    /\ UNCHANGED <<backend, files, nQueries, nCancels, unentered, unseen>>

-----------------------------------------------------------------------------
(* The conversation.                                                       *)

Says(role, q) == [role |-> role, of |-> q]

(* Mutant: pairs are taken for messages.                                   *)
MaxMessagesOfPairs == MaxPairs

MaxMessages == 2 * MaxPairs
LastOf(s, n) == SubSeq(s, Len(s) - n + 1, Len(s))
Trimmed(c) == IF Len(c) > MaxMessages THEN LastOf(c, MaxMessages) ELSE c

(* The LLM fails; a chunk that comes after a Ctrl-C raises                 *)
(* KeyboardInterrupt; or _parse does not take what has come, which the     *)
(* adapter does not record (the agent records the text, or its absence).   *)
(* The retries of the adapter ask the same question again.                 *)
Fails(q) ==
    /\ At(q, "asking")
    /\ End(q)
    /\ UNCHANGED <<backend, lists, files, nQueries, ghosts>>

(* What a thread does when its exchange is in the conversation.            *)
Recorded(q) == IF backend = "agent" THEN Goto(q, "tracking") ELSE End(q)

(* The LLM has answered; the first of two appends.                         *)
RecordUser(q) ==
    /\ At(q, "asking")
    /\ conversation' = [conversation EXCEPT
                           ![asker[q]] = Append(@, Says("user", q))]
    /\ Goto(q, "recording")
    /\ UNCHANGED <<backend, interactions, count, files, nQueries, ghosts>>

(* The second, and then too long a list is sliced by the agent, and given  *)
(* to the compactor by the adapter.                                        *)
RecordAssistant(q) ==
    LET c == Append(conversation[asker[q]], Says("assistant", q)) IN
    /\ At(q, "recording")
    /\ conversation' = [conversation EXCEPT ![asker[q]] = c]
    /\ recorded' = [recorded EXCEPT ![asker[q]] = Append(@, q)]
    /\ IF Len(c) <= MaxMessages THEN Recorded(q)
       ELSE IF backend = "agent"
            THEN GotoWith(q, "trimming", [local[q] EXCEPT !.slice = Trimmed(c)])
            ELSE GotoWith(q, "compacting", [local[q] EXCEPT !.slice = c])
    /\ UNCHANGED <<backend, interactions, count, files, nQueries, overlapped,
                   unsaved, atRisk, updates>>

Trim(q) ==
    /\ At(q, "trimming")
    /\ conversation' = [conversation EXCEPT ![asker[q]] = local[q].slice]
    /\ Recorded(q)
    /\ UNCHANGED <<backend, interactions, count, files, nQueries, ghosts>>

(* SummarizeCompactor.compact (external): an LLM call that returns the list*)
(* itself when it is short enough, or a summary and the latest messages.   *)
Compacted(given, now) ==
    {now, given, <<Summary>> \o LastOf(given, KeepRecent)}

Compact(q) ==
    LET c == conversation[asker[q]] IN
    /\ At(q, "compacting")
    /\ \E result \in Compacted(local[q].slice, c) :
          conversation' = [conversation EXCEPT ![asker[q]] = result]
    /\ End(q)
    /\ UNCHANGED <<backend, interactions, count, files, nQueries, ghosts>>

(* ... and when it raises, the list is sliced, whatever it has become.     *)
CompactFails(q) ==
    LET c == conversation[asker[q]] IN
    /\ At(q, "compacting")
    /\ GotoWith(q, "trimming", [local[q] EXCEPT !.slice = Trimmed(c)])
    /\ UNCHANGED <<backend, lists, files, nQueries, ghosts>>

-----------------------------------------------------------------------------
(* The long-term memory.                                                   *)

CountInteraction(t) == count[t] + 1

(* What a thread has hold of while another consolidates for its terminal.  *)
Risks(t, exchanges) ==
    atRisk' = IF Consolidating(t) = {} THEN atRisk ELSE atRisk \cup exchanges

Track(q) ==
    LET t == asker[q] IN
    /\ At(q, "tracking")
    /\ interactions' = [interactions EXCEPT ![t] = Append(@, q)]
    /\ count' = [count EXCEPT ![t] = CountInteraction(t)]
    /\ Goto(q, "tracked")
    /\ Risks(t, {q})
    /\ UNCHANGED <<backend, conversation, files, nQueries, recorded, overlapped,
                   unsaved, updates>>

Due(t) == EveryN > 0 /\ count[t] % EveryN = 0 /\ interactions[t] # <<>>

(* The interactions are written down and the memory read for the prompt.   *)
Consolidate(q) ==
    LET t == asker[q] IN
    /\ At(q, "tracked")
    /\ IF Due(t)
       THEN /\ GotoWith(q, "chatting", [local[q] EXCEPT
                           !.taken = interactions[t], !.known = memory])
            /\ Risks(t, Range(interactions[t]))
            /\ unseen' = [unseen EXCEPT
                             ![q] = IF Writing = {} THEN {} ELSE kept]
       ELSE End(q) /\ UNCHANGED <<atRisk, unseen>>
    /\ UNCHANGED <<backend, lists, files, nQueries, recorded, overlapped,
                   unsaved, kept>>

(* Mutant: the interactions are cleared in a finally.                      *)
ConsolidateRaisesAndClears(q) ==
    /\ At(q, "tracked") /\ Due(asker[q])
    /\ interactions' = [interactions EXCEPT ![asker[q]] = <<>>]
    /\ End(q)
    /\ UNCHANGED <<backend, conversation, count, files, nQueries, ghosts>>

(* MEMORY.md cannot be read: process catches the exception, and its answer *)
(* with it; nothing is cleared.                                            *)
ConsolidateRaises(q) ==
    /\ At(q, "tracked") /\ Due(asker[q])
    /\ End(q)
    /\ UNCHANGED <<backend, lists, files, nQueries, ghosts>>

(* Mutant: only what is new is written.                                    *)
NewMemory(q) == Range(local[q].taken)

Updated(q) == local[q].known \cup Range(local[q].taken)

Return(q) == GotoWith(q, "clearing", NoLocal)
NotLogged(q) == unlogged' = unlogged \cup Range(local[q].taken)

(* The LLM calls save_memory, or it does not.  The code requires neither   *)
(* argument of the call: without an entry nothing goes to HISTORY.md and   *)
(* the consolidation still succeeds.  A memory is the one it was shown,    *)
(* which is not written, or has the existing facts and the new ones, as the*)
(* schema of the tool asks (memory.py:19, which is given to no LLM).       *)
Reply(q) ==
    /\ At(q, "chatting")
    /\ \/ /\ \E update \in BOOLEAN :
                GotoWith(q, "logging", [local[q] EXCEPT !.update = update])
          /\ UNCHANGED unsaved
       \/ /\ Goto(q, "replacing") \/ Return(q)
          /\ unentered' = unentered \cup Range(local[q].taken)
          /\ UNCHANGED unlogged
       \/ Return(q) /\ NotLogged(q) /\ UNCHANGED unentered
    /\ UNCHANGED <<backend, lists, files, nQueries, recorded, overlapped,
                   atRisk, updates>>

AppendHistory(q) ==
    /\ At(q, "logging")
    /\ history' = [e \in Query |-> IF e \in Range(local[q].taken)
                                   THEN history[e] + 1 ELSE history[e]]
    /\ IF local[q].update THEN Goto(q, "replacing") ELSE Return(q)
    /\ UNCHANGED <<backend, lists, memory, nQueries, ghosts>>

(* write_text opens the file, which empties it, and then writes.           *)
Truncate(q) ==
    /\ At(q, "replacing")
    /\ memory' = {}
    /\ Goto(q, "writing")
    /\ UNCHANGED <<backend, lists, history, nQueries, ghosts>>

Write(q) ==
    /\ At(q, "writing")
    /\ memory' = Updated(q)
    /\ kept' = (kept \ unseen[q]) \cup Range(local[q].taken)
    /\ unseen' = [r \in Query |-> IF r \in Saving \ {q}
                                  THEN unseen[r] \cup Range(local[q].taken)
                                  ELSE {}]
    /\ Return(q)
    /\ UNCHANGED <<backend, lists, history, nQueries, recorded, overlapped,
                   unsaved, atRisk>>

(* A file cannot be written: consolidate returns False.                    *)
SaveFails(q) ==
    /\ pc[q] \in {"logging", "replacing", "writing"}
    /\ IF At(q, "logging") THEN NotLogged(q) ELSE UNCHANGED unlogged
    /\ kept' = IF At(q, "writing") THEN {} ELSE kept
    /\ Return(q)
    /\ UNCHANGED <<backend, lists, files, nQueries, recorded, overlapped,
                   unentered, atRisk, unseen>>

(* Whatever consolidate returns, and whatever the list has become.         *)
Clear(q) ==
    /\ At(q, "clearing")
    /\ interactions' = [interactions EXCEPT ![asker[q]] = <<>>]
    /\ End(q)
    /\ UNCHANGED <<backend, conversation, count, files, nQueries, ghosts>>

Thread(q) ==
    \/ Fails(q) \/ RecordUser(q) \/ RecordAssistant(q) \/ Trim(q)
    \/ Compact(q) \/ CompactFails(q)
    \/ Track(q) \/ Consolidate(q) \/ ConsolidateRaises(q) \/ Reply(q)
    \/ AppendHistory(q) \/ Truncate(q) \/ Write(q) \/ SaveFails(q) \/ Clear(q)

Next == \/ \E t \in Terminal : Ask(t) \/ CtrlC(t) \/ Exit(t)
        \/ \E q \in Query : Thread(q)

Spec == Init /\ [][Next]_vars

-----------------------------------------------------------------------------
(* Properties.                                                             *)

Label == {"none", "asking", "recording", "trimming", "compacting",
          "tracking", "tracked", "chatting", "logging", "replacing",
          "writing", "clearing", "ended"}

(* The types of the lists, the files and the threads' locals.              *)
TypeOK ==
    /\ backend \in {"agent", "adapter"}
    /\ running \subseteq Terminal
    /\ pending \in [Terminal -> BOOLEAN] /\ cancel \in [Terminal -> BOOLEAN]
    /\ conversation \in [Terminal -> Seq(Message \cup {Summary})]
    /\ interactions \in [Terminal -> Seq(Query)]
    /\ count \in [Terminal -> Nat]
    /\ memory \subseteq Query /\ history \in [Query -> Nat]
    /\ nQueries \in 0..MaxQueries /\ nCancels \in 0..MaxCancels
    /\ asker \in [Query -> Terminal \cup {Nobody}]
    /\ pc \in [Query -> Label]
    /\ local \in [Query -> [slice : Seq(Message \cup {Summary}),
                            taken : Seq(Query), known : SUBSET Query,
                            update : BOOLEAN]]
    /\ recorded \in [Terminal -> Seq(Query)]
    /\ overlapped \subseteq Terminal
    /\ unlogged \subseteq Query /\ unentered \subseteq Query
    /\ atRisk \subseteq Query
    /\ kept \subseteq Query /\ unseen \in [Query -> SUBSET Query]

Exchanges(s) ==
    [i \in 1..2 * Len(s) |->
        Says(IF i % 2 = 1 THEN "user" ELSE "assistant", s[(i + 1) \div 2])]
Settled(t) ==
    \A q \in Busy(t) : pc[q] \notin {"recording", "trimming", "compacting"}

(* Unless a cancelled query was still at work when another one began, what *)
(* the LLM is told of the conversation is an alternation of whole          *)
(* exchanges, the latest ones, in order, perhaps behind a summary: all that*)
(* the bound admits for the agent, at least those the compactor keeps for  *)
(* the adapter (forge_llm_adapter.py:107-143, agent_service.py:164-179).   *)
RecentAreRemembered ==
    \A t \in running \ overlapped :
       Settled(t) =>
          \E n \in 0..Len(recorded[t]) :
             LET recent == Exchanges(LastOf(recorded[t], n)) IN
             /\ \/ conversation[t] = recent
                \/ /\ backend = "adapter"
                   /\ conversation[t] = <<Summary>> \o recent
             /\ \/ n = Len(recorded[t])
                \/ backend = "agent" /\ n = MaxPairs
                \/ backend = "adapter" /\ 2 * n >= KeepRecent

Logged == {q \in Query : history[q] > 0}

(* An exchange waits for the consolidation, or is in HISTORY.md, or was    *)
(* given to a consolidation that failed or whose reply had no entry for it;*)
(* it is in HISTORY.md once.  Only an exchange that two threads of the     *)
(* terminal have hold of, one of them consolidating, may be lost or written*)
(* twice; none waits again when it has been written and the threads are    *)
(* done (agent_service.py:181-222, memory.py:122-144).                     *)
KeptUntilSaved ==
    backend = "agent" =>
       \A t \in running : \A q \in Range(recorded[t]) :
          LET waits == q \in Range(interactions[t]) IN
          pc[q] \notin {"trimming", "tracking"} =>
             /\ q \notin atRisk =>
                   /\ waits \/ q \in Logged \cup unlogged \cup unentered
                   /\ history[q] <= 1
             /\ waits /\ Busy(t) = {} => q \notin Logged

(* HISTORY.md tells of all that MEMORY.md tells of but for what the LLM    *)
(* made no entry of; and, when nobody is writing it, MEMORY.md has all its *)
(* updates: only a write by a thread that read it before another's write,  *)
(* or during it, can leave out what that one wrote, and only a write that  *)
(* fails or dies after it has emptied the file can lose the rest           *)
(* (memory.py:64-66, 96-144).                                              *)
LayersAgree ==
    /\ memory \subseteq Logged \cup unentered
    /\ Writing = {} => kept \subseteq memory
=============================================================================
