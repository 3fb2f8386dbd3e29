--------------------------- MODULE NLSessionProofs ---------------------------
(***************************************************************************)
(* The safety of one NL session, for any number of lines and suggestions:  *)
(* types, pending queries that have an answerer, answers handled once and  *)
(* in order, and what the modes and the suggestions never do.              *)
(***************************************************************************)
EXTENDS NLSession, TLAPS

(* A query costs a line, and the buffer holds one that has not become one; *)
(* it does while the main thread is inside intercept().                    *)
LinesPayForQueries ==
    /\ nQueries + (IF buffer = NoLine THEN 0 ELSE 1) <= nLines
    /\ loop = "llm" => buffer # NoLine

(* Queries are numbered in the order of their threads.                     *)
ThreadsAreQueries ==
    /\ \A q \in Query : thread[q] = "none" <=> q > nQueries
    /\ pending => nQueries \in Query

(* A query whose answer is in the queue or has been handled has no thread  *)
(* left, and its answer is in one of the two, once.                        *)
AnsweredOnce ==
    /\ \A i \in 1..Len(results) : thread[results[i][1]] = "finished"
    /\ \A i \in 1..Len(handled) : thread[handled[i]] = "finished"
    /\ \A i, j \in 1..Len(results) : results[i][1] = results[j][1] => i = j
    /\ \A i, j \in 1..Len(handled) : handled[i] = handled[j] => i = j
    /\ \A i \in 1..Len(results), j \in 1..Len(handled) : results[i][1] # handled[j]

(* Without a cancellation only the newest query is at work.                *)
OneAtATime ==
    cancelled = {} =>
        /\ \A i \in 1..Len(handled) : handled[i] = i
        /\ nQueries - Len(handled) = IF pending THEN 1 ELSE 0
        /\ \A q \in Query : q <= Len(handled) => thread[q] = "finished"
        /\ \A i \in 1..Len(results) : pending /\ results[i][1] = nQueries

(* A thread is never given a line that the main thread handles, and so it  *)
(* never answers with a toggle.                                            *)
ThreadsDoNotToggle ==
    /\ \A q \in Query : line[q] \in {"text", "exit", "explain", NoLine}
    /\ \A q \in Query : answer[q] # "TOGGLE"
    /\ \A i \in 1..Len(results) : results[i][2] # "TOGGLE"

IInv == /\ TypeOK /\ LinesPayForQueries /\ ThreadsAreQueries /\ PendingHasAnswerer
        /\ AnsweredOnce /\ OneAtATime /\ ThreadsDoNotToggle

-----------------------------------------------------------------------------
(* What a result handled by the main thread may change.                    *)
LEMMA HandleTypes ==
    ASSUME NEW r \in Result, NEW trigger \in LineKind \cup {"answer"},
           TypeOK, HandleResult(r, trigger)
    PROVE  /\ mode' \in Mode /\ ptyRunning' \in BOOLEAN
           /\ shell' \in {"prompt", "program"}
           /\ pasted' \subseteq {"llm", "agent"}
           /\ ranBy' \in LineKind \cup {NoLine, "enter", "answer", "remote", "newline"}
           /\ r = "TOGGLE" => mode' = OtherMode(mode)
           /\ r # "TOGGLE" => mode' = mode
           /\ r \notin {"TOGGLE", "EXEC_BASH"} => ranBy' \in {ranBy, "newline"}
<1> USE DEF TypeOK
<1>1. CASE r \in {"NOOP", "DISPLAY", "CONFIRM"}
  BY <1>1 DEF HandleResult, terminal
<1>2. CASE r = "SUGGEST"
  <2>1. /\ mode' = mode /\ ptyRunning' = ptyRunning
        /\ Paste("llm") \/ PasteLines("llm")
    BY <1>2 DEF HandleResult, ShowSuggestion
  <2> QED
    BY <1>2, <2>1 DEF Paste, PasteLines
<1>3. CASE r = "EXEC_BASH"
  BY <1>3 DEF HandleResult, RunLine
<1>4. CASE r = "TOGGLE"
  BY <1>4 DEF HandleResult, RunLine, OtherMode, Mode
<1> QED
  BY <1>1, <1>2, <1>3, <1>4 DEF Result

LEMMA ResultTypes ==
    ASSUME NEW l
    PROVE  /\ LocalResult(l) \in Result
           /\ l \notin {"toggle"} => LocalResult(l) # "TOGGLE"
           /\ l = "toggle" => LocalResult(l) = "TOGGLE"
           /\ LLMResults(l) \subseteq Result \ {"TOGGLE"}
BY DEF LocalResult, LLMResults, Result

LEMMA EngineTypes ==
    ASSUME NEW l \in LineKind, NEW e \in Mode
    PROVE  /\ EngineAfter(l, e) \in Mode
           /\ l = "toggle" => EngineAfter(l, e) = OtherMode(e)
           /\ l = "escape" => EngineAfter(l, e) = "NL"
           /\ l \notin {"toggle", "escape"} => EngineAfter(l, e) = e
BY DEF EngineAfter, OtherMode, Mode, LineKind

(* The turns of the main loop that have to do with no query.               *)
Aside == \/ \E l \in LineKind : Type(l)
         \/ EnterLocal \/ EnterBlocks \/ BlockedAnswer
         \/ EnterPassesThrough \/ ClearLine \/ RawKey
         \/ DrainSuggest \/ DrainInput \/ PromptAppears \/ OutputLooksLikePrompt

LEMMA NextIsSplit ==
    Next <=> \/ Aside \/ Dispatch \/ CancelQuery \/ DrainResult
             \/ \E q \in Query : Thread(q)
BY DEF Next, User, Aside

LEMMA AsideLeavesQueries ==
    Aside => UNCHANGED <<llm, threads, history>>
BY DEF Aside, Type, EnterLocal, EnterBlocks, BlockedAnswer, EnterPassesThrough,
       ClearLine, RawKey, DrainSuggest, DrainInput, PromptAppears,
       OutputLooksLikePrompt, llm, threads, history

(* Distinct elements remain distinct when the first is taken.              *)
LEMMA TailIsInjective ==
    ASSUME NEW f, NEW g, NEW n \in Nat, NEW m, m = n - 1,
           \A i \in 1..m : g[i] = f[i + 1] /\ i + 1 \in 1..n,
           \A i, j \in 1..n : f[i][1] = f[j][1] => i = j
    PROVE  \A i, j \in 1..m : g[i][1] = g[j][1] => i = j
<1> SUFFICES ASSUME NEW i \in 1..m, NEW j \in 1..m, g[i][1] = g[j][1]
             PROVE  i = j
  OBVIOUS
<1>1. i + 1 \in 1..n /\ j + 1 \in 1..n /\ f[i + 1][1] = f[j + 1][1]
  OBVIOUS
<1>2. i + 1 = j + 1
  BY <1>1
<1> QED
  BY <1>2

(* What is left of a queue of which the first element is taken.            *)
LEMMA TailElements ==
    ASSUME NEW S, NEW s \in Seq(S), s # <<>>
    PROVE  /\ Tail(s) \in Seq(S)
           /\ Len(s) \in Nat /\ Len(Tail(s)) = Len(s) - 1
           /\ 1 \in 1..Len(s) /\ Head(s) = s[1] /\ s[1] \in S
           /\ \A i \in 1..Len(Tail(s)) : Tail(s)[i] = s[i + 1] /\ i + 1 \in 1..Len(s)
OBVIOUS

-----------------------------------------------------------------------------
LEMMA InitInv == Init => IInv
<1> SUFFICES ASSUME Init PROVE IInv
  OBVIOUS
<1>1. TypeOK
  <2>1. results \in Seq(Query \X Result) /\ handled \in Seq(Query)
    BY DEF Init
  <2>2. /\ nQueries \in 0..MaxLines /\ nLines \in 0..MaxLines
        /\ nSuggests \in 0..MaxSuggests
    BY BoundAssumption DEF Init
  <2>3. /\ thread \in [Query -> {"none", "started", "asking", "answered", "answering",
                                 "finished"}]
        /\ line \in [Query -> LineKind \cup {NoLine}]
        /\ answer \in [Query -> Result]
    BY DEF Init, Result
  <2>4. mode \in Mode /\ engine \in Mode /\ cancelled \subseteq Query
    BY DEF Init
  <2> QED
    BY <2>1, <2>2, <2>3, <2>4 DEF Init, TypeOK
<1>2. LinesPayForQueries /\ ThreadsAreQueries /\ PendingHasAnswerer
  BY BoundAssumption
  DEF Init, LinesPayForQueries, ThreadsAreQueries, PendingHasAnswerer, Query
<1>3. AnsweredOnce
  BY DEF Init, AnsweredOnce
<1>4. OneAtATime
  <2>1. Len(handled) = 0 /\ Len(results) = 0 /\ nQueries = 0 /\ pending = FALSE
    BY DEF Init
  <2> QED
    BY <2>1, BoundAssumption DEF OneAtATime, Query
<1>5. ThreadsDoNotToggle
  BY DEF Init, ThreadsDoNotToggle
<1> QED
  BY <1>1, <1>2, <1>3, <1>4, <1>5 DEF IInv

(* A new query has a number.                                               *)
LEMMA QueryIsNumbered ==
    ASSUME IInv, Dispatch
    PROVE  nQueries + 1 \in Query /\ nQueries \in Nat
BY BoundAssumption DEF IInv, TypeOK, LinesPayForQueries, Dispatch, Query

(* Every step keeps the types.                                             *)
LEMMA TypeStep ==
    ASSUME IInv, Next
    PROVE  TypeOK'
<1> USE BoundAssumption DEF IInv, TypeOK
<1>1. ASSUME NEW l \in LineKind, Type(l) PROVE TypeOK'
  BY <1>1 DEF Type, modes, llm, threads, terminal, history
<1>2. CASE EnterLocal
  <2>1. EngineAfter(buffer, engine) \in Mode /\ LocalResult(buffer) \in Result
    BY <1>2, EngineTypes, ResultTypes DEF EnterLocal
  <2>2. buffer \in LineKind \cup {"answer"}
    BY <1>2 DEF EnterLocal
  <2> QED
    BY <1>2, <2>1, <2>2, HandleTypes DEF EnterLocal, llm, threads, counts, history
<1>3. CASE EnterBlocks
  BY <1>3 DEF EnterBlocks, modes, llm, threads, terminal, counts, history
<1>4. CASE BlockedAnswer
  <2>1. PICK r \in LLMResults(buffer) : HandleResult(r, buffer)
    BY <1>4 DEF BlockedAnswer
  <2>2. r \in Result
    BY ResultTypes
  <2>3. buffer \in LineKind
    BY <1>4 DEF BlockedAnswer, LinesPayForQueries
  <2> QED
    BY <1>4, <2>1, <2>2, <2>3, HandleTypes
    DEF BlockedAnswer, llm, threads, counts, history
<1>5. CASE EnterPassesThrough
  BY <1>5 DEF EnterPassesThrough, RunLine, modes, llm, threads, counts, history
<1>6. CASE ClearLine \/ RawKey \/ DrainInput
  BY <1>6 DEF ClearLine, RawKey, DrainInput, RunLine, Interrupt, modes, llm, threads,
              counts, history
<1>7. CASE DrainSuggest
  <2>1. Paste("agent") \/ PasteLines("agent") \/ UNCHANGED terminal
    BY <1>7 DEF DrainSuggest, ShowSuggestion
  <2>2. /\ shell' \in {"prompt", "program"} /\ pasted' \subseteq {"llm", "agent"}
        /\ ranBy' \in LineKind \cup {NoLine, "enter", "answer", "remote", "newline"}
    BY <2>1 DEF Paste, PasteLines, terminal
  <2> QED
    BY <1>7, <2>2 DEF DrainSuggest, modes, llm, threads, history
<1>8. CASE PromptAppears \/ OutputLooksLikePrompt
  BY <1>8 DEF PromptAppears, OutputLooksLikePrompt, modes, llm, threads, terminal, counts,
              history
<1>9. CASE Dispatch
  <2>1. /\ nQueries' \in 0..MaxLines
        /\ thread' \in [Query -> {"none", "started", "asking", "answered", "answering",
                                  "finished"}]
        /\ line' \in [Query -> LineKind \cup {NoLine}]
    BY <1>9, QueryIsNumbered DEF Dispatch, Query
  <2>2. /\ pending' = TRUE /\ cancel' = FALSE /\ buffer' = NoLine
        /\ UNCHANGED <<modes, ptyRunning, results, loop, answer, terminal, counts, history>>
    BY <1>9 DEF Dispatch, ResetCancel
  <2> QED
    BY <2>1, <2>2 DEF modes, terminal, counts, history
<1>10. CASE CancelQuery
  <2>1. results' \in Seq(Query \X Result)
    <3>1. CASE results = <<>>
      BY <1>10, <3>1 DEF CancelQuery
    <3>2. CASE results # <<>>
      <4>1. results' = Tail(results)
        BY <1>10, <3>2 DEF CancelQuery, TakeResult
      <4> QED
        BY <3>2, <4>1, TailElements
    <3> QED
      BY <3>1, <3>2
  <2>2. cancelled' \subseteq Query
    BY <1>10 DEF CancelQuery, ThreadsAreQueries
  <2> QED
    BY <1>10, <2>1, <2>2 DEF CancelQuery, modes, threads, terminal, counts
<1>11. CASE DrainResult
  <2>1. Head(results) \in Query \X Result /\ Tail(results) \in Seq(Query \X Result)
    BY <1>11 DEF DrainResult
  <2> QED
    <3>1. Head(results)[1] \in Query /\ Head(results)[2] \in Result
      BY <2>1
    <3>2. handled' \in Seq(Query) /\ results' \in Seq(Query \X Result)
      BY <1>11, <2>1, <3>1 DEF DrainResult, TakeResult
    <3>3. HandleResult(Head(results)[2], "answer")
      BY <1>11 DEF DrainResult
    <3>4. /\ mode' \in Mode /\ ptyRunning' \in BOOLEAN
          /\ shell' \in {"prompt", "program"} /\ pasted' \subseteq {"llm", "agent"}
          /\ ranBy' \in LineKind \cup {NoLine, "enter", "answer", "remote", "newline"}
      BY <3>1, <3>3, HandleTypes
    <3> QED
      BY <1>11, <3>2, <3>4 DEF DrainResult, threads, counts
<1>12. ASSUME NEW q \in Query, Thread(q) PROVE TypeOK'
  <2>1. CASE ThreadReadsMode(q)
    BY <2>1, ResultTypes DEF ThreadReadsMode, Moves, modes, llm, terminal, counts, history
  <2>2. CASE ThreadIsAnswered(q)
    BY <2>2, ResultTypes DEF ThreadIsAnswered, Moves, modes, llm, terminal, counts, history
  <2>3. CASE ThreadInterrupted(q)
    BY <2>3 DEF ThreadInterrupted, Ends, Result, modes, llm, terminal, counts, history
  <2>4. CASE ThreadChecksCancel(q)
    BY <2>4 DEF ThreadChecksCancel, Ends, Moves, Result, modes, llm, terminal, counts,
                history
  <2>5. CASE ThreadPuts(q)
    BY <2>5 DEF ThreadPuts, Ends, Result, modes, terminal, counts, history
  <2> QED
    BY <1>12, <2>1, <2>2, <2>3, <2>4, <2>5 DEF Thread
<1> QED
  BY <1>1, <1>2, <1>3, <1>4, <1>5, <1>6, <1>7, <1>8, <1>9, <1>10, <1>11, <1>12
  DEF Next, User

-----------------------------------------------------------------------------
(* What a step of a thread does to the threads and to the queue: it moves  *)
(* on, it ends silent, or it ends with its answer put.                     *)
LEMMA ThreadMoves ==
    ASSUME IInv, NEW q \in Query, Thread(q)
    PROVE  /\ UNCHANGED <<mode, engine, buffer, loop, nQueries, nLines, handled, cancelled,
                          pending, cancel, ranBy>>
           /\ thread[q] \in {"started", "asking", "answered", "answering"}
           /\ \/ /\ UNCHANGED results
                 /\ \E t \in {"asking", "answered", "answering"} :
                       thread' = [thread EXCEPT ![q] = t]
              \/ /\ UNCHANGED results
                 /\ cancel
                 /\ thread' = [thread EXCEPT ![q] = "finished"]
              \/ /\ results' = Append(results, <<q, answer[q]>>)
                 /\ thread' = [thread EXCEPT ![q] = "finished"]
<1>1. CASE ThreadReadsMode(q)
  BY <1>1 DEF ThreadReadsMode, Moves, modes, llm, terminal, counts, history
<1>2. CASE ThreadIsAnswered(q)
  BY <1>2 DEF ThreadIsAnswered, Moves, modes, llm, terminal, counts, history
<1>3. CASE ThreadInterrupted(q)
  BY <1>3 DEF ThreadInterrupted, Silenced, Ends, modes, llm, terminal, counts, history
<1>4. CASE ThreadChecksCancel(q)
  BY <1>4 DEF ThreadChecksCancel, Silenced, Ends, Moves, modes, llm, terminal, counts,
              history
<1>5. CASE ThreadPuts(q)
  BY <1>5 DEF ThreadPuts, Ends, modes, terminal, counts, history
<1> QED
  BY <1>1, <1>2, <1>3, <1>4, <1>5 DEF Thread

LEMMA LinesStep ==
    ASSUME IInv, Next
    PROVE  LinesPayForQueries'
<1> USE BoundAssumption DEF IInv, TypeOK, LinesPayForQueries
<1>1. ASSUME NEW l \in LineKind, Type(l) PROVE LinesPayForQueries'
  BY <1>1 DEF Type, NLInput, threads
<1>2. CASE EnterLocal \/ EnterBlocks \/ BlockedAnswer \/ EnterPassesThrough
  BY <1>2 DEF EnterLocal, EnterBlocks, BlockedAnswer, EnterPassesThrough, NLInput, threads,
              counts
<1>3. CASE ClearLine \/ RawKey
  BY <1>3 DEF ClearLine, RawKey, NLInput, threads, counts
<1>7. CASE DrainSuggest \/ DrainInput \/ PromptAppears \/ OutputLooksLikePrompt
  BY <1>7 DEF DrainSuggest, DrainInput, PromptAppears, OutputLooksLikePrompt, threads,
              counts
<1>4. CASE Dispatch
  BY <1>4 DEF Dispatch, NLInput, counts
<1>5. CASE CancelQuery \/ DrainResult
  BY <1>5 DEF CancelQuery, DrainResult, threads, counts
<1>6. ASSUME NEW q \in Query, Thread(q) PROVE LinesPayForQueries'
  BY <1>6, ThreadMoves
<1> QED
  BY <1>1, <1>2, <1>3, <1>4, <1>5, <1>6, <1>7 DEF Next, User

LEMMA ThreadsStep ==
    ASSUME IInv, Next
    PROVE  ThreadsAreQueries' /\ PendingHasAnswerer'
<1> USE DEF ThreadsAreQueries, PendingHasAnswerer
<1>0. ThreadsAreQueries /\ PendingHasAnswerer /\ TypeOK
  BY DEF IInv
<1>1. CASE Aside
  BY <1>0, <1>1, AsideLeavesQueries DEF llm, threads
<1>2. CASE Dispatch
  <2>1. nQueries + 1 \in Query /\ nQueries \in Nat /\ nQueries' = nQueries + 1
    BY <1>2, QueryIsNumbered DEF Dispatch
  <2>2. \A q \in Query : thread'[q] = IF q = nQueries + 1 THEN "started" ELSE thread[q]
    BY <1>0, <1>2 DEF Dispatch, TypeOK
  <2>3. cancel' = FALSE
    BY <1>2 DEF Dispatch, ResetCancel
  <2>4. \A q \in Query : q \in Nat
    BY DEF Query
  <2> QED
    BY <1>0, <2>1, <2>2, <2>3, <2>4
<1>3. CASE CancelQuery
  BY <1>0, <1>3 DEF CancelQuery, threads
<1>4. CASE DrainResult
  BY <1>0, <1>4 DEF DrainResult, threads
<1>5. ASSUME NEW q \in Query, Thread(q)
      PROVE  ThreadsAreQueries' /\ PendingHasAnswerer'
  <2>1. ThreadsAreQueries'
    BY <1>0, <1>5, ThreadMoves DEF TypeOK
  <2>2. PendingHasAnswerer'
    <3>1. CASE results # <<>> \/ ~pending
      <4>1. results' = results \/ results' = Append(results, <<q, answer[q]>>)
        BY <1>5, ThreadMoves
      <4>2. results # <<>> => results' # <<>>
        BY <1>0, <4>1 DEF TypeOK
      <4> QED
        BY <1>5, <3>1, <4>2, ThreadMoves
    <3>2. CASE results = <<>> /\ q # nQueries
      <4>1. thread'[nQueries] = thread[nQueries] \/ nQueries \notin Query
        BY <1>0, <1>5, <3>2, ThreadMoves DEF TypeOK
      <4> QED
        BY <1>0, <1>5, <3>2, <4>1, ThreadMoves
    <3>3. CASE results = <<>> /\ q = nQueries /\ pending
      <4>1. ~cancel
        BY <1>0, <3>3
      <4>2. \/ results' = Append(results, <<q, answer[q]>>)
            \/ thread'[q] \in {"asking", "answered", "answering"}
        BY <1>0, <1>5, <4>1, ThreadMoves DEF TypeOK
      <4>3. results' = Append(results, <<q, answer[q]>>) => results' # <<>>
        BY <1>0 DEF TypeOK
      <4> QED
        BY <1>0, <1>5, <3>3, <4>1, <4>2, <4>3, ThreadMoves
    <3> QED
      BY <1>0, <3>1, <3>2, <3>3 DEF TypeOK
  <2> QED
    BY <2>1, <2>2
<1> QED
  BY <1>1, <1>2, <1>3, <1>4, <1>5, NextIsSplit

LEMMA OnceStep ==
    ASSUME IInv, Next
    PROVE  AnsweredOnce'
<1>0. AnsweredOnce /\ TypeOK /\ ThreadsAreQueries
  BY DEF IInv
<1>1. CASE Aside
  BY <1>0, <1>1, AsideLeavesQueries DEF llm, threads, history, AnsweredOnce
<1>2. CASE Dispatch
  <2>1. nQueries + 1 \in Query /\ nQueries \in Nat
    BY <1>2, QueryIsNumbered
  <2>2. thread[nQueries + 1] = "none"
    BY <1>0, <2>1 DEF ThreadsAreQueries
  <2>3. \A q \in Query : thread[q] = "finished" => thread'[q] = "finished"
    BY <1>0, <1>2, <2>1, <2>2 DEF Dispatch, TypeOK
  <2>4. /\ \A i \in 1..Len(results) : results[i][1] \in Query
        /\ \A i \in 1..Len(handled) : handled[i] \in Query
    BY <1>0 DEF TypeOK
  <2> QED
    BY <1>0, <1>2, <2>3, <2>4 DEF Dispatch, AnsweredOnce, history
<1>3. CASE CancelQuery
  <2>1. CASE results = <<>>
    BY <1>0, <1>3, <2>1 DEF CancelQuery, AnsweredOnce, threads
  <2>2. CASE results # <<>>
    <3>1. /\ Len(results') = Len(results) - 1 /\ Len(results) \in Nat
          /\ \A i \in 1..Len(results') : results'[i] = results[i + 1] /\ i + 1 \in 1..Len(results)
      <4>1. results' = Tail(results)
        BY <1>3, <2>2 DEF CancelQuery, TakeResult
      <4> QED
        BY <1>0, <2>2, <4>1, TailElements DEF TypeOK
    <3>2. thread' = thread /\ handled' = handled
      BY <1>3 DEF CancelQuery, threads
    <3>3. /\ \A i \in 1..Len(results') : thread'[results'[i][1]] = "finished"
          /\ \A i, j \in 1..Len(results') : results'[i][1] = results'[j][1] => i = j
      <4>1. \A i, j \in 1..Len(results) : results[i][1] = results[j][1] => i = j
        BY <1>0 DEF AnsweredOnce
      <4>2. \A i, j \in 1..Len(results') : results'[i][1] = results'[j][1] => i = j
        BY <3>1, <4>1, TailIsInjective
      <4>3. \A i \in 1..Len(results) : thread[results[i][1]] = "finished"
        BY <1>0 DEF AnsweredOnce
      <4>4. \A i \in 1..Len(results') : thread'[results'[i][1]] = "finished"
        BY <3>1, <3>2, <4>3
      <4> QED
        BY <4>2, <4>4
    <3>4. \A i \in 1..Len(results'), j \in 1..Len(handled') : results'[i][1] # handled'[j]
      <4>1. \A i \in 1..Len(results), j \in 1..Len(handled) : results[i][1] # handled[j]
        BY <1>0 DEF AnsweredOnce
      <4> QED
        BY <3>1, <3>2, <4>1
    <3> QED
      BY <1>0, <3>2, <3>3, <3>4 DEF AnsweredOnce
  <2> QED
    BY <2>1, <2>2
<1>4. CASE DrainResult
  <2>1. /\ Len(results') = Len(results) - 1 /\ Len(results) \in Nat
        /\ \A i \in 1..Len(results') : results'[i] = results[i + 1] /\ i + 1 \in 1..Len(results)
    <3>1. results # <<>> /\ results' = Tail(results)
      BY <1>4 DEF DrainResult, TakeResult
    <3>2. results \in Seq(Query \X Result)
      BY <1>0 DEF TypeOK
    <3> QED
      BY <3>1, <3>2, TailElements
  <2>2. /\ Len(handled') = Len(handled) + 1 /\ Len(handled) \in Nat
        /\ \A i \in 1..Len(handled) : handled'[i] = handled[i]
        /\ handled'[Len(handled) + 1] = results[1][1] /\ 1 \in 1..Len(results)
    <3>1. /\ results # <<>> /\ results \in Seq(Query \X Result) /\ handled \in Seq(Query)
          /\ handled' = Append(handled, Head(results)[1])
      BY <1>0, <1>4 DEF DrainResult, TypeOK
    <3>2. Head(results) = results[1] /\ 1 \in 1..Len(results)
      BY <3>1, TailElements
    <3> QED
      BY <3>1, <3>2
  <2>3. thread' = thread
    BY <1>4 DEF DrainResult, threads
  <2>4. /\ \A i \in 1..Len(handled') : thread'[handled'[i]] = "finished"
        /\ \A i, j \in 1..Len(handled') : handled'[i] = handled'[j] => i = j
    <3>1. \A i \in 1..Len(handled') : i \in 1..Len(handled) \/ i = Len(handled) + 1
      BY <2>2
    <3>2. /\ \A i \in 1..Len(results) : thread[results[i][1]] = "finished"
          /\ \A i \in 1..Len(handled) : thread[handled[i]] = "finished"
      BY <1>0 DEF AnsweredOnce
    <3>3. \A i, j \in 1..Len(handled) : handled[i] = handled[j] => i = j
      BY <1>0 DEF AnsweredOnce
    <3>4. \A j \in 1..Len(handled) : results[1][1] # handled[j]
      BY <1>0, <2>2 DEF AnsweredOnce
    <3>5. \A i \in 1..Len(handled') : thread'[handled'[i]] = "finished"
      BY <2>2, <2>3, <3>1, <3>2
    <3>6. \A i, j \in 1..Len(handled') : handled'[i] = handled'[j] => i = j
      BY <2>2, <3>1, <3>3, <3>4
    <3> QED
      BY <3>5, <3>6
  <2>5. /\ \A i \in 1..Len(results') : thread'[results'[i][1]] = "finished"
        /\ \A i, j \in 1..Len(results') : results'[i][1] = results'[j][1] => i = j
    <3>1. \A i, j \in 1..Len(results) : results[i][1] = results[j][1] => i = j
      BY <1>0 DEF AnsweredOnce
    <3>2. \A i, j \in 1..Len(results') : results'[i][1] = results'[j][1] => i = j
      BY <2>1, <3>1, TailIsInjective
    <3>3. \A i \in 1..Len(results) : thread[results[i][1]] = "finished"
      BY <1>0 DEF AnsweredOnce
    <3>4. \A i \in 1..Len(results') : thread'[results'[i][1]] = "finished"
      BY <2>1, <2>3, <3>3
    <3> QED
      BY <3>2, <3>4
  <2>6. \A i \in 1..Len(results'), j \in 1..Len(handled') : results'[i][1] # handled'[j]
    <3> SUFFICES ASSUME NEW i \in 1..Len(results'), NEW j \in 1..Len(handled')
                 PROVE  results'[i][1] # handled'[j]
      OBVIOUS
    <3>1. CASE j \in 1..Len(handled)
      BY <1>0, <2>1, <2>2, <3>1 DEF AnsweredOnce
    <3>2. CASE j = Len(handled) + 1
      <4>1. i + 1 \in 1..Len(results) /\ i + 1 # 1 /\ results'[i][1] = results[i + 1][1]
        BY <2>1
      <4> QED
        BY <1>0, <2>2, <3>2, <4>1 DEF AnsweredOnce
    <3> QED
      BY <2>2, <3>1, <3>2
  <2> QED
    BY <2>4, <2>5, <2>6 DEF AnsweredOnce
<1>5. ASSUME NEW q \in Query, Thread(q) PROVE AnsweredOnce'
  <2>1. handled' = handled /\ thread[q] # "finished"
    BY <1>5, ThreadMoves
  <2>2. \A p \in Query : thread[p] = "finished" => thread'[p] = "finished" /\ p # q
    BY <1>0, <1>5, ThreadMoves DEF TypeOK
  <2>3. /\ \A i \in 1..Len(results) : results[i][1] \in Query
        /\ \A i \in 1..Len(handled) : handled[i] \in Query
    BY <1>0 DEF TypeOK
  <2>4. CASE results' = results
    BY <1>0, <2>1, <2>2, <2>3, <2>4 DEF AnsweredOnce
  <2>5. CASE results' = Append(results, <<q, answer[q]>>) /\ thread' = [thread EXCEPT ![q] = "finished"]
    <3>1. /\ Len(results') = Len(results) + 1 /\ Len(results) \in Nat
          /\ \A i \in 1..Len(results) : results'[i] = results[i]
          /\ results'[Len(results) + 1][1] = q
      BY <1>0, <2>5 DEF TypeOK
    <3>2. thread'[q] = "finished"
      BY <1>0, <2>5 DEF TypeOK
    <3>3. \A i \in 1..Len(results') : i \in 1..Len(results) \/ i = Len(results) + 1
      BY <3>1
    <3>4. \A i \in 1..Len(results) : results[i][1] # q
      BY <1>0, <2>2, <2>3 DEF AnsweredOnce
    <3>5. \A i \in 1..Len(handled) : handled[i] # q
      BY <1>0, <2>2, <2>3 DEF AnsweredOnce
    <3>6. \A i \in 1..Len(results') : thread'[results'[i][1]] = "finished"
      BY <1>0, <2>2, <2>3, <3>1, <3>2, <3>3 DEF AnsweredOnce
    <3>7. \A i, j \in 1..Len(results') : results'[i][1] = results'[j][1] => i = j
      BY <1>0, <3>1, <3>3, <3>4 DEF AnsweredOnce
    <3>8. \A i \in 1..Len(results'), j \in 1..Len(handled') : results'[i][1] # handled'[j]
      BY <1>0, <2>1, <3>1, <3>3, <3>5 DEF AnsweredOnce
    <3>9. /\ \A i \in 1..Len(handled') : thread'[handled'[i]] = "finished"
          /\ \A i, j \in 1..Len(handled') : handled'[i] = handled'[j] => i = j
      BY <1>0, <2>1, <2>2, <2>3 DEF AnsweredOnce
    <3> QED
      BY <3>6, <3>7, <3>8, <3>9 DEF AnsweredOnce
  <2> QED
    BY <1>5, <2>4, <2>5, ThreadMoves
<1> QED
  BY <1>1, <1>2, <1>3, <1>4, <1>5, NextIsSplit

LEMMA OneStep ==
    ASSUME IInv, Next
    PROVE  OneAtATime'
<1>0. OneAtATime /\ AnsweredOnce /\ ThreadsAreQueries /\ TypeOK
  BY DEF IInv
<1>1. CASE Aside
  BY <1>0, <1>1, AsideLeavesQueries DEF llm, threads, history, OneAtATime
<1>2. CASE Dispatch
  <2> SUFFICES ASSUME cancelled = {} PROVE OneAtATime'
    BY <1>2 DEF OneAtATime, Dispatch, history
  <2>1. nQueries + 1 \in Query /\ nQueries \in Nat
    BY <1>2, QueryIsNumbered
  <2>2. pending = FALSE /\ pending' = TRUE /\ nQueries' = nQueries + 1
    BY <1>0, <1>2 DEF Dispatch, Idle, TypeOK
  <2>3. results' = results /\ handled' = handled
    BY <1>2 DEF Dispatch, history
  <2>4. \A i \in 1..Len(results) : FALSE
    BY <1>0, <2>2 DEF OneAtATime
  <2>5. nQueries = Len(handled) /\ Len(handled) \in Nat
    BY <1>0, <2>1, <2>2 DEF OneAtATime, TypeOK
  <2>6. \A q \in Query : q <= Len(handled) => thread'[q] = "finished"
    <3> SUFFICES ASSUME NEW q \in Query, q <= Len(handled) PROVE thread'[q] = "finished"
      OBVIOUS
    <3>1. thread[q] = "finished" /\ q # nQueries + 1
      BY <1>0, <2>5 DEF OneAtATime, Query
    <3> QED
      BY <1>0, <1>2, <3>1 DEF Dispatch, TypeOK
  <2>7. \A i \in 1..Len(handled) : handled[i] = i
    BY <1>0 DEF OneAtATime
  <2> QED
    BY <2>2, <2>3, <2>4, <2>5, <2>6, <2>7 DEF OneAtATime
<1>3. CASE CancelQuery
  BY <1>3 DEF CancelQuery, OneAtATime
<1>4. CASE DrainResult
  <2> SUFFICES ASSUME cancelled = {} PROVE OneAtATime'
    BY <1>4 DEF OneAtATime, DrainResult
  <2>1. /\ pending = TRUE /\ pending' = FALSE /\ results # <<>> /\ results' = Tail(results)
        /\ nQueries' = nQueries /\ thread' = thread
    BY <1>0, <1>4 DEF DrainResult, TakeResult, threads, TypeOK
  <2>2. /\ Len(handled') = Len(handled) + 1 /\ Len(handled) \in Nat
        /\ \A i \in 1..Len(handled) : handled'[i] = handled[i]
        /\ handled'[Len(handled) + 1] = results[1][1]
    BY <1>0, <1>4, TailElements DEF DrainResult, TypeOK
  <2>3. /\ Len(results) \in Nat /\ Len(results') = Len(results) - 1 /\ 1 \in 1..Len(results)
    BY <1>0, <2>1, TailElements DEF TypeOK
  <2>4. \A i \in 1..Len(results) : results[i][1] = nQueries
    BY <1>0 DEF OneAtATime
  <2>5. Len(results') = 0
    BY <1>0, <2>3, <2>4 DEF AnsweredOnce
  <2>6. nQueries = Len(handled) + 1
    BY <1>0, <2>1, <2>2 DEF OneAtATime, TypeOK
  <2>7. thread[nQueries] = "finished"
    BY <1>0, <2>3, <2>4 DEF AnsweredOnce
  <2>8. \A q \in Query : q <= Len(handled') => thread'[q] = "finished"
    <3> SUFFICES ASSUME NEW q \in Query, q <= Len(handled') PROVE thread[q] = "finished"
      BY <2>1
    <3>1. q <= Len(handled) \/ q = nQueries
      BY <2>2, <2>6 DEF Query
    <3> QED
      BY <1>0, <2>7, <3>1 DEF OneAtATime
  <2>9. \A i \in 1..Len(handled') : handled'[i] = i
    <3> SUFFICES ASSUME NEW i \in 1..Len(handled') PROVE handled'[i] = i
      OBVIOUS
    <3>1. CASE i \in 1..Len(handled)
      BY <1>0, <2>2, <3>1 DEF OneAtATime
    <3>2. CASE i = Len(handled) + 1
      BY <2>2, <2>3, <2>4, <2>6, <3>2
    <3> QED
      BY <2>2, <3>1, <3>2
  <2>10. nQueries' - Len(handled') = 0
    BY <2>1, <2>2, <2>6
  <2>11. \A i \in 1..Len(results') : FALSE
    BY <2>5
  <2> QED
    BY <2>1, <2>8, <2>9, <2>10, <2>11 DEF OneAtATime
<1>5. ASSUME NEW q \in Query, Thread(q) PROVE OneAtATime'
  <2> SUFFICES ASSUME cancelled = {} PROVE OneAtATime'
    BY <1>5, ThreadMoves DEF OneAtATime
  <2>1. /\ nQueries' = nQueries /\ handled' = handled /\ pending' = pending
        /\ thread[q] \notin {"none", "finished"}
    BY <1>5, ThreadMoves
  <2>2. \A p \in Query : p <= Len(handled) => thread'[p] = "finished"
    <3> SUFFICES ASSUME NEW p \in Query, p <= Len(handled) PROVE thread'[p] = "finished"
      OBVIOUS
    <3>1. thread[p] = "finished"
      BY <1>0 DEF OneAtATime
    <3>2. p # q
      BY <2>1, <3>1
    <3> QED
      BY <1>0, <1>5, <3>1, <3>2, ThreadMoves DEF TypeOK
  <2>3. pending = TRUE /\ q = nQueries
    <3>1. q <= nQueries /\ ~(q <= Len(handled))
      BY <1>0, <2>1 DEF ThreadsAreQueries, OneAtATime, TypeOK, Query
    <3>2. nQueries \in Nat /\ Len(handled) \in Nat /\ q \in Nat
      BY <1>0 DEF TypeOK, Query
    <3>3. pending \in BOOLEAN /\ nQueries - Len(handled) = IF pending THEN 1 ELSE 0
      BY <1>0 DEF TypeOK, OneAtATime
    <3> QED
      BY <3>1, <3>2, <3>3
  <2>4. \A i \in 1..Len(results') : results'[i][1] = nQueries
    <3>1. \A i \in 1..Len(results) : results[i][1] = nQueries
      BY <1>0 DEF OneAtATime
    <3>2. CASE results' = results
      BY <3>1, <3>2
    <3>3. CASE results' = Append(results, <<q, answer[q]>>)
      BY <1>0, <2>3, <3>1, <3>3 DEF TypeOK
    <3> QED
      BY <1>5, <3>2, <3>3, ThreadMoves
  <2>5. /\ \A i \in 1..Len(handled) : handled[i] = i
        /\ nQueries - Len(handled) = 1
    BY <1>0, <2>3 DEF OneAtATime
  <2> QED
    BY <2>1, <2>2, <2>3, <2>4, <2>5 DEF OneAtATime
<1> QED
  BY <1>1, <1>2, <1>3, <1>4, <1>5, NextIsSplit

LEMMA ToggleStep ==
    ASSUME IInv, Next
    PROVE  ThreadsDoNotToggle'
<1>0. ThreadsDoNotToggle /\ TypeOK
  BY DEF IInv
<1>1. CASE Aside
  BY <1>0, <1>1, AsideLeavesQueries DEF llm, threads, ThreadsDoNotToggle
<1>2. CASE Dispatch
  <2>1. buffer \in {"text", "exit", "explain"}
    BY <1>0, <1>2 DEF Dispatch, IsLocal, TypeOK, LineKind
  <2>2. \A q \in Query : line'[q] \in {line[q], buffer}
    BY <1>0, <1>2 DEF Dispatch, TypeOK
  <2>3. answer' = answer /\ results' = results
    BY <1>2 DEF Dispatch
  <2> QED
    BY <1>0, <2>1, <2>2, <2>3 DEF ThreadsDoNotToggle
<1>3. CASE CancelQuery \/ DrainResult
  <2>1. line' = line /\ answer' = answer
    BY <1>3 DEF CancelQuery, DrainResult, threads
  <2>2. results' = results \/ (results # <<>> /\ results' = Tail(results))
    BY <1>3 DEF CancelQuery, DrainResult, TakeResult
  <2>3. \A i \in 1..Len(results') : results'[i][2] # "TOGGLE"
    <3>1. CASE results' = results
      BY <1>0, <3>1 DEF ThreadsDoNotToggle
    <3>2. CASE results # <<>> /\ results' = Tail(results)
      BY <1>0, <3>2, TailElements DEF ThreadsDoNotToggle, TypeOK
    <3> QED
      BY <2>2, <3>1, <3>2
  <2> QED
    BY <1>0, <2>1, <2>3 DEF ThreadsDoNotToggle
<1>4. ASSUME NEW q \in Query, Thread(q) PROVE ThreadsDoNotToggle'
  <2>1. \A p \in Query : line'[p] \in {line[p], NoLine}
    BY <1>0, <1>4
    DEF Thread, ThreadReadsMode, ThreadIsAnswered, ThreadInterrupted, ThreadChecksCancel,
        ThreadPuts, Ends, Moves, TypeOK
  <2>2. \A p \in Query : answer'[p] \in {answer[p], LocalResult(line[p]), "NOOP"}
                                          \cup LLMResults(line[p])
    BY <1>0, <1>4
    DEF Thread, ThreadReadsMode, ThreadIsAnswered, ThreadInterrupted, ThreadChecksCancel,
        ThreadPuts, Ends, Moves, TypeOK
  <2>3. \A p \in Query : answer'[p] # "TOGGLE"
    BY <1>0, <2>2, ResultTypes DEF ThreadsDoNotToggle, NoLine
  <2>4. \A i \in 1..Len(results') : results'[i][2] # "TOGGLE"
    <3>1. CASE results' = results
      BY <1>0, <3>1 DEF ThreadsDoNotToggle
    <3>2. CASE results' = Append(results, <<q, answer[q]>>)
      BY <1>0, <3>2 DEF ThreadsDoNotToggle, TypeOK
    <3> QED
      BY <1>4, <3>1, <3>2, ThreadMoves
  <2> QED
    BY <1>0, <2>1, <2>3, <2>4 DEF ThreadsDoNotToggle
<1> QED
  BY <1>1, <1>2, <1>3, <1>4, NextIsSplit

-----------------------------------------------------------------------------
THEOREM Invariance == Spec => []IInv
<1>1. IInv /\ UNCHANGED vars => IInv'
  BY DEF IInv, vars, TypeOK, LinesPayForQueries, ThreadsAreQueries, PendingHasAnswerer,
         AnsweredOnce, OneAtATime, ThreadsDoNotToggle
<1>2. IInv /\ [Next]_vars => IInv'
  BY <1>1, TypeStep, LinesStep, ThreadsStep, OnceStep, OneStep, ToggleStep DEF IInv
<1> QED
  BY InitInv, <1>2, PTL DEF Spec

(* The session's variables keep their types, for any number of lines.      *)
THEOREM TypeCorrect == Spec => []TypeOK
BY Invariance, PTL DEF IInv

(* A session that says it is thinking has an answer in the queue or a      *)
(* thread that will not be silenced (terminal_session.py:389-436).         *)
THEOREM PendingIsAnswered == Spec => []PendingHasAnswerer
BY Invariance, PTL DEF IInv

(* No query is answered twice, and without Ctrl-C the answers are handled  *)
(* in the order of the queries (terminal_session.py:671-677).              *)
THEOREM AnsweredInOrder == Spec => []AnswersInOrder
<1>1. IInv => AnswersInOrder
  BY DEF IInv, AnsweredOnce, OneAtATime, AnswersInOrder
<1> QED
  BY <1>1, Invariance, PTL

(* A step that turns the two copies of the mode apart, or together again.  *)
LEMMA ModesStep ==
    ASSUME IInv, Next, (mode = engine) # (mode' = engine')
    PROVE  buffer = "escape" /\ engine' = "NL"
<1>0. TypeOK /\ ThreadsDoNotToggle /\ LinesPayForQueries
  BY DEF IInv
<1>1. CASE EnterLocal
  <2>1. /\ buffer \in LineKind /\ engine \in Mode /\ mode \in Mode
        /\ engine' = EngineAfter(buffer, engine)
        /\ HandleResult(LocalResult(buffer), buffer)
    BY <1>0, <1>1 DEF EnterLocal, TypeOK
  <2>2. /\ LocalResult(buffer) = "TOGGLE" => mode' = OtherMode(mode)
        /\ LocalResult(buffer) # "TOGGLE" => mode' = mode
    BY <1>0, <2>1, HandleTypes, ResultTypes
  <2>3. CASE buffer = "toggle"
    <3>1. engine' = OtherMode(engine) /\ mode' = OtherMode(mode)
      BY <2>1, <2>2, <2>3, EngineTypes, ResultTypes
    <3>2. (mode = engine) <=> (mode' = engine')
      BY <2>1, <3>1 DEF OtherMode, Mode
    <3> QED
      BY <3>2
  <2>4. CASE buffer = "escape"
    BY <2>1, <2>4, EngineTypes
  <2>5. CASE buffer \notin {"toggle", "escape"}
    <3>1. engine' = engine /\ mode' = mode
      BY <2>1, <2>2, <2>5, EngineTypes, ResultTypes
    <3> QED
      BY <3>1
  <2> QED
    BY <2>3, <2>4, <2>5
<1>2. CASE BlockedAnswer
  <2>1. PICK r \in LLMResults(buffer) : HandleResult(r, buffer)
    BY <1>2 DEF BlockedAnswer
  <2>2. r \in Result /\ r # "TOGGLE" /\ buffer \in LineKind
    BY <1>0, <1>2, ResultTypes DEF BlockedAnswer, LinesPayForQueries, TypeOK
  <2>3. mode' = mode /\ engine' = engine
    BY <1>0, <1>2, <2>1, <2>2, HandleTypes DEF BlockedAnswer
  <2> QED
    BY <2>3
<1>3. CASE DrainResult
  <2>1. mode' = mode /\ engine' = engine
    <3>1. Head(results)[2] \in Result /\ Head(results)[2] # "TOGGLE"
      BY <1>0, <1>3, TailElements DEF DrainResult, ThreadsDoNotToggle, TypeOK
    <3> QED
      BY <1>0, <1>3, <3>1, HandleTypes DEF DrainResult
  <2> QED
    BY <2>1
<1>4. CASE Dispatch \/ CancelQuery \/ \E q \in Query : Thread(q)
  <2>1. mode' = mode /\ engine' = engine
    BY <1>4, ThreadMoves DEF Dispatch, CancelQuery, modes
  <2> QED
    BY <2>1
<1>5. CASE Aside /\ ~EnterLocal /\ ~BlockedAnswer
  <2>1. mode' = mode /\ engine' = engine
    BY <1>5 DEF Aside, Type, EnterBlocks, EnterPassesThrough, ClearLine, RawKey, DrainSuggest,
                DrainInput, PromptAppears, OutputLooksLikePrompt, modes
  <2> QED
    BY <2>1
<1> QED
  BY <1>1, <1>2, <1>3, <1>4, <1>5, NextIsSplit

(* The modes of the session and of its engine part and meet again only by  *)
(* a !<cmd>, whatever the threads do (nl_mode_engine.py:97-101).           *)
THEOREM ModesPart == Spec => ModesPartByEscape
<1>1. IInv /\ [Next]_vars
        => [(mode = engine) # (mode' = engine') => buffer = "escape" /\ engine' = "NL"]_vars
  BY ModesStep
<1> QED
  BY <1>1, Invariance, PTL DEF Spec, ModesPartByEscape

(* What an answer that is no toggle and no command runs of the input line. *)
LEMMA SuggestionsRunByNewline ==
    ASSUME TypeOK, NEW r \in Result \ {"TOGGLE", "EXEC_BASH"},
           NEW trigger \in LineKind \cup {"answer"}, HandleResult(r, trigger)
    PROVE  ranBy' \in {ranBy, "newline"}
BY HandleTypes

(* What arrives runs nothing that waits in the input line, except the      *)
(* user's own exit or Bash line and the part of a suggestion before a      *)
(* newline of its own (output_renderer.py:95-118, 200-233).                *)
THEOREM SuggestionStays == Spec => SuggestionWaits
<1>1. ASSUME IInv, Next, Arrival, ranBy' # ranBy
      PROVE  ranBy' = "newline" \/ (handled' # handled /\ Head(results)[2] = "EXEC_BASH")
  <2>0. TypeOK /\ ThreadsDoNotToggle /\ LinesPayForQueries
    BY <1>1 DEF IInv
  <2>1. CASE DrainResult
    <3>1. Head(results)[2] \in Result /\ Head(results)[2] # "TOGGLE"
      BY <2>0, <2>1, TailElements DEF DrainResult, ThreadsDoNotToggle, TypeOK
    <3>2. HandleResult(Head(results)[2], "answer")
      BY <2>1 DEF DrainResult
    <3>3. handled' # handled
      BY <2>0, <2>1 DEF DrainResult, TypeOK
    <3> QED
      BY <1>1, <2>0, <3>1, <3>2, <3>3, SuggestionsRunByNewline
  <2>2. CASE BlockedAnswer
    <3>1. PICK r \in LLMResults(buffer) : HandleResult(r, buffer)
      BY <2>2 DEF BlockedAnswer
    <3>2. r \in Result \ {"TOGGLE", "EXEC_BASH"} /\ buffer \in LineKind
      BY <2>0, <2>2, <3>1 DEF BlockedAnswer, LinesPayForQueries, LLMResults, Result, TypeOK
    <3> QED
      BY <1>1, <2>0, <3>1, <3>2, SuggestionsRunByNewline
  <2>3. CASE DrainSuggest
    <3>1. Paste("agent") \/ PasteLines("agent") \/ UNCHANGED terminal
      BY <2>3 DEF DrainSuggest, ShowSuggestion
    <3> QED
      BY <1>1, <3>1 DEF Paste, PasteLines, terminal
  <2>4. CASE Dispatch \/ CancelQuery \/ \E q \in Query : Thread(q)
    <3>1. ranBy' = ranBy
      BY <1>1, <2>4, ThreadMoves DEF Dispatch, CancelQuery, terminal
    <3> QED
      BY <1>1, <3>1
  <2>5. CASE Aside /\ ~BlockedAnswer /\ ~DrainSuggest
    <3>1. handled' = handled /\ nSuggests' = nSuggests /\ (loop' = loop \/ loop # "llm")
      BY <2>5 DEF Aside, Type, EnterLocal, EnterBlocks, EnterPassesThrough, ClearLine,
                  RawKey, DrainInput, PromptAppears, OutputLooksLikePrompt, NLInput,
                  counts, history
    <3> QED
      BY <1>1, <3>1 DEF Arrival
  <2> QED
    BY <1>1, <2>1, <2>2, <2>3, <2>4, <2>5, NextIsSplit
<1>2. IInv /\ [Next]_vars
        => [Arrival /\ ranBy' # ranBy
              => \/ ranBy' = "newline"
                 \/ handled' # handled /\ Head(results)[2] = "EXEC_BASH"]_vars
  BY <1>1
<1> QED
  BY <1>2, Invariance, PTL DEF Spec, SuggestionWaits
=============================================================================
