------------------------- MODULE PromptRunnerProofs -------------------------
(***************************************************************************)
(* Proofs about forge_shell -p for any set of commands, any verdicts, any  *)
(* return codes and any number of iterations.                              *)
(***************************************************************************)
EXTENDS PromptRunner, NaturalsInduction, WellFoundedInduction, TLAPS

(* A set of naturals up to n that is not empty has a last element, which   *)
(* is what a scan of a reversed list finds.                                *)
LEMMA LatestExists ==
    ASSUME NEW n \in Nat, NEW S \in SUBSET (1..n), S # {}
    PROVE  Latest(S) \in S /\ \A j \in S : j <= Latest(S)
<1> DEFINE T == {n - i : i \in S}
           R == {ss \in Nat \X Nat : ss[1] < ss[2]}
<1>1. T \subseteq Nat
  <2>1. \A i \in S : n - i \in Nat
    OBVIOUS
  <2> QED
    BY <2>1
<1>2. T # {}
  OBVIOUS
<1>3. IsWellFoundedOn(R, Nat)
  BY NatLessThanWellFounded, Zenon DEF OpToRel
<1>4. \E x \in T : \A y \in T : ~ (<<y, x>> \in R)
  <2> HIDE DEF T, R
  <2> QED
    BY <1>1, <1>2, <1>3, WFMin
<1>5. PICK x \in T : \A y \in T : ~ (y < x)
  BY <1>1, <1>4
<1>6. PICK i \in S : x = n - i
  BY <1>5
<1>7. \A j \in S : j <= i
  BY <1>5, <1>6
<1> QED
  BY <1>7 DEF Latest

-----------------------------------------------------------------------------
(* The inductive invariant: where the loop is decides what is known of the *)
(* suggestion, and an ending comes with the end.                           *)

PCKnows ==
    /\ pc \in {"llm", "decide", "run"} => iteration < MaxIterations
    /\ pc \in {"decide", "run"} => suggestion \in Command
    /\ pc \in {"ask", "llm"} => suggestion = NoCommand
    /\ pc = "run" => ~IsHigh /\ ~Repeats /\ suggestion \notin Echo
    /\ pc # "done" <=> ending = None

(* A builtin never leaves the head of the loop.                            *)
BuiltinsStay ==
    /\ BuiltinsRunNothing
    /\ prompt \notin {"text", "explain"} => pc \in {"ask", "done"}

IInv == TypeOK /\ PCKnows /\ ProbesAreNew /\ BestIsShown /\ BuiltinsStay

(* A result is a result of a step.                                         *)
LEMMA ResultType ==
    ASSUME NEW s \in Step
    PROVE  /\ s.cmd \in Command
           /\ s.result.output \in BOOLEAN
           /\ s.result.rc \in Int
<1>1. TimedOut.output \in BOOLEAN /\ TimedOut.rc \in Int
  BY DEF TimedOut, TimeoutCode
<1>2. \A r \in Outcome : r.output \in BOOLEAN /\ r.rc \in Int
  BY CodeAssumption DEF Outcome
<1>3. s.cmd \in Command /\ s.result \in Outcome \cup {TimedOut}
  BY DEF Step
<1> QED
  BY <1>1, <1>2, <1>3

(* The last successful result, the last one with output, or the last one   *)
(* of all is the best one.                                                 *)
LEMMA PickedIsBest ==
    ASSUME TypeOK, history # <<>>
    PROVE  PickBestResult \in 1..Len(history) /\ IsBest(PickBestResult)
<1> DEFINE n == Len(history)
<1>1. n \in Nat /\ n >= 1
  BY DEF TypeOK
<1>2. \A i \in 1..n : history[i].result.output \in BOOLEAN /\ history[i].result.rc \in Int
  BY ResultType DEF TypeOK
<1>3. Successes \in SUBSET (1..n) /\ Outputs \in SUBSET (1..n)
  BY DEF Successes, Outputs
<1>4. CASE Successes # {}
  <2>1. Latest(Successes) \in Successes /\ \A j \in Successes : j <= Latest(Successes)
    BY <1>1, <1>3, <1>4, LatestExists
  <2>2. PickBestResult = Latest(Successes)
    BY <1>4 DEF PickBestResult
  <2> QED
    BY <2>1, <2>2, <1>2 DEF Successes, IsBest, Worth
<1>5. CASE Successes = {} /\ Outputs # {}
  <2>1. Latest(Outputs) \in Outputs /\ \A j \in Outputs : j <= Latest(Outputs)
    BY <1>1, <1>3, <1>5, LatestExists
  <2>2. PickBestResult = Latest(Outputs)
    BY <1>5 DEF PickBestResult
  <2>3. \A j \in 1..n : ~Succeeded(history[j])
    BY <1>5 DEF Successes
  <2> QED
    BY <2>1, <2>2, <2>3, <1>2 DEF Outputs, IsBest, Worth
<1>6. CASE Successes = {} /\ Outputs = {}
  <2>1. PickBestResult = n
    BY <1>6 DEF PickBestResult
  <2>2. \A j \in 1..n : Worth(history[j]) = 0
    BY <1>6 DEF Successes, Outputs, Worth
  <2> QED
    BY <1>1, <2>1, <2>2 DEF IsBest
<1> QED
  BY <1>4, <1>5, <1>6

-----------------------------------------------------------------------------
LEMMA InitInv == Init => IInv
BY IterationAssumption
DEF Init, IInv, TypeOK, PCKnows, ProbesAreNew, BestIsShown, BuiltinsStay, BuiltinsRunNothing,
    LineKind, Mode, Ending, None, Running

(* Every step keeps the types.                                             *)
LEMMA TypeStep ==
    ASSUME IInv, Next
    PROVE  TypeOK'
<1> USE IterationAssumption DEF IInv, TypeOK
<1>1. CASE AskEngine
  BY <1>1 DEF AskEngine, TryAgain, Again, EngineAfter, OtherMode, Mode
<1>2. CASE AskLLM
  BY <1>2 DEF AskLLM
<1>3. CASE LLMFails
  BY <1>3 DEF LLMFails, TryAgain, Again, PCKnows
<1>4. ASSUME NEW cmd \in Command, Suggests(cmd) PROVE TypeOK'
  BY <1>4 DEF Suggests
<1>5. CASE StopHigh \/ ConcludeByEcho \/ Raises \/ GiveUp
  BY <1>5 DEF StopHigh, ConcludeByEcho, Raises, GiveUp, Return, Ending
<1>6. CASE Converge
  BY <1>6 DEF Converge, Return, Ending
<1>7. CASE GoAhead
  BY <1>7 DEF GoAhead
<1>8. ASSUME NEW r \in Outcome \cup {TimedOut}, Probe(r) PROVE TypeOK'
  <2>1. [cmd |-> suggestion, result |-> r] \in Step
    BY <1>8 DEF Probe, PCKnows, Step
  <2>2. history' \in Seq(Step) /\ Len(history') = Len(history) + 1
    BY <1>8, <2>1 DEF Probe
  <2> QED
    BY <1>8, <2>2 DEF Probe, Again, PCKnows
<1>9. CASE ShowBest
  <2>1. PickBestResult \in 1..Len(history)
    BY <1>9, PickedIsBest DEF ShowBest
  <2>2. history[PickBestResult].result.rc \in Int
    BY <2>1, ResultType
  <2> QED
    BY <1>9, <2>1, <2>2 DEF ShowBest, Return, Ending
<1> QED
  BY <1>1, <1>2, <1>3, <1>4, <1>5, <1>6, <1>7, <1>8, <1>9 DEF Next, Runner

(* What is known at each place of the loop.                                *)
LEMMA PCStep ==
    ASSUME IInv, Next
    PROVE  PCKnows'
<1> USE IterationAssumption DEF IInv, TypeOK, PCKnows
<1>1. CASE AskEngine \/ AskLLM \/ LLMFails
  BY <1>1 DEF AskEngine, AskLLM, LLMFails, TryAgain, Again
<1>2. ASSUME NEW cmd \in Command, Suggests(cmd) PROVE PCKnows'
  BY <1>2 DEF Suggests
<1>3. CASE StopHigh \/ Converge \/ ConcludeByEcho \/ Raises \/ ShowBest \/ GiveUp
  BY <1>3 DEF StopHigh, Converge, ConcludeByEcho, Raises, ShowBest, GiveUp, Return, None
<1>4. CASE GoAhead
  BY <1>4 DEF GoAhead, IsHigh, Repeats
<1>5. ASSUME NEW r \in Outcome \cup {TimedOut}, Probe(r) PROVE PCKnows'
  BY <1>5 DEF Probe, Again
<1> QED
  BY <1>1, <1>2, <1>3, <1>4, <1>5 DEF Next, Runner

(* A probe is appended only after its three checks.                        *)
LEMMA ProbesStep ==
    ASSUME IInv, Next
    PROVE  ProbesAreNew'
<1> USE IterationAssumption DEF IInv, TypeOK, ProbesAreNew
<1>1. CASE AskEngine \/ AskLLM \/ LLMFails
  BY <1>1 DEF AskEngine, AskLLM, LLMFails, TryAgain, Again
<1>2. ASSUME NEW cmd \in Command, Suggests(cmd) PROVE ProbesAreNew'
  BY <1>2 DEF Suggests
<1>3. CASE StopHigh \/ Converge \/ ConcludeByEcho \/ Raises \/ ShowBest \/ GiveUp
  BY <1>3 DEF StopHigh, Converge, ConcludeByEcho, Raises, ShowBest, GiveUp, Return
<1>4. CASE GoAhead
  BY <1>4 DEF GoAhead
<1>5. ASSUME NEW r \in Outcome \cup {TimedOut}, Probe(r) PROVE ProbesAreNew'
  <2> DEFINE n == Len(history)
  <2>1. n \in Nat /\ Len(history') = n + 1
    BY <1>5 DEF Probe
  <2>2. \A i \in 1..n : history'[i] = history[i]
    BY <1>5 DEF Probe
  <2>3. history'[n + 1].cmd = suggestion
    BY <1>5 DEF Probe
  <2>4. suggestion \notin High \cup Echo /\ (n # 0 => history[n].cmd # suggestion)
    BY <1>5 DEF Probe, PCKnows, IsHigh, Repeats
  <2>5. \A i \in 1..n + 1 : history'[i].cmd \notin High \cup Echo
    BY <2>1, <2>2, <2>3, <2>4
  <2>6. \A i \in 1..n : history'[i].cmd # history'[i + 1].cmd
    BY <2>1, <2>2, <2>3, <2>4
  <2>7. n + 1 <= iteration' /\ pc' = "ask"
    BY <1>5, <2>1 DEF Probe, Again
  <2> QED
    BY <2>1, <2>5, <2>6, <2>7
<1> QED
  BY <1>1, <1>2, <1>3, <1>4, <1>5 DEF Next, Runner

(* The end shows the best result, and each documented case has its code.   *)
LEMMA BestStep ==
    ASSUME IInv, Next
    PROVE  BestIsShown'
<1> USE DEF BestIsShown
<1>1. CASE AskEngine \/ AskLLM \/ LLMFails \/ GoAhead
  BY <1>1 DEF IInv, AskEngine, AskLLM, LLMFails, GoAhead, TryAgain, Again, PCKnows, None
<1>2. ASSUME NEW cmd \in Command, Suggests(cmd) PROVE BestIsShown'
  BY <1>2 DEF IInv, Suggests, PCKnows, None
<1>3. CASE StopHigh
  <2>1. /\ StoppedHigh /\ StoppedHigh' /\ exit' = 2 /\ ending' = "high"
        /\ iteration' # MaxIterations
    BY <1>3, IterationAssumption
    DEF IInv, TypeOK, PCKnows, StopHigh, Return, StoppedHigh, IsHigh
  <2> QED BY <2>1 DEF Solved, NeverAnswered
<1>4. CASE Converge \/ ConcludeByEcho
  <2>1. /\ ~StoppedHigh' /\ exit' = 0 /\ ending' # "best"
        /\ iteration' # MaxIterations
    BY <1>4, IterationAssumption
    DEF IInv, TypeOK, PCKnows, Converge, ConcludeByEcho, Return, StoppedHigh, IsHigh
  <2> QED BY <2>1 DEF Solved, NeverAnswered
<1>5. CASE Raises
  BY <1>5 DEF Raises, Return
<1>6. CASE GiveUp
  <2>1. /\ history' = <<>> /\ exit' = 1 /\ ending' = "failed" /\ ~StoppedHigh'
    BY <1>6, CommandAssumption
    DEF IInv, PCKnows, GiveUp, LoopEnds, Return, StoppedHigh, IsHigh
  <2>2. ~Solved'
    BY <2>1 DEF Solved
  <2> QED BY <2>1, <2>2
<1>7. ASSUME NEW r \in Outcome \cup {TimedOut}, Probe(r) PROVE BestIsShown'
  BY <1>7 DEF IInv, Probe, Again, PCKnows, None
<1>8. CASE ShowBest
  <2>1. PickBestResult \in 1..Len(history) /\ IsBest(PickBestResult)
    BY <1>8, PickedIsBest DEF IInv, ShowBest
  <2>2. /\ shown' = PickBestResult /\ history' = history /\ history # <<>>
        /\ exit' = history[PickBestResult].result.rc
    BY <1>8 DEF ShowBest, Return
  <2>3. IsBest(shown)'
    BY <2>1, <2>2 DEF IsBest, Worth, Succeeded, HasOutput
  <2>4. ASSUME NEW i \in 1..Len(history), Succeeded(history[i]) PROVE exit' = 0
    <3>1. Worth(history[i]) = 2
      BY <2>4 DEF Worth
    <3>2. Worth(history[PickBestResult]) = 2
      <4>1. Worth(history[i]) <= Worth(history[PickBestResult])
        BY <2>1, <2>4 DEF IsBest, Worth
      <4> QED
        BY <3>1, <4>1 DEF Worth
    <3> QED
      BY <2>2, <3>2 DEF Worth, Succeeded
  <2>5. Solved' => exit' = 0
    BY <2>2, <2>4 DEF Solved, Succeeded
  <2>6. ~StoppedHigh'
    BY <1>8, CommandAssumption DEF IInv, PCKnows, ShowBest, LoopEnds, Return, StoppedHigh
  <2>7. ~NeverAnswered'
    BY <2>2 DEF NeverAnswered
  <2> QED
    BY <2>1, <2>2, <2>3, <2>5, <2>6, <2>7
<1> QED
  BY <1>1, <1>2, <1>3, <1>4, <1>5, <1>6, <1>7, <1>8 DEF Next, Runner

(* A builtin is answered by the engine in whatever mode it is.             *)
LEMMA BuiltinsStep ==
    ASSUME IInv, Next
    PROVE  BuiltinsStay'
<1> USE DEF IInv, BuiltinsStay, BuiltinsRunNothing
<1>1. CASE AskEngine \/ LLMFails
  BY <1>1 DEF AskEngine, LLMFails, TryAgain, Again
<1>2. CASE AskLLM
  BY <1>2 DEF AskLLM, NeedsLLM, Enriched
<1>3. ASSUME NEW cmd \in Command, Suggests(cmd) PROVE BuiltinsStay'
  BY <1>3 DEF Suggests
<1>4. CASE StopHigh \/ Converge \/ ConcludeByEcho \/ Raises \/ GoAhead
  BY <1>4 DEF StopHigh, Converge, ConcludeByEcho, Raises, GoAhead, Return
<1>5. CASE ShowBest \/ GiveUp
  BY <1>5 DEF ShowBest, GiveUp, Return
<1>6. ASSUME NEW r \in Outcome \cup {TimedOut}, Probe(r) PROVE BuiltinsStay'
  BY <1>6 DEF Probe, Again
<1> QED
  BY <1>1, <1>2, <1>3, <1>4, <1>5, <1>6 DEF Next, Runner

LEMMA Invariance == Spec => []IInv
<1>1. IInv /\ [Next]_vars => IInv'
  <2> SUFFICES ASSUME IInv, [Next]_vars PROVE IInv'
    OBVIOUS
  <2>1. CASE Next
    BY <2>1, TypeStep, PCStep, ProbesStep, BestStep, BuiltinsStep DEF IInv
  <2>2. CASE UNCHANGED vars
    BY <2>2 DEF vars, IInv, TypeOK, PCKnows, IsHigh, Repeats, ProbesAreNew, BestIsShown,
                IsBest, StoppedHigh, Solved, NeverAnswered, BuiltinsStay,
                BuiltinsRunNothing
  <2> QED
    BY <2>1, <2>2
<1> QED
  BY <1>1, InitInv, PTL DEF Spec

-----------------------------------------------------------------------------
(* The types hold for any commands, verdicts and number of iterations.     *)
THEOREM TypeCorrect == Spec => []TypeOK
BY Invariance, PTL DEF IInv

(* No HIGH command and no conclusion is ever run, none twice in a row, and *)
(* no more probes than iterations.                                         *)
THEOREM ProbesNew == Spec => []ProbesAreNew
BY Invariance, PTL DEF IInv

(* What is shown after the last iteration is the best of all results, and  *)
(* solved, never answered and stopped by a HIGH command have their codes.  *)
THEOREM BestShown == Spec => []BestIsShown
BY Invariance, PTL DEF IInv

(* A prompt the engine answers itself runs nothing.                        *)
THEOREM BuiltinsRun == Spec => []BuiltinsRunNothing
BY Invariance, PTL DEF IInv, BuiltinsStay
=============================================================================
