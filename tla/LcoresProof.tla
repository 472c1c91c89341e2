---------------------------- MODULE LcoresProof -----------------------------
(***************************************************************************)
(* Launch, run and shutdown for any number of workers and any traffic: the *)
(* handshake between main and each worker is consistent (LcoresInv), hence *)
(* the clean-up is alone, every worker has run, and the second call of     *)
(* lcore_main does nothing; and the unlocked counter loses packets but     *)
(* invents none (StatsInv).                                                *)
(***************************************************************************)
EXTENDS Lcores, TLAPS

\* The sets of lcores, so that no proof needs to look into them.
LEMMA LcoreFacts ==
  /\ NumWorkers \in Nat /\ Burst \in Nat
  /\ MainLcore \in LcoreIds
  /\ \A k \in Workers : /\ k \in LcoreIds /\ k # MainLcore
                        /\ k \in Nat /\ 1 <= k /\ k <= NumWorkers
  /\ \A k \in Nat : 1 <= k /\ k <= NumWorkers => k \in Workers
BY WorkersAssumption, BurstAssumption DEF Workers, LcoreIds, MainLcore

\* The parts of the invariant.
LEMMA Parts ==
  ASSUME LcoresInv
  PROVE  TypeOK /\ MainShape /\ (\A k \in Workers : Pair(k))
BY DEF LcoresInv

\* What main and worker k know of each other depends only on what belongs to k and
\* on where main is.
LEMMA PairSame ==
  ASSUME NEW k \in Workers, Pair(k), mpc' = mpc, w' = w,
         state'[k] = state[k], wpc'[k] = wpc[k], f'[k] = f[k],
         m2w'[k] = m2w[k], w2m'[k] = w2m[k], calls'[k] = calls[k],
         lpc'[k] = "out" <=> lpc[k] = "out"
  PROVE  Pair(k)'
BY DEF Pair, Told, ShuttingDown

\* The shape of main is its own.
LEMMA MainSame ==
  ASSUME MainShape, mpc' = mpc, w' = w, force_quit => force_quit',
         lpc'[MainLcore] = lpc[MainLcore]
  PROVE  MainShape'
BY DEF MainShape, ShuttingDown

\* The program starts with every worker at its read.
LEMMA InitHolds ==
  ASSUME Init
  PROVE  LcoresInv
<1>1. TypeOK
  <2>1. force_quit \in BOOLEAN
    BY DEF Init
  <2>2. mpc \in MainSteps /\ w \in 1..NumWorkers + 1 /\ total_packets \in Nat /\ received \in Nat
    BY LcoreFacts DEF Init, MainSteps
  <2>3. /\ wpc \in [Workers -> WorkerSteps] /\ lpc \in [LcoreIds -> LoopSteps]
        /\ state \in [Workers -> {"WAIT", "RUNNING"}]
        /\ f \in [Workers -> {"NULL", "lcore_main"}]
    BY DEF Init, WorkerSteps, LoopSteps
  <2>4. /\ m2w \in [Workers -> Nat] /\ w2m \in [Workers -> Nat]
        /\ nb_rx \in [LcoreIds -> 0..Burst] /\ tmp \in [LcoreIds -> Nat]
        /\ calls \in [LcoreIds -> Nat]
    BY LcoreFacts DEF Init
  <2> QED
    BY <2>1, <2>2, <2>3, <2>4 DEF TypeOK
<1>2. MainShape
  BY LcoreFacts DEF Init, MainShape, ShuttingDown
<1>3. ASSUME NEW k \in Workers
      PROVE  Pair(k)
  BY LcoreFacts DEF Init, Pair, Told
<1> QED
  BY <1>1, <1>2, <1>3 DEF LcoresInv

\* A stuttering step changes nothing.
LEMMA StutterKeeps ==
  ASSUME LcoresInv, UNCHANGED vars
  PROVE  LcoresInv'
<1>1. TypeOK'
  BY Parts DEF vars, launch, loop, TypeOK
<1>2. MainShape'
  BY Parts, MainSame DEF vars, launch, loop
<1>3. ASSUME NEW k \in Workers
      PROVE  Pair(k)'
  BY Parts, PairSame DEF vars, launch, loop
<1> QED
  BY <1>1, <1>2, <1>3 DEF LcoresInv

\* The signal only sets the flag.
LEMMA SignalKeeps ==
  ASSUME LcoresInv, signal_handler
  PROVE  LcoresInv'
<1>1. TypeOK'
  BY Parts DEF signal_handler, launch, loop, TypeOK
<1>2. MainShape'
  BY Parts, MainSame DEF signal_handler, launch, loop
<1>3. ASSUME NEW k \in Workers
      PROVE  Pair(k)'
  BY Parts, PairSame DEF signal_handler, launch, loop
<1> QED
  BY <1>1, <1>2, <1>3 DEF LcoresInv

\* An iteration of lcore_main on any lcore: it stays inside, and in the second call
\* on the main lcore it does not even begin.
LEMMA LoopTestKeeps ==
  ASSUME LcoresInv, NEW l \in LcoreIds, LoopTest(l)
  PROVE  LcoresInv'
<1>1. TypeOK'
  BY Parts DEF LoopTest, launch, TypeOK, LoopSteps
<1>2. MainShape'
  BY Parts DEF LoopTest, launch, MainShape, ShuttingDown
<1>3. ASSUME NEW k \in Workers
      PROVE  Pair(k)'
  <2>1. lpc'[k] = "out" <=> lpc[k] = "out"
    BY DEF LoopTest
  <2> QED
    BY Parts, PairSame DEF LoopTest, launch
<1> QED
  BY <1>1, <1>2, <1>3 DEF LcoresInv

\* It receives ...
LEMMA RxBurstKeeps ==
  ASSUME LcoresInv, NEW l \in LcoreIds, RxBurst(l)
  PROVE  LcoresInv'
<1>1. TypeOK'
  BY Parts DEF RxBurst, launch, TypeOK, LoopSteps
<1>2. MainShape'
  BY Parts DEF RxBurst, launch, MainShape, ShuttingDown
<1>3. ASSUME NEW k \in Workers
      PROVE  Pair(k)'
  <2>1. lpc'[k] = "out" <=> lpc[k] = "out"
    BY DEF RxBurst
  <2> QED
    BY Parts, PairSame DEF RxBurst, launch
<1> QED
  BY <1>1, <1>2, <1>3 DEF LcoresInv

\* ... and adds to the counter, in two steps.
LEMMA AddLoadKeeps ==
  ASSUME LcoresInv, NEW l \in LcoreIds, AddLoad(l)
  PROVE  LcoresInv'
<1>1. TypeOK'
  BY Parts DEF AddLoad, launch, TypeOK, LoopSteps
<1>2. MainShape'
  BY Parts DEF AddLoad, launch, MainShape, ShuttingDown
<1>3. ASSUME NEW k \in Workers
      PROVE  Pair(k)'
  <2>1. lpc'[k] = "out" <=> lpc[k] = "out"
    BY DEF AddLoad
  <2> QED
    BY Parts, PairSame DEF AddLoad, launch
<1> QED
  BY <1>1, <1>2, <1>3 DEF LcoresInv

\* The second of them.
LEMMA AddStoreKeeps ==
  ASSUME LcoresInv, NEW l \in LcoreIds, AddStore(l)
  PROVE  LcoresInv'
<1>1. TypeOK'
  BY Parts DEF AddStore, launch, TypeOK, LoopSteps
<1>2. MainShape'
  BY Parts DEF AddStore, launch, MainShape, ShuttingDown
<1>3. ASSUME NEW k \in Workers
      PROVE  Pair(k)'
  <2>1. lpc'[k] = "out" <=> lpc[k] = "out"
    BY DEF AddStore
  <2> QED
    BY Parts, PairSame DEF AddStore, launch
<1> QED
  BY <1>1, <1>2, <1>3 DEF LcoresInv

\* A worker takes its command ...
LEMMA WorkerReadKeeps ==
  ASSUME LcoresInv, NEW l \in Workers, WorkerRead(l)
  PROVE  LcoresInv'
<1>1. TypeOK'
  BY Parts DEF WorkerRead, loop, TypeOK, WorkerSteps
<1>2. MainShape'
  BY Parts, MainSame DEF WorkerRead, loop
<1>3. ASSUME NEW k \in Workers
      PROVE  Pair(k)'
  <2>1. CASE k # l
    BY <2>1, Parts, PairSame DEF WorkerRead, loop
  <2>2. CASE k = l
    BY Parts DEF WorkerRead, loop, TypeOK, Pair, Told, ShuttingDown
  <2> QED
    BY <2>1, <2>2
<1> QED
  BY <1>1, <1>2, <1>3 DEF LcoresInv

\* ... marks itself running ...
LEMMA WorkerRunningKeeps ==
  ASSUME LcoresInv, NEW l \in Workers, WorkerRunning(l)
  PROVE  LcoresInv'
<1>1. TypeOK'
  BY Parts DEF WorkerRunning, loop, TypeOK, WorkerSteps
<1>2. MainShape'
  BY Parts, MainSame DEF WorkerRunning, loop
<1>3. ASSUME NEW k \in Workers
      PROVE  Pair(k)'
  <2>1. CASE k # l
    BY <2>1, Parts, PairSame DEF WorkerRunning, loop
  <2>2. CASE k = l
    BY Parts DEF WorkerRunning, loop, TypeOK, Pair, Told, ShuttingDown
  <2> QED
    BY <2>1, <2>2
<1> QED
  BY <1>1, <1>2, <1>3 DEF LcoresInv

\* ... tells main, who is waiting for it ...
LEMMA WorkerAckKeeps ==
  ASSUME LcoresInv, NEW l \in Workers, WorkerAck(l)
  PROVE  LcoresInv'
<1>1. TypeOK'
  BY Parts DEF WorkerAck, loop, TypeOK, WorkerSteps
<1>2. MainShape'
  BY Parts, MainSame DEF WorkerAck, loop
<1>3. ASSUME NEW k \in Workers
      PROVE  Pair(k)'
  <2>1. CASE k # l
    BY <2>1, Parts, PairSame DEF WorkerAck, loop
  <2>2. CASE k = l
    BY Parts DEF WorkerAck, loop, TypeOK, Pair, Told, ShuttingDown
  <2> QED
    BY <2>1, <2>2
<1> QED
  BY <1>1, <1>2, <1>3 DEF LcoresInv

\* ... and calls lcore_main, for the first time ...
LEMMA WorkerCallKeeps ==
  ASSUME LcoresInv, NEW l \in Workers, WorkerCall(l)
  PROVE  LcoresInv'
<1>1. TypeOK'
  BY Parts, LcoreFacts DEF WorkerCall, Enter, TypeOK, WorkerSteps, LoopSteps
<1>2. MainShape'
  BY Parts, LcoreFacts, MainSame DEF WorkerCall, Enter
<1>3. ASSUME NEW k \in Workers
      PROVE  Pair(k)'
  <2>1. CASE k # l
    BY <2>1, Parts, PairSame DEF WorkerCall, Enter
  <2>2. CASE k = l
    BY Parts, LcoreFacts DEF WorkerCall, Enter, TypeOK, Pair, Told, ShuttingDown
  <2> QED
    BY <2>1, <2>2
<1> QED
  BY <1>1, <1>2, <1>3 DEF LcoresInv

\* ... which it leaves.
LEMMA WorkerReturnKeeps ==
  ASSUME LcoresInv, NEW l \in Workers, WorkerReturn(l)
  PROVE  LcoresInv'
<1>1. TypeOK'
  BY Parts DEF WorkerReturn, Leave, TypeOK, WorkerSteps, LoopSteps
<1>2. MainShape'
  BY Parts, LcoreFacts, MainSame DEF WorkerReturn, Leave
<1>3. ASSUME NEW k \in Workers
      PROVE  Pair(k)'
  <2>1. CASE k # l
    BY <2>1, Parts, PairSame DEF WorkerReturn, Leave
  <2>2. CASE k = l
    BY Parts, LcoreFacts
       DEF WorkerReturn, Leave, TypeOK, Pair, Told, ShuttingDown
  <2> QED
    BY <2>1, <2>2
<1> QED
  BY <1>1, <1>2, <1>3 DEF LcoresInv

\* It forgets the function ...
LEMMA WorkerClearKeeps ==
  ASSUME LcoresInv, NEW l \in Workers, WorkerClear(l)
  PROVE  LcoresInv'
<1>1. TypeOK'
  BY Parts DEF WorkerClear, loop, TypeOK, WorkerSteps
<1>2. MainShape'
  BY Parts, MainSame DEF WorkerClear, loop
<1>3. ASSUME NEW k \in Workers
      PROVE  Pair(k)'
  <2>1. CASE k # l
    BY <2>1, Parts, PairSame DEF WorkerClear, loop
  <2>2. CASE k = l
    BY Parts DEF WorkerClear, loop, TypeOK, Pair, Told, ShuttingDown
  <2> QED
    BY <2>1, <2>2
<1> QED
  BY <1>1, <1>2, <1>3 DEF LcoresInv

\* ... and waits again, with no command in its pipe.
LEMMA WorkerDoneKeeps ==
  ASSUME LcoresInv, NEW l \in Workers, WorkerDone(l)
  PROVE  LcoresInv'
<1>1. TypeOK'
  BY Parts DEF WorkerDone, loop, TypeOK, WorkerSteps
<1>2. MainShape'
  BY Parts, MainSame DEF WorkerDone, loop
<1>3. ASSUME NEW k \in Workers
      PROVE  Pair(k)'
  <2>1. CASE k # l
    BY <2>1, Parts, PairSame DEF WorkerDone, loop
  <2>2. CASE k = l
    BY <2>2, Parts DEF WorkerDone, loop, TypeOK, Pair, Told
  <2> QED
    BY <2>1, <2>2
<1> QED
  BY <1>1, <1>2, <1>3 DEF LcoresInv

\* All workers are waiting when main looks.
LEMMA LaunchCheckKeeps ==
  ASSUME LcoresInv, LaunchCheck
  PROVE  LcoresInv'
<1>0. \A k \in Workers : state[k] = "WAIT"
  BY Parts DEF LaunchCheck, TypeOK, Pair, Told
<1>1. TypeOK'
  BY Parts DEF LaunchCheck, launch, loop, TypeOK, MainSteps
<1>2. MainShape'
  BY <1>0, Parts DEF LaunchCheck, loop, MainShape, ShuttingDown
<1>3. ASSUME NEW k \in Workers
      PROVE  Pair(k)'
  BY Parts, LcoreFacts
     DEF LaunchCheck, launch, loop, TypeOK, MainShape, Pair, Told
<1> QED
  BY <1>1, <1>2, <1>3 DEF LcoresInv

\* The worker that is told to run is at its read.
LEMMA RemoteLaunchKeeps ==
  ASSUME LcoresInv, RemoteLaunch
  PROVE  LcoresInv'
<1>1. TypeOK'
  BY Parts, LcoreFacts DEF RemoteLaunch, loop, TypeOK, MainSteps
<1>2. MainShape'
  BY Parts DEF RemoteLaunch, loop, TypeOK, MainShape, ShuttingDown
<1>3. ASSUME NEW k \in Workers
      PROVE  Pair(k)'
  BY Parts, LcoreFacts DEF RemoteLaunch, loop, TypeOK, Pair, Told, ShuttingDown
<1> QED
  BY <1>1, <1>2, <1>3 DEF LcoresInv

\* After the acknowledgement the worker is marked running.
LEMMA LaunchAckKeeps ==
  ASSUME LcoresInv, LaunchAck
  PROVE  LcoresInv'
<1>1. TypeOK'
  BY Parts, LcoreFacts DEF LaunchAck, loop, TypeOK, MainShape, MainSteps
<1>2. MainShape'
  BY Parts DEF LaunchAck, loop, TypeOK, MainShape, ShuttingDown
<1>3. ASSUME NEW k \in Workers
      PROVE  Pair(k)'
  BY Parts, LcoreFacts DEF LaunchAck, loop, TypeOK, Pair, Told, ShuttingDown
<1> QED
  BY <1>1, <1>2, <1>3 DEF LcoresInv

\* Main calls lcore_main itself ...
LEMMA CallMainKeeps ==
  ASSUME LcoresInv, CallMain
  PROVE  LcoresInv'
<1>1. TypeOK'
  <2>1. lpc' \in [LcoreIds -> LoopSteps] /\ calls' \in [LcoreIds -> Nat]
    BY Parts, LcoreFacts DEF CallMain, Enter, TypeOK, LoopSteps
  <2> QED
    BY <2>1, Parts DEF CallMain, Enter, launch, TypeOK, MainSteps
<1>2. MainShape'
  BY Parts, LcoreFacts, SMTT(20)
     DEF CallMain, Enter, launch, TypeOK, MainShape, ShuttingDown
<1>3. ASSUME NEW k \in Workers
      PROVE  Pair(k)'
  BY Parts, LcoreFacts
     DEF CallMain, Enter, launch, TypeOK, Pair, Told, ShuttingDown
<1> QED
  BY <1>1, <1>2, <1>3 DEF LcoresInv

\* ... until the signal ...
LEMMA FirstReturnKeeps ==
  ASSUME LcoresInv, FirstReturn
  PROVE  LcoresInv'
<1>1. TypeOK'
  BY Parts DEF FirstReturn, Leave, launch, TypeOK, MainSteps, LoopSteps
<1>2. MainShape'
  BY Parts, LcoreFacts DEF FirstReturn, Leave, launch, TypeOK, MainShape
<1>3. ASSUME NEW k \in Workers
      PROVE  Pair(k)'
  BY Parts, LcoreFacts DEF FirstReturn, Leave, launch, Pair, Told, ShuttingDown
<1> QED
  BY <1>1, <1>2, <1>3 DEF LcoresInv

\* ... and again, with the signal already there.
LEMMA SecondCallKeeps ==
  ASSUME LcoresInv, SecondCall
  PROVE  LcoresInv'
<1>1. TypeOK'
  BY Parts, LcoreFacts
     DEF SecondCall, Enter, launch, TypeOK, MainSteps, LoopSteps
<1>2. MainShape'
  BY Parts, LcoreFacts DEF SecondCall, Enter, launch, TypeOK, MainShape
<1>3. ASSUME NEW k \in Workers
      PROVE  Pair(k)'
  BY Parts, LcoreFacts DEF SecondCall, Enter, launch, Pair, Told, ShuttingDown
<1> QED
  BY <1>1, <1>2, <1>3 DEF LcoresInv

\* It begins to wait for the workers.
LEMMA SecondReturnKeeps ==
  ASSUME LcoresInv, SecondReturn
  PROVE  LcoresInv'
<1>1. TypeOK'
  BY Parts, LcoreFacts DEF SecondReturn, Leave, TypeOK, MainSteps, LoopSteps
<1>2. MainShape'
  BY Parts, LcoreFacts DEF SecondReturn, Leave, TypeOK, MainShape, ShuttingDown
<1>3. ASSUME NEW k \in Workers
      PROVE  Pair(k)'
  BY Parts, LcoreFacts DEF SecondReturn, Leave, Pair, Told, ShuttingDown
<1> QED
  BY <1>1, <1>2, <1>3 DEF LcoresInv

\* A worker that waits has run, for it was marked running before.
LEMMA WaitLcoreKeeps ==
  ASSUME LcoresInv, WaitLcore
  PROVE  LcoresInv'
<1>1. TypeOK'
  BY Parts, LcoreFacts DEF WaitLcore, loop, TypeOK
<1>2. MainShape'
  BY Parts DEF WaitLcore, loop, MainShape, ShuttingDown
<1>3. ASSUME NEW k \in Workers
      PROVE  Pair(k)'
  <2>1. k = w => wpc[k] = "read"
    BY Parts DEF WaitLcore, TypeOK, Pair, WorkerSteps
  <2>2. Told(k) /\ Told(k)' /\ ~ ShuttingDown /\ ~ ShuttingDown'
    BY DEF WaitLcore, Told, ShuttingDown
  <2>3. k < w' => k < w \/ k = w
    <3>1. w \in Nat /\ w' = w + 1 /\ k \in Nat
      BY Parts, LcoreFacts DEF WaitLcore, TypeOK
    <3> QED
      BY <3>1
  <2> QED
    BY <2>1, <2>2, <2>3, Parts DEF WaitLcore, loop, Pair
<1> QED
  BY <1>1, <1>2, <1>3 DEF LcoresInv

\* All have been waited for.
LEMMA WaitEndKeeps ==
  ASSUME LcoresInv, WaitEnd
  PROVE  LcoresInv'
<1>1. TypeOK'
  BY Parts DEF WaitEnd, launch, loop, TypeOK, MainSteps
<1>2. MainShape'
  BY Parts, LcoreFacts DEF WaitEnd, launch, loop, TypeOK, MainShape
<1>3. ASSUME NEW k \in Workers
      PROVE  Pair(k)'
  BY Parts, LcoreFacts DEF WaitEnd, launch, loop, TypeOK, Pair, Told
<1> QED
  BY <1>1, <1>2, <1>3 DEF LcoresInv

\* Nothing of this changes in the clean-up.
LEMMA CleanupKeeps ==
  ASSUME LcoresInv, Cleanup
  PROVE  LcoresInv'
<1>1. TypeOK'
  BY Parts DEF Cleanup, After, launch, loop, TypeOK, MainSteps
<1>2. MainShape'
  BY Parts DEF Cleanup, After, launch, loop, TypeOK, MainShape, ShuttingDown
<1>3. ASSUME NEW k \in Workers
      PROVE  Pair(k)'
  BY Parts DEF Cleanup, After, launch, loop, Pair, Told, ShuttingDown
<1> QED
  BY <1>1, <1>2, <1>3 DEF LcoresInv

\* For any number of workers: main and every worker agree on where they are.
THEOREM LcoresInvariant == Spec => []LcoresInv
<1>1. LcoresInv /\ [Next]_vars => LcoresInv'
  <2> SUFFICES ASSUME LcoresInv, [Next]_vars
               PROVE  LcoresInv'
    OBVIOUS
  <2>1. CASE signal_handler
    BY <2>1, SignalKeeps
  <2>2. CASE Main
    BY <2>2, LaunchCheckKeeps, RemoteLaunchKeeps, LaunchAckKeeps, CallMainKeeps,
      FirstReturnKeeps, SecondCallKeeps, SecondReturnKeeps, WaitLcoreKeeps,
      WaitEndKeeps, CleanupKeeps DEF Main
  <2>3. CASE \E k \in Workers : Worker(k)
    BY <2>3, WorkerReadKeeps, WorkerRunningKeeps, WorkerAckKeeps,
      WorkerCallKeeps, WorkerReturnKeeps, WorkerClearKeeps, WorkerDoneKeeps
       DEF Worker
  <2>4. CASE \E l \in LcoreIds : LcoreMain(l)
    BY <2>4, LoopTestKeeps, RxBurstKeeps, AddLoadKeeps, AddStoreKeeps
       DEF LcoreMain
  <2>5. CASE UNCHANGED vars
    BY <2>5, StutterKeeps
  <2> QED
    BY <2>1, <2>2, <2>3, <2>4, <2>5 DEF Next
<1> QED
  BY <1>1, InitHolds, PTL DEF Spec

\* When main prints, releases and cleans up, no worker is in lcore_main or has
\* still to enter it.
THEOREM CleanupIsAlone == Spec => []CleanupAlone
<1>1. LcoresInv => CleanupAlone
  <2> SUFFICES ASSUME LcoresInv, ShuttingDown, NEW k \in Workers
               PROVE  lpc[k] = "out" /\ wpc[k] = "read" /\ m2w[k] = 0
    BY DEF CleanupAlone
  <2>1. mpc # "ack"
    BY DEF ShuttingDown
  <2> QED
    BY <2>1 DEF LcoresInv, Pair
<1> QED
  BY <1>1, LcoresInvariant, PTL

\* By then every worker has run lcore_main once, although the results of the
\* launch calls are ignored.
THEOREM EveryWorkerHasRun == Spec => []EveryWorkerRuns
<1>1. LcoresInv => EveryWorkerRuns
  <2> SUFFICES ASSUME LcoresInv, ShuttingDown, NEW k \in Workers
               PROVE  calls[k] = 1
    BY DEF EveryWorkerRuns
  <2>1. Told(k) /\ m2w[k] = 0 /\ wpc[k] = "read"
    BY DEF LcoresInv, Pair, Told, ShuttingDown
  <2> QED
    BY <2>1 DEF LcoresInv, Pair
<1> QED
  BY <1>1, LcoresInvariant, PTL

\* The second call of lcore_main on the main lcore receives nothing.
THEOREM SecondCallIsIdle == Spec => []SecondCallIdle
<1>1. LcoresInv => SecondCallIdle
  BY DEF LcoresInv, MainShape, SecondCallIdle
<1> QED
  BY <1>1, LcoresInvariant, PTL

-----------------------------------------------------------------------------
(* The statistics *)

\* What StatsInv says of the sums.
CountedBy(s) ==
  /\ PartialSums(s)
  /\ total_packets + s[NumWorkers + 1] <= received
  /\ \A l \in LcoreIds : lpc[l] = "store" => tmp[l] + s[NumWorkers + 1] <= received

\* A function is the sequence of partial sums if it is one position by position.
LEMMA SumsFacts ==
  ASSUME TypeOK, StatsInv
  PROVE  \E s \in [0..NumWorkers + 1 -> 0..received] :
           /\ CountedBy(s)
           /\ \A k \in 0..NumWorkers + 1 : s[k] \in Nat /\ s[k] <= received
           /\ s[0] = 0
           /\ \A k \in LcoreIds : s[k + 1] = s[k] + Unadded(k)
           /\ \A j, k \in 0..NumWorkers + 1 : j <= k => s[j] <= s[k]
<1>1. received \in Nat
  BY DEF TypeOK
<1>2. PICK s \in [0..NumWorkers + 1 -> 0..received] : CountedBy(s)
  BY DEF StatsInv, CountedBy
<1>3. \A k \in 0..NumWorkers + 1 : s[k] \in Nat /\ s[k] <= received
  BY <1>1, <1>2
<1> QED
  BY <1>2, <1>3 DEF CountedBy, PartialSums

\* The sums depend only on what each lcore has to add.
LEMMA SumsSame ==
  ASSUME NEW s, PartialSums(s), \A l \in LcoreIds : Unadded(l)' = Unadded(l)
  PROVE  PartialSums(s)'
BY DEF PartialSums

\* A step that leaves the counters alone and takes no lcore into or out of its
\* addition keeps the sums.
LEMMA StatsSame ==
  ASSUME StatsInv, UNCHANGED <<nb_rx, tmp, total_packets, received>>,
         \A l \in LcoreIds : \/ lpc'[l] = lpc[l]
                             \/ {lpc[l], lpc'[l]} \subseteq {"out", "test", "rx"}
  PROVE  StatsInv'
<1>1. \A l \in LcoreIds : /\ lpc'[l] \in {"load", "store"} <=> lpc[l] \in {"load", "store"}
                          /\ lpc'[l] = "store" <=> lpc[l] = "store"
  OBVIOUS
<1>2. \A l \in LcoreIds : Unadded(l)' = Unadded(l)
  BY <1>1 DEF Unadded
<1>3. PICK s \in [0..NumWorkers + 1 -> 0..received] : CountedBy(s)
  BY DEF StatsInv, CountedBy
<1>4. PartialSums(s)'
  BY <1>2, <1>3, SumsSame DEF CountedBy
<1>5. CountedBy(s)'
  BY <1>1, <1>3, <1>4 DEF CountedBy
<1>6. s \in [0..NumWorkers + 1 -> 0..received]'
  BY <1>3
<1>7. (\E u \in [0..NumWorkers + 1 -> 0..received] : CountedBy(u))'
  BY <1>5, <1>6
<1> QED
  BY <1>1, <1>7 DEF StatsInv, CountedBy

\* The burst of lcore l goes into the sums above l and into received.
LEMMA RxBurstCounts ==
  ASSUME TypeOK, StatsInv, NEW l \in LcoreIds, RxBurst(l)
  PROVE  StatsInv'
<1>1. PICK n \in 0..Burst : /\ nb_rx' = [nb_rx EXCEPT ![l] = n]
                            /\ received' = received + n
                            /\ lpc' = [lpc EXCEPT ![l] = IF n = 0 THEN "test" ELSE "load"]
  BY DEF RxBurst
<1>2. lpc[l] = "rx" /\ UNCHANGED <<tmp, total_packets>>
  BY DEF RxBurst
<1>3. /\ NumWorkers \in Nat /\ n \in Nat /\ received \in Nat /\ total_packets \in Nat
      /\ LcoreIds = 0..NumWorkers /\ l \in 0..NumWorkers
  BY LcoreFacts DEF TypeOK, LcoreIds
<1>4. /\ tmp \in [LcoreIds -> Nat] /\ nb_rx \in [LcoreIds -> 0..Burst]
      /\ lpc \in [LcoreIds -> LoopSteps]
  BY DEF TypeOK
<1>5. PICK s \in [0..NumWorkers + 1 -> 0..received] :
           /\ CountedBy(s)
           /\ \A k \in 0..NumWorkers + 1 : s[k] \in Nat /\ s[k] <= received
           /\ s[0] = 0
           /\ \A k \in LcoreIds : s[k + 1] = s[k] + Unadded(k)
           /\ \A j, k \in 0..NumWorkers + 1 : j <= k => s[j] <= s[k]
  BY SumsFacts
<1>6. \A k \in LcoreIds : k # l => /\ Unadded(k)' = Unadded(k) /\ lpc'[k] = lpc[k]
                                   /\ nb_rx'[k] = nb_rx[k]
  BY <1>1, <1>4 DEF Unadded
<1>7. Unadded(l) = 0 /\ Unadded(l)' = n /\ lpc'[l] # "store" /\ nb_rx'[l] = n
  BY <1>1, <1>2, <1>4 DEF Unadded
<1>8. lpc'[l] = "load" => n > 0
  BY <1>1, <1>3, <1>4
<1>9. PICK t : t = [k \in 0..NumWorkers + 1 |-> IF k <= l THEN s[k] ELSE s[k] + n]
  OBVIOUS
<1>10. \A k \in 0..NumWorkers + 1 : t[k] = IF k <= l THEN s[k] ELSE s[k] + n
  BY <1>9
<1>11. t \in [0..NumWorkers + 1 -> 0..received']
  <2>1. ASSUME NEW k \in 0..NumWorkers + 1
        PROVE  t[k] \in 0..received'
    <3>1. s[k] \in Nat /\ s[k] <= received /\ received' = received + n
      BY <1>1, <1>5
    <3>2. t[k] \in Nat /\ t[k] <= received'
      BY <3>1, <1>3, <1>10
    <3>3. received' \in Nat
      BY <3>1, <1>3
    <3> QED
      BY <3>2, <3>3
  <2> QED
    BY <2>1, <1>9
<1>12. PartialSums(t)'
  <2>1. t[0] = 0
    BY <1>3, <1>5, <1>10
  <2>2. ASSUME NEW k \in LcoreIds
        PROVE  t[k + 1] = t[k] + Unadded(k)'
    <3>1. k \in 0..NumWorkers + 1 /\ k + 1 \in 0..NumWorkers + 1
      BY <1>3
    <3>2. s[k + 1] = s[k] + Unadded(k) /\ s[k] \in Nat /\ s[k + 1] \in Nat
      BY <3>1, <1>5
    <3>3. CASE k = l
      BY <3>1, <3>2, <3>3, <1>3, <1>7, <1>10
    <3>4. CASE k < l
      BY <3>1, <3>2, <3>4, <1>3, <1>6, <1>10
    <3>5. CASE k > l
      <4>1. t[k] = s[k] + n /\ t[k + 1] = s[k + 1] + n
        BY <3>1, <3>5, <1>3, <1>10
      <4>2. Unadded(k)' = Unadded(k) /\ Unadded(k) \in Nat
        BY <3>5, <1>3, <1>4, <1>6, LcoreFacts DEF Unadded
      <4> QED
        BY <4>1, <4>2, <3>2, <1>3
    <3> QED
      BY <3>1, <3>3, <3>4, <3>5, <1>3
  <2>3. ASSUME NEW j \in 0..NumWorkers + 1, NEW k \in 0..NumWorkers + 1, j <= k
        PROVE  t[j] <= t[k]
    <3>1. s[j] <= s[k] /\ s[j] \in Nat /\ s[k] \in Nat
      BY <1>5, <2>3
    <3>2. t[j] = (IF j <= l THEN s[j] ELSE s[j] + n) /\ t[k] = (IF k <= l THEN s[k] ELSE s[k] + n)
      BY <1>10
    <3> QED
      BY <3>1, <3>2, <2>3, <1>3
  <2> QED
    BY <2>1, <2>2, <2>3 DEF PartialSums
<1>13. CountedBy(t)'
  <2>1. s[NumWorkers + 1] \in Nat /\ t[NumWorkers + 1] = s[NumWorkers + 1] + n
    BY <1>3, <1>5, <1>10
  <2>2. total_packets' + t[NumWorkers + 1] <= received'
    <3>1. /\ total_packets' = total_packets /\ total_packets \in Nat
          /\ received' = received + n /\ received \in Nat /\ n \in Nat
      BY <1>1, <1>2, <1>3
    <3>2. total_packets + s[NumWorkers + 1] <= received
      BY <1>5 DEF CountedBy
    <3> QED
      BY <2>1, <3>1, <3>2
  <2>3. ASSUME NEW k \in LcoreIds, lpc'[k] = "store"
        PROVE  tmp'[k] + t[NumWorkers + 1] <= received'
    <3>1. lpc[k] = "store" /\ tmp'[k] = tmp[k] /\ tmp[k] \in Nat
      BY <2>3, <1>2, <1>4, <1>6, <1>7
    <3>2. tmp[k] + s[NumWorkers + 1] <= received
      BY <3>1, <1>5 DEF CountedBy
    <3>3. received' = received + n /\ n \in Nat /\ received \in Nat
      BY <1>1, <1>3
    <3> QED
      BY <3>1, <3>2, <3>3, <2>1
  <2> QED
    BY <1>12, <2>2, <2>3 DEF CountedBy
<1>14. (\E u \in [0..NumWorkers + 1 -> 0..received] : CountedBy(u))'
  BY <1>11, <1>13
<1>15. \A k \in LcoreIds : lpc'[k] \in {"load", "store"} => nb_rx'[k] > 0
  BY <1>6, <1>7, <1>8 DEF StatsInv
<1>16. received' > 0 =>
         total_packets' > 0 \/ \E k \in LcoreIds : lpc'[k] \in {"load", "store"}
  <2>1. CASE n = 0
    BY <2>1, <1>1, <1>2, <1>3, <1>6 DEF StatsInv
  <2>2. CASE n # 0
    BY <2>2, <1>1, <1>4
  <2> QED
    BY <2>1, <2>2
<1> QED
  BY <1>14, <1>15, <1>16 DEF StatsInv, CountedBy

\* A word that is loaded is as far from received as total_packets is.
LEMMA AddLoadCounts ==
  ASSUME TypeOK, StatsInv, NEW l \in LcoreIds, AddLoad(l)
  PROVE  StatsInv'
<1>1. /\ lpc[l] = "load" /\ tmp' = [tmp EXCEPT ![l] = total_packets]
      /\ lpc' = [lpc EXCEPT ![l] = "store"]
      /\ UNCHANGED <<nb_rx, total_packets, received>>
  BY DEF AddLoad
<1>2. tmp \in [LcoreIds -> Nat] /\ lpc \in [LcoreIds -> LoopSteps]
  BY DEF TypeOK
<1>3. \A k \in LcoreIds : k # l => lpc'[k] = lpc[k] /\ tmp'[k] = tmp[k]
  BY <1>1, <1>2
<1>4. lpc'[l] = "store" /\ tmp'[l] = total_packets
  BY <1>1, <1>2
<1>5. \A k \in LcoreIds : Unadded(k)' = Unadded(k)
  BY <1>1, <1>3, <1>4 DEF Unadded
<1>6. PICK s \in [0..NumWorkers + 1 -> 0..received] : CountedBy(s)
  BY DEF StatsInv, CountedBy
<1>7. (\E u \in [0..NumWorkers + 1 -> 0..received] : CountedBy(u))'
  <2>1. PartialSums(s)'
    BY <1>5, <1>6, SumsSame DEF CountedBy
  <2>2. \A k \in LcoreIds : lpc'[k] = "store" => tmp'[k] + s[NumWorkers + 1] <= received
    BY <1>3, <1>4, <1>6 DEF CountedBy
  <2>3. CountedBy(s)'
    BY <2>1, <2>2, <1>1, <1>6 DEF CountedBy
  <2>4. s \in [0..NumWorkers + 1 -> 0..received]'
    BY <1>1, <1>6
  <2> QED
    BY <2>3, <2>4
<1>8. \A k \in LcoreIds : lpc'[k] \in {"load", "store"} => nb_rx'[k] > 0
  BY <1>1, <1>3 DEF StatsInv
<1> QED
  BY <1>4, <1>7, <1>8 DEF StatsInv, CountedBy

\* The store overwrites what others have added in between, and takes the burst of
\* lcore l out of the sums above l.
LEMMA AddStoreCounts ==
  ASSUME TypeOK, StatsInv, NEW l \in LcoreIds, AddStore(l)
  PROVE  StatsInv'
<1>1. /\ lpc[l] = "store" /\ total_packets' = tmp[l] + nb_rx[l]
      /\ lpc' = [lpc EXCEPT ![l] = "test"]
      /\ UNCHANGED <<nb_rx, tmp, received>>
  BY DEF AddStore
<1>2. /\ NumWorkers \in Nat /\ received \in Nat
      /\ LcoreIds = 0..NumWorkers /\ l \in 0..NumWorkers
  BY LcoreFacts DEF TypeOK, LcoreIds
<1>3. tmp \in [LcoreIds -> Nat] /\ nb_rx \in [LcoreIds -> 0..Burst] /\ lpc \in [LcoreIds -> LoopSteps]
  BY DEF TypeOK
<1>4. nb_rx[l] > 0 /\ nb_rx[l] \in Nat
  BY <1>1, <1>3, LcoreFacts DEF StatsInv
<1>5. PICK n \in Nat : n = nb_rx[l] /\ n > 0
  BY <1>4
<1>6. PICK s \in [0..NumWorkers + 1 -> 0..received] :
           /\ CountedBy(s)
           /\ \A k \in 0..NumWorkers + 1 : s[k] \in Nat /\ s[k] <= received
           /\ s[0] = 0
           /\ \A k \in LcoreIds : s[k + 1] = s[k] + Unadded(k)
           /\ \A j, k \in 0..NumWorkers + 1 : j <= k => s[j] <= s[k]
  BY SumsFacts
<1>7. \A k \in LcoreIds : k # l => Unadded(k)' = Unadded(k) /\ lpc'[k] = lpc[k]
  BY <1>1, <1>3 DEF Unadded
<1>8. Unadded(l) = n /\ Unadded(l)' = 0 /\ lpc'[l] = "test"
  BY <1>1, <1>3, <1>5 DEF Unadded
<1>9. l \in 0..NumWorkers + 1 /\ l + 1 \in 0..NumWorkers + 1 /\ s[l + 1] = s[l] + n
  BY <1>2, <1>6, <1>8
<1>10. ASSUME NEW k \in 0..NumWorkers + 1, k > l
       PROVE  s[k] >= s[l] + n
  BY <1>2, <1>6, <1>9, <1>10
<1>11. PICK t : t = [k \in 0..NumWorkers + 1 |-> IF k <= l THEN s[k] ELSE s[k] - n]
  OBVIOUS
<1>12. \A k \in 0..NumWorkers + 1 : t[k] = IF k <= l THEN s[k] ELSE s[k] - n
  BY <1>11
<1>13. t \in [0..NumWorkers + 1 -> 0..received']
  <2>1. ASSUME NEW k \in 0..NumWorkers + 1
        PROVE  t[k] \in 0..received'
    <3>1. s[k] \in Nat /\ s[k] <= received /\ s[l] \in Nat
      BY <1>6, <1>9
    <3>2. CASE k <= l
      BY <3>1, <3>2, <1>1, <1>2, <1>12
    <3>3. CASE k > l
      <4>1. t[k] = s[k] - n /\ s[k] >= s[l] + n
        <5>1. s[k] >= s[l] + n
          BY <3>3, <1>10
        <5>2. ~ (k <= l)
          BY <3>3, <1>2
        <5> QED
          BY <5>1, <5>2, <1>12
      <4>2. received \in Nat
        BY <1>2
      <4>3. t[k] \in Nat /\ t[k] <= received
        BY <4>1, <4>2, <3>1, <1>5
      <4> QED
        BY <4>2, <4>3, <1>1
    <3> QED
      BY <3>2, <3>3, <1>2
  <2> QED
    BY <2>1, <1>11
<1>14. PartialSums(t)'
  <2>1. t[0] = 0
    BY <1>2, <1>6, <1>12
  <2>2. ASSUME NEW k \in LcoreIds
        PROVE  t[k + 1] = t[k] + Unadded(k)'
    <3>1. k \in 0..NumWorkers + 1 /\ k + 1 \in 0..NumWorkers + 1
      BY <1>2
    <3>2. s[k + 1] = s[k] + Unadded(k) /\ s[k] \in Nat /\ s[k + 1] \in Nat
      BY <3>1, <1>6
    <3>3. CASE k = l
      <4>1. t[k] = s[k] /\ t[k + 1] = s[k + 1] - n
        BY <3>1, <3>3, <1>2, <1>12
      <4> QED
        BY <4>1, <3>2, <3>3, <1>5, <1>8
    <3>4. CASE k < l
      BY <3>1, <3>2, <3>4, <1>2, <1>7, <1>12
    <3>5. CASE k > l
      <4>1. t[k] = s[k] - n /\ t[k + 1] = s[k + 1] - n
        BY <3>1, <3>5, <1>2, <1>12
      <4>2. Unadded(k)' = Unadded(k) /\ Unadded(k) \in Nat
        BY <3>5, <1>2, <1>3, <1>7, LcoreFacts DEF Unadded
      <4> QED
        BY <4>1, <4>2, <3>2, <1>5
    <3> QED
      BY <3>1, <3>3, <3>4, <3>5, <1>2
  <2>3. ASSUME NEW j \in 0..NumWorkers + 1, NEW k \in 0..NumWorkers + 1, j <= k
        PROVE  t[j] <= t[k]
    <3>1. s[j] <= s[k] /\ s[j] \in Nat /\ s[k] \in Nat /\ s[l] \in Nat
      BY <1>6, <1>9, <2>3
    <3>2. CASE j <= l /\ l < k
      <4>1. s[j] <= s[l] /\ s[k] >= s[l] + n
        BY <3>2, <1>6, <1>9, <1>10
      <4>2. t[j] = s[j] /\ t[k] = s[k] - n
        BY <3>2, <1>2, <1>12
      <4> QED
        BY <4>1, <4>2, <3>1, <1>5
    <3>3. CASE k <= l
      BY <3>1, <3>3, <2>3, <1>2, <1>12
    <3>4. CASE j > l
      BY <3>1, <3>4, <2>3, <1>2, <1>5, <1>12
    <3> QED
      BY <3>2, <3>3, <3>4, <1>2
  <2> QED
    BY <2>1, <2>2, <2>3 DEF PartialSums
<1>15. CountedBy(t)'
  <2>1. s[NumWorkers + 1] \in Nat /\ t[NumWorkers + 1] = s[NumWorkers + 1] - n
    BY <1>2, <1>6, <1>12
  <2>2. tmp[l] \in Nat /\ tmp[l] + s[NumWorkers + 1] <= received
    BY <1>1, <1>3, <1>6 DEF CountedBy
  <2>3. total_packets' + t[NumWorkers + 1] <= received'
    <3>1. total_packets' = tmp[l] + n /\ received' = received /\ received \in Nat
      BY <1>1, <1>2, <1>5
    <3> QED
      BY <3>1, <2>1, <2>2, <1>5
  <2>4. ASSUME NEW k \in LcoreIds, lpc'[k] = "store"
        PROVE  tmp'[k] + t[NumWorkers + 1] <= received'
    <3>1. lpc[k] = "store" /\ tmp'[k] = tmp[k] /\ tmp[k] \in Nat
      BY <2>4, <1>1, <1>3, <1>7, <1>8
    <3>2. tmp[k] + s[NumWorkers + 1] <= received
      BY <3>1, <1>6 DEF CountedBy
    <3>3. received' = received /\ received \in Nat
      BY <1>1, <1>2
    <3> QED
      BY <3>1, <3>2, <3>3, <2>1, <1>5
  <2> QED
    BY <1>14, <2>3, <2>4 DEF CountedBy
<1>16. (\E u \in [0..NumWorkers + 1 -> 0..received] : CountedBy(u))'
  BY <1>13, <1>15
<1>17. \A k \in LcoreIds : lpc'[k] \in {"load", "store"} => nb_rx'[k] > 0
  BY <1>1, <1>7, <1>8 DEF StatsInv
<1>18. total_packets' > 0
  BY <1>1, <1>3, <1>5
<1> QED
  BY <1>16, <1>17, <1>18 DEF StatsInv, CountedBy

\* Everything that main and the workers do outside the loop leaves the counters
\* alone: lcore_main is entered and left between two iterations.
LEMMA OthersCount ==
  ASSUME LcoresInv, StatsInv, signal_handler \/ Main \/ \E k \in Workers : Worker(k)
  PROVE  StatsInv'
<1>1. UNCHANGED <<nb_rx, tmp, total_packets, received>>
  BY DEF signal_handler, Main, LaunchCheck, RemoteLaunch, LaunchAck, CallMain,
         FirstReturn, SecondCall, SecondReturn, WaitLcore, WaitEnd, Cleanup, Worker,
         WorkerRead, WorkerRunning, WorkerAck, WorkerCall, WorkerReturn, WorkerClear,
         WorkerDone, loop, launch
<1>2. lpc \in [LcoreIds -> LoopSteps]
  BY Parts DEF TypeOK
<1>3. ASSUME NEW l \in LcoreIds
      PROVE  lpc'[l] = lpc[l] \/ {lpc[l], lpc'[l]} \subseteq {"out", "test", "rx"}
  <2>1. CASE signal_handler
    BY <2>1 DEF signal_handler, loop
  <2>2. CASE LaunchCheck \/ RemoteLaunch \/ LaunchAck \/ WaitLcore \/ WaitEnd \/ Cleanup
    BY <2>2 DEF LaunchCheck, RemoteLaunch, LaunchAck, WaitLcore, WaitEnd, Cleanup, loop
  <2>3. CASE CallMain \/ SecondCall
    <3>1. lpc[MainLcore] = "out" /\ lpc' = [lpc EXCEPT ![MainLcore] = "test"]
      BY <2>3, Parts DEF CallMain, SecondCall, Enter, MainShape
    <3> QED
      BY <3>1, <1>2
  <2>4. CASE FirstReturn \/ SecondReturn
    <3>1. lpc[MainLcore] = "test" /\ lpc' = [lpc EXCEPT ![MainLcore] = "out"]
      BY <2>4 DEF FirstReturn, SecondReturn, Leave
    <3> QED
      BY <3>1, <1>2
  <2>5. ASSUME NEW k \in Workers, Worker(k)
        PROVE  lpc'[l] = lpc[l] \/ {lpc[l], lpc'[l]} \subseteq {"out", "test", "rx"}
    <3>1. CASE WorkerRead(k) \/ WorkerRunning(k) \/ WorkerAck(k) \/ WorkerClear(k)
                 \/ WorkerDone(k)
      BY <3>1 DEF WorkerRead, WorkerRunning, WorkerAck, WorkerClear, WorkerDone, loop
    <3>2. CASE WorkerCall(k)
      <4>1. lpc[k] = "out" /\ lpc' = [lpc EXCEPT ![k] = "test"]
        BY <3>2, Parts DEF WorkerCall, Enter, Pair
      <4> QED
        BY <4>1, <1>2
    <3>3. CASE WorkerReturn(k)
      <4>1. lpc[k] = "test" /\ lpc' = [lpc EXCEPT ![k] = "out"]
        BY <3>3 DEF WorkerReturn, Leave
      <4> QED
        BY <4>1, <1>2
    <3> QED
      BY <2>5, <3>1, <3>2, <3>3 DEF Worker
  <2> QED
    BY <2>1, <2>2, <2>3, <2>4, <2>5 DEF Main
<1> QED
  BY <1>1, <1>3, StatsSame

\* An iteration of the loop on one lcore.
LEMMA LoopCounts ==
  ASSUME LcoresInv, StatsInv, NEW l \in LcoreIds, LcoreMain(l)
  PROVE  StatsInv'
<1>1. TypeOK
  BY Parts
<1>2. CASE LoopTest(l)
  <2>1. lpc[l] = "test" /\ lpc' = [lpc EXCEPT ![l] = "rx"] /\ lpc \in [LcoreIds -> LoopSteps]
    BY <1>1, <1>2 DEF LoopTest, TypeOK
  <2>2. \A k \in LcoreIds : \/ lpc'[k] = lpc[k]
                            \/ {lpc[k], lpc'[k]} \subseteq {"out", "test", "rx"}
    BY <2>1
  <2>3. UNCHANGED <<nb_rx, tmp, total_packets, received>>
    BY <1>2 DEF LoopTest
  <2> QED
    BY <2>2, <2>3, StatsSame
<1> QED
  BY <1>1, <1>2, RxBurstCounts, AddLoadCounts, AddStoreCounts DEF LcoreMain

\* At the start nothing is received.
LEMMA InitCounts ==
  ASSUME Init
  PROVE  StatsInv
<1> DEFINE s == [k \in 0..NumWorkers + 1 |-> 0]
<1>1. NumWorkers \in Nat /\ LcoreIds = 0..NumWorkers
  BY LcoreFacts DEF LcoreIds
<1>2. \A l \in LcoreIds : lpc[l] = "out" /\ Unadded(l) = 0
  BY DEF Init, Unadded
<1>3. received = 0 /\ total_packets = 0
  BY DEF Init
<1>4. PartialSums(s)
  BY <1>1, <1>2 DEF PartialSums
<1>5. s \in [0..NumWorkers + 1 -> 0..received] /\ s[NumWorkers + 1] = 0
  BY <1>1, <1>3
<1>6. CountedBy(s)
  <2> HIDE DEF s
  <2> QED
    BY <1>2, <1>3, <1>4, <1>5 DEF CountedBy
<1>7. \E t \in [0..NumWorkers + 1 -> 0..received] : CountedBy(t)
  <2> HIDE DEF s
  <2> QED
    BY <1>5, <1>6
<1> QED
  BY <1>2, <1>3, <1>7 DEF StatsInv, CountedBy

\* The sums are always there: what total_packets and every loaded word say, and
\* what is still to be added, never exceed what was received.
THEOREM StatsInvariant == Spec => []StatsInv
<1>1. LcoresInv /\ StatsInv /\ [Next]_vars => StatsInv'
  <2> SUFFICES ASSUME LcoresInv, StatsInv, [Next]_vars
               PROVE  StatsInv'
    OBVIOUS
  <2>1. CASE UNCHANGED vars
    <3>1. UNCHANGED <<nb_rx, tmp, total_packets, received, lpc>>
      BY <2>1 DEF vars, loop
    <3> QED
      BY <3>1, StatsSame
  <2>2. CASE Next
    BY <2>2, OthersCount, LoopCounts DEF Next
  <2> QED
    BY <2>1, <2>2
<1> QED
  BY <1>1, LcoresInvariant, InitCounts, PTL DEF Spec

\* When main prints the statistics, total_packets is at most what was received, and
\* not 0 if anything was, although every lcore adds to it without a lock.
THEOREM StatsAreBounded == Spec => []StatsBound
<1>1. LcoresInv /\ StatsInv => StatsBound
  <2> SUFFICES ASSUME LcoresInv, StatsInv, mpc = "stats"
               PROVE  total_packets <= received /\ (received > 0 => total_packets > 0)
    BY DEF StatsBound
  <2>1. /\ total_packets \in Nat /\ received \in Nat
        /\ LcoreIds = 0..NumWorkers /\ NumWorkers \in Nat
    BY Parts, LcoreFacts DEF TypeOK, LcoreIds
  <2>2. \A l \in LcoreIds : lpc[l] = "out"
    <3>1. lpc[MainLcore] = "out"
      BY Parts DEF MainShape
    <3>2. ASSUME NEW k \in Workers
          PROVE  lpc[k] = "out"
      BY Parts DEF Pair, ShuttingDown
    <3>3. \A l \in LcoreIds : l = MainLcore \/ l \in Workers
      BY <2>1 DEF MainLcore, Workers
    <3> QED
      BY <3>1, <3>2, <3>3
  <2>3. PICK s \in [0..NumWorkers + 1 -> 0..received] :
          total_packets + s[NumWorkers + 1] <= received
    BY DEF StatsInv, CountedBy
  <2>4. s[NumWorkers + 1] \in 0..received
    BY <2>1, <2>3
  <2> QED
    BY <2>1, <2>2, <2>3, <2>4 DEF StatsInv
<1> QED
  BY <1>1, LcoresInvariant, StatsInvariant, PTL
=============================================================================
