------------------------------- MODULE Lcores -------------------------------
(***************************************************************************)
(* Run and shutdown of main(): the launch of lcore_main on the workers     *)
(* through the EAL's pipes, the two calls of lcore_main on the main lcore, *)
(* the wait for the workers, the statistics and the cleanup.  Every lcore  *)
(* is a thread.  What the loop does with packets is PacketLoop's subject;  *)
(* here an iteration receives up to Burst packets and adds them to         *)
(* total_packets, which all lcores share and update without a lock.        *)
(***************************************************************************)
EXTENDS Naturals

CONSTANTS
  NumWorkers,     \* worker lcores: 3 with -l 0-3
  Burst,          \* BURST_SIZE
  MaxPackets      \* bound: packets received by all lcores together

ASSUME WorkersAssumption == NumWorkers \in Nat
ASSUME BurstAssumption == Burst \in Nat /\ MaxPackets \in Nat

MainLcore == 0
Workers == 1..NumWorkers
LcoreIds == 0..NumWorkers

VARIABLES
  force_quit,
  mpc,            \* where main() is
  w,              \* lcore_id of main's loops over the workers
  wpc,            \* where each worker is in eal_thread_loop
  state, f,       \* lcore_config[].state and lcore_config[].f
  m2w, w2m,       \* bytes in the pipes to and from each worker
  lpc,            \* where each lcore is in lcore_main, "out" if not in it
  nb_rx, tmp,     \* its locals: the burst, and the word that += has loaded
  total_packets,
  received,       \* packets that rte_eth_rx_burst has returned so far
  calls           \* calls of lcore_main on each lcore so far

launch == <<w, wpc, state, f, m2w, w2m>>
loop == <<lpc, nb_rx, tmp, total_packets, received>>
vars == <<force_quit, mpc, launch, loop, calls>>

MainSteps == {"check", "send", "ack", "first", "launched",
              "second", "wait", "stats", "release", "close", "cleanup", "exit"}
WorkerSteps == {"read", "running", "ack", "load", "run", "clear", "done"}
LoopSteps == {"out", "test", "rx", "load", "store"}

TypeOK ==
  /\ force_quit \in BOOLEAN
  /\ mpc \in MainSteps
  /\ w \in 1..NumWorkers + 1
  /\ wpc \in [Workers -> WorkerSteps]
  /\ state \in [Workers -> {"WAIT", "RUNNING"}]
  /\ f \in [Workers -> {"NULL", "lcore_main"}]
  /\ m2w \in [Workers -> Nat] /\ w2m \in [Workers -> Nat]
  /\ lpc \in [LcoreIds -> LoopSteps]
  /\ nb_rx \in [LcoreIds -> 0..Burst]
  /\ tmp \in [LcoreIds -> Nat]
  /\ total_packets \in Nat /\ received \in Nat
  /\ calls \in [LcoreIds -> Nat]

\* Mutant: rte_eal_init does not wait for its dummy function.
InitUnsynced ==
  /\ force_quit = FALSE
  /\ mpc = "check" /\ w = 1
  /\ wpc = [k \in Workers |-> "done"]
  /\ state = [k \in Workers |-> "RUNNING"]
  /\ f = [k \in Workers |-> "NULL"]
  /\ m2w = [k \in Workers |-> 0] /\ w2m = [k \in Workers |-> 0]
  /\ lpc = [l \in LcoreIds |-> "out"]
  /\ nb_rx = [l \in LcoreIds |-> 0] /\ tmp = [l \in LcoreIds |-> 0]
  /\ total_packets = 0 /\ received = 0
  /\ calls = [l \in LcoreIds |-> 0]

\* rte_eal_init has launched and awaited a dummy function on every worker.
Init ==
  /\ force_quit = FALSE
  /\ mpc = "check" /\ w = 1
  /\ wpc = [k \in Workers |-> "read"]
  /\ state = [k \in Workers |-> "WAIT"]
  /\ f = [k \in Workers |-> "NULL"]
  /\ m2w = [k \in Workers |-> 0] /\ w2m = [k \in Workers |-> 0]
  /\ lpc = [l \in LcoreIds |-> "out"]
  /\ nb_rx = [l \in LcoreIds |-> 0] /\ tmp = [l \in LcoreIds |-> 0]
  /\ total_packets = 0 /\ received = 0
  /\ calls = [l \in LcoreIds |-> 0]

\* The process is gone once main() has returned.
Alive == mpc # "exit"

\* Whichever thread the kernel picks for the signal.
signal_handler ==
  /\ Alive
  /\ ~ force_quit
  /\ force_quit' = TRUE
  /\ UNCHANGED <<mpc, launch, loop, calls>>

-----------------------------------------------------------------------------
(* lcore_main, on any lcore *)

\* The call: whoever runs it adds this to its own step.
Enter(l) ==
  /\ lpc' = [lpc EXCEPT ![l] = "test"]
  /\ calls' = [calls EXCEPT ![l] = @ + 1]

\* lcore_main has returned and its caller goes on.
Leave(l) == lpc' = [lpc EXCEPT ![l] = "out"]

\* while (!force_quit)
LoopTest(l) ==
  /\ lpc[l] = "test"
  /\ ~ force_quit
  /\ lpc' = [lpc EXCEPT ![l] = "rx"]
  /\ UNCHANGED <<force_quit, mpc, launch, nb_rx, tmp, total_packets, received,
                 calls>>

\* rte_eth_rx_burst, with the continue when it returns 0.
RxBurst(l) ==
  /\ lpc[l] = "rx"
  /\ \E n \in 0..Burst :
       /\ received + n <= MaxPackets
       /\ nb_rx' = [nb_rx EXCEPT ![l] = n]
       /\ received' = received + n
       /\ lpc' = [lpc EXCEPT ![l] = IF n = 0 THEN "test" ELSE "load"]
  /\ UNCHANGED <<force_quit, mpc, launch, tmp, total_packets, calls>>

\* total_packets += nb_rx: an addition in memory without a lock prefix, that
\* is, a load and a store.
AddLoad(l) ==
  /\ lpc[l] = "load"
  /\ tmp' = [tmp EXCEPT ![l] = total_packets]
  /\ lpc' = [lpc EXCEPT ![l] = "store"]
  /\ UNCHANGED <<force_quit, mpc, launch, nb_rx, total_packets, received, calls>>

\* Mutant: += adds to the word as it is by now.
AddStoreTwice(l) ==
  /\ lpc[l] = "store"
  /\ total_packets' = total_packets + tmp[l] + nb_rx[l]
  /\ lpc' = [lpc EXCEPT ![l] = "test"]
  /\ UNCHANGED <<force_quit, mpc, launch, nb_rx, tmp, received, calls>>

AddStore(l) ==
  /\ lpc[l] = "store"
  /\ total_packets' = tmp[l] + nb_rx[l]
  /\ lpc' = [lpc EXCEPT ![l] = "test"]
  /\ UNCHANGED <<force_quit, mpc, launch, nb_rx, tmp, received, calls>>

LcoreMain(l) == LoopTest(l) \/ RxBurst(l) \/ AddLoad(l) \/ AddStore(l)

-----------------------------------------------------------------------------
(* eal_thread_loop of worker k *)

WorkerRead(k) ==
  /\ wpc[k] = "read"
  /\ m2w[k] > 0
  /\ m2w' = [m2w EXCEPT ![k] = @ - 1]
  /\ wpc' = [wpc EXCEPT ![k] = "running"]
  /\ UNCHANGED <<force_quit, mpc, w, state, f, w2m, loop, calls>>

\* Mutant: the acknowledgement is written before the state.
WorkerRunningLate(k) ==
  /\ wpc[k] = "running"
  /\ wpc' = [wpc EXCEPT ![k] = "ack"]
  /\ UNCHANGED <<force_quit, mpc, w, state, f, m2w, w2m, loop, calls>>

WorkerRunning(k) ==
  /\ wpc[k] = "running"
  /\ state' = [state EXCEPT ![k] = "RUNNING"]
  /\ wpc' = [wpc EXCEPT ![k] = "ack"]
  /\ UNCHANGED <<force_quit, mpc, w, f, m2w, w2m, loop, calls>>

WorkerAck(k) ==
  /\ wpc[k] = "ack"
  /\ w2m' = [w2m EXCEPT ![k] = @ + 1]
  /\ wpc' = [wpc EXCEPT ![k] = "load"]
  /\ UNCHANGED <<force_quit, mpc, w, state, f, m2w, loop, calls>>

\* Spins until f is visible, then calls it.
WorkerCall(k) ==
  /\ wpc[k] = "load"
  /\ f[k] # "NULL"
  /\ wpc' = [wpc EXCEPT ![k] = "run"]
  /\ Enter(k)
  /\ UNCHANGED <<force_quit, mpc, w, state, f, m2w, w2m, nb_rx, tmp,
                 total_packets, received>>

WorkerReturn(k) ==
  /\ wpc[k] = "run"
  /\ lpc[k] = "test" /\ force_quit
  /\ Leave(k)
  /\ wpc' = [wpc EXCEPT ![k] = "clear"]
  /\ UNCHANGED <<force_quit, mpc, w, state, f, m2w, w2m, nb_rx, tmp,
                 total_packets, received, calls>>

WorkerClear(k) ==
  /\ wpc[k] = "clear"
  /\ f' = [f EXCEPT ![k] = "NULL"]
  /\ wpc' = [wpc EXCEPT ![k] = "done"]
  /\ UNCHANGED <<force_quit, mpc, w, state, m2w, w2m, loop, calls>>

WorkerDone(k) ==
  /\ wpc[k] = "done"
  /\ state' = [state EXCEPT ![k] = "WAIT"]
  /\ wpc' = [wpc EXCEPT ![k] = "read"]
  /\ UNCHANGED <<force_quit, mpc, w, f, m2w, w2m, loop, calls>>

Worker(k) ==
  \/ WorkerRead(k) \/ WorkerRunning(k) \/ WorkerAck(k) \/ WorkerCall(k)
  \/ WorkerReturn(k) \/ WorkerClear(k) \/ WorkerDone(k)

-----------------------------------------------------------------------------
(* main() from the launch on *)

\* rte_eal_mp_remote_launch: -EBUSY, which main ignores, unless all wait.
LaunchCheck ==
  /\ mpc = "check"
  /\ mpc' = IF \A k \in Workers : state[k] = "WAIT" THEN "send" ELSE "launched"
  /\ UNCHANGED <<force_quit, launch, loop, calls>>

\* rte_eal_remote_launch up to the write of its command; it returns -EBUSY,
\* which its caller ignores, when the worker does not wait.
RemoteLaunch ==
  /\ mpc = "send" /\ w <= NumWorkers
  /\ IF state[w] = "WAIT"
       THEN /\ f' = [f EXCEPT ![w] = "lcore_main"]
            /\ m2w' = [m2w EXCEPT ![w] = @ + 1]
            /\ mpc' = "ack"
            /\ UNCHANGED w
       ELSE /\ w' = w + 1
            /\ UNCHANGED <<f, m2w, mpc>>
  /\ UNCHANGED <<force_quit, wpc, state, w2m, loop, calls>>

\* Mutant: the launch does not wait for the worker.
LaunchAckUnread ==
  /\ mpc = "ack"
  /\ w' = w + 1
  /\ mpc' = "send"
  /\ UNCHANGED <<force_quit, wpc, state, f, m2w, w2m, loop, calls>>

\* rte_eal_remote_launch: wait ack.
LaunchAck ==
  /\ mpc = "ack"
  /\ w2m[w] > 0
  /\ w2m' = [w2m EXCEPT ![w] = @ - 1]
  /\ w' = w + 1
  /\ mpc' = "send"
  /\ UNCHANGED <<force_quit, wpc, state, f, m2w, loop, calls>>

\* CALL_MAIN: f on the main lcore too.
CallMain ==
  /\ mpc = "send" /\ w > NumWorkers
  /\ mpc' = "first"
  /\ Enter(MainLcore)
  /\ UNCHANGED <<force_quit, launch, nb_rx, tmp, total_packets, received>>

FirstReturn ==
  /\ mpc = "first"
  /\ lpc[MainLcore] = "test" /\ force_quit
  /\ Leave(MainLcore)
  /\ mpc' = "launched"
  /\ UNCHANGED <<force_quit, launch, nb_rx, tmp, total_packets, received, calls>>

\* "Run on main core too"
SecondCall ==
  /\ mpc = "launched"
  /\ mpc' = "second"
  /\ Enter(MainLcore)
  /\ UNCHANGED <<force_quit, launch, nb_rx, tmp, total_packets, received>>

SecondReturn ==
  /\ mpc = "second"
  /\ lpc[MainLcore] = "test" /\ force_quit
  /\ Leave(MainLcore)
  /\ mpc' = "wait" /\ w' = 1
  /\ UNCHANGED <<force_quit, wpc, state, f, m2w, w2m, nb_rx, tmp,
                 total_packets, received, calls>>

\* Mutant: waits for a second acknowledgement.
WaitLcoreAck ==
  /\ mpc = "wait" /\ w <= NumWorkers
  /\ state[w] = "WAIT" /\ w2m[w] > 0
  /\ w' = w + 1
  /\ UNCHANGED <<force_quit, mpc, wpc, state, f, m2w, w2m, loop, calls>>

\* rte_eal_wait_lcore of each worker in turn; lcore_main never returns < 0.
WaitLcore ==
  /\ mpc = "wait" /\ w <= NumWorkers
  /\ state[w] = "WAIT"
  /\ w' = w + 1
  /\ UNCHANGED <<force_quit, mpc, wpc, state, f, m2w, w2m, loop, calls>>

WaitEnd ==
  /\ mpc = "wait" /\ w > NumWorkers
  /\ mpc' = "stats"
  /\ UNCHANGED <<force_quit, launch, loop, calls>>

\* printf of the statistics, rte_kni_release, close, rte_eal_cleanup, return.
After == [stats |-> "release", release |-> "close", close |-> "cleanup",
          cleanup |-> "exit"]

Cleanup ==
  /\ mpc \in DOMAIN After
  /\ mpc' = After[mpc]
  /\ UNCHANGED <<force_quit, launch, loop, calls>>

Main ==
  \/ LaunchCheck \/ RemoteLaunch \/ LaunchAck \/ CallMain \/ FirstReturn
  \/ SecondCall \/ SecondReturn \/ WaitLcore \/ WaitEnd \/ Cleanup

Next ==
  \/ signal_handler
  \/ Main
  \/ Alive /\ \E k \in Workers : Worker(k)
  \/ Alive /\ \E l \in LcoreIds : LcoreMain(l)

Spec == Init /\ [][Next]_vars

\* Each thread keeps running: the workers are pinned to a CPU of their own and
\* never block but in the pipes, and so is main.  Nobody has to send a signal,
\* and no packet has to come (RxBurst then returns 0).
FairSpec ==
  /\ Spec
  /\ WF_vars(Main)
  /\ \A k \in Workers : WF_vars(Alive /\ Worker(k))
  /\ \A l \in LcoreIds : WF_vars(Alive /\ LcoreMain(l))

-----------------------------------------------------------------------------
(* Properties *)

ShuttingDown == mpc \in {"stats", "release", "close", "cleanup", "exit"}

\* What main and worker k know of each other.  A worker that has not been told
\* to run, or has been waited for, is at its read with an empty pipe; from the
\* write of its command until its acknowledgement only main waits; a worker
\* that waits again has finished its only call.
Told(k) == mpc # "check" /\ (mpc # "send" \/ k < w) /\ (mpc # "ack" \/ k <= w)

Pair(k) ==
  /\ state[k] = "RUNNING" <=> wpc[k] \in {"ack", "load", "run", "clear", "done"}
  /\ m2w[k] \in {0, 1} /\ w2m[k] \in {0, 1}
  /\ m2w[k] = 1 => wpc[k] = "read"
  /\ lpc[k] = "out" <=> wpc[k] # "run"
  /\ f[k] # "NULL" <=> (m2w[k] = 1 \/ wpc[k] \in {"running", "ack", "load", "run", "clear"})
  /\ calls[k] = IF Told(k) /\ m2w[k] = 0
                  /\ wpc[k] \notin {"running", "ack", "load"}
                THEN 1 ELSE 0
  /\ ~ Told(k) => wpc[k] = "read" /\ m2w[k] = 0 /\ w2m[k] = 0
  /\ IF mpc = "ack" /\ k = w
       THEN w2m[k] = 1 <=> ~ (m2w[k] = 1 \/ wpc[k] \in {"running", "ack"})
       ELSE w2m[k] = 0 /\ m2w[k] = 0 /\ wpc[k] \notin {"running", "ack"}
  /\ ShuttingDown \/ (mpc = "wait" /\ k < w) => wpc[k] = "read"

MainShape ==
  /\ mpc = "check" => w = 1
  /\ mpc = "ack" => w <= NumWorkers
  /\ mpc \in {"first", "launched", "second"} \/ ShuttingDown => w = NumWorkers + 1
  /\ lpc[MainLcore] = "out" <=> mpc \notin {"first", "second"}
  /\ mpc \in {"launched", "second", "wait"} \/ ShuttingDown => force_quit
  /\ mpc = "second" => lpc[MainLcore] = "test"

\* The inductive invariant of launch, run and shutdown.
LcoresInv == TypeOK /\ MainShape /\ \A k \in Workers : Pair(k)

\* When main prints the statistics, releases the KNI interface, closes the
\* descriptors and cleans up the EAL, no worker is in lcore_main, nor has one
\* still to enter it: the handshake of rte_eal_remote_launch guarantees that
\* rte_eal_wait_lcore cannot mistake a worker that has not started yet for one
\* that has finished.
CleanupAlone ==
  ShuttingDown => \A k \in Workers : /\ lpc[k] = "out"
                                      /\ wpc[k] = "read" /\ m2w[k] = 0

\* The second call of lcore_main on the main lcore receives nothing: the first
\* one, made by rte_eal_mp_remote_launch, ends only when force_quit is set.
SecondCallIdle == mpc = "second" => lpc[MainLcore] = "test"

\* The results of the launch calls can be ignored: every worker runs
\* lcore_main, and runs it once, before main goes on to the cleanup.
EveryWorkerRuns == ShuttingDown => \A k \in Workers : calls[k] = 1

\* A signal ends the program, at whatever point of launch or run it arrives.
QuitExits == force_quit ~> mpc = "exit"

\* What lcore l has received and not yet added to total_packets.
Unadded(l) == IF lpc[l] \in {"load", "store"} THEN nb_rx[l] ELSE 0

\* s[l] is the sum of Unadded over the lcores below l.
PartialSums(s) ==
  /\ s[0] = 0
  /\ \A l \in LcoreIds : s[l + 1] = s[l] + Unadded(l)
  /\ \A j, k \in 0..NumWorkers + 1 : j <= k => s[j] <= s[k]

\* Why lost updates lose counts and never invent them: neither total_packets nor
\* a value loaded from it, which may be stored at any later time, ever reaches
\* into what the lcores have still to add.
StatsInv ==
  /\ \E s \in [0..NumWorkers + 1 -> 0..received] :
       /\ PartialSums(s)
       /\ total_packets + s[NumWorkers + 1] <= received
       /\ \A l \in LcoreIds : lpc[l] = "store" => tmp[l] + s[NumWorkers + 1] <= received
  /\ \A l \in LcoreIds : lpc[l] \in {"load", "store"} => nb_rx[l] > 0
  /\ received > 0 =>
       total_packets > 0 \/ \E l \in LcoreIds : lpc[l] \in {"load", "store"}

\* The unlocked total_packets may lose updates, but it never counts a packet that
\* was not received, and it is not 0 if any was.
StatsBound ==
  mpc = "stats" => total_packets <= received /\ (received > 0 => total_packets > 0)
=============================================================================
