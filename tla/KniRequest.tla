----------------------------- MODULE KniRequest -----------------------------
(***************************************************************************)
(* The control path of a KNI interface.  A kernel task that changes the    *)
(* interface (ip link set ... mtu, up, down, address) asks the process     *)
(* through req_q, waits for resp_q for three seconds and copies the        *)
(* result; the process answers from rte_kni_handle_request.  There is one  *)
(* request buffer per interface, sync_addr, and every entry of req_q and   *)
(* of resp_q is the address of that buffer, so the queues are counters.    *)
(*                                                                         *)
(* dev is what the kernel holds of the interface, port what the process's  *)
(* callbacks have applied, both by the id of the request that changes it.  *)
(* A request without a callback is answered and applied to nothing.        *)
(***************************************************************************)
EXTENDS Integers, FiniteSets

CONSTANTS
  Tasks,          \* kernel tasks
  Commands,       \* ids of the requests they make
  CallbackSets,   \* for each process, the ids for which it has a callback of its
                  \* own or the library a default one
  FifoLen,        \* length of a KNI FIFO
  Modes,          \* how process and kernel module are set up
  MaxRequests     \* bound: requests made

CommandIds == {"CHANGE_MTU", "CFG_NETWORK_IF", "CHANGE_MAC_ADDR",
               "CHANGE_PROMISC", "CHANGE_ALLMULTI"}

ASSUME CommandAssumption == 
  Commands \subseteq CommandIds /\ CallbackSets \subseteq SUBSET CommandIds

\* The process calls rte_kni_handle_request (main.c does not); its callbacks need
\* the rtnl mutex; bifurcated_support; the requests it has callbacks for: main.c
\* leaves change_mtu and config_network_if NULL and gives a port_id, hence has
\* the library's three defaults.
AllModes == [handles : BOOLEAN, needs_rtnl : BOOLEAN, bifurcated : BOOLEAN,
             callbacks : CallbackSets]
ASSUME ModeAssumption == Modes \subseteq AllModes
ASSUME BoundAssumption == FifoLen \in Nat /\ FifoLen >= 2 /\ MaxRequests \in Nat

Args == {0, 1}         \* two sizes, two addresses, off and on
EINVAL == -22          \* what a callback that refuses returns
Results == {0, EINVAL}
Undecided == 1         \* the process has not called back for a request yet
EBUSY == -16
ENODATA == -61
ETIME == -62

Nobody == "nobody"
ASSUME NobodyAssumption == Nobody \notin Tasks

\* struct rte_kni_request; no numbers the requests and is not in the code.
Request == [req_id : CommandIds, arg : Args, async : BOOLEAN, result : Results,
            no : 0..MaxRequests]

VARIABLES
  mode,
  rtnl, sync_lock,     \* the holders of the two mutexes
  sync,                \* the request buffer
  req_q, resp_q,       \* entries in the two FIFOs
  kpc, req, ret,       \* each task: its step, its request, its return code
  dev, port,
  hpc, hreq, hres,     \* the process: its step, what it has read, the result
  made,                \* requests made so far
  verdict,             \* what the process decided on each request
  late                 \* history: some request was given up or not waited for

locks == <<mode, rtnl, sync_lock>>
queues == <<sync, req_q, resp_q>>
task == <<kpc, req, ret>>
process == <<hpc, hreq, hres>>
history == <<made, verdict, late>>
vars == <<locks, queues, task, dev, port, process, history>>

Handles == mode.handles
NeedsRtnl == mode.needs_rtnl
Bifurcated == mode.bifurcated
Callbacks == mode.callbacks

NoRequest == [req_id |-> "CFG_NETWORK_IF", arg |-> 0, async |-> FALSE,
              result |-> 0, no |-> 0]

\* The interface has just been created and is down, or a process that answers
\* has brought it up.
Init ==
  /\ mode \in Modes
  /\ rtnl = Nobody /\ sync_lock = Nobody
  /\ sync = NoRequest /\ req_q = 0 /\ resp_q = 0
  /\ kpc = [t \in Tasks |-> "idle"]
  /\ req = [t \in Tasks |-> NoRequest] /\ ret = [t \in Tasks |-> 0]
  /\ \E a \in Args :
       /\ a = 1 => Handles
       /\ dev = [c \in CommandIds |-> IF c = "CFG_NETWORK_IF" THEN a ELSE 0]
       /\ port = [c \in CommandIds |-> IF c \in Callbacks THEN dev[c] ELSE 0]
  /\ hpc = "idle" /\ hreq = NoRequest /\ hres = 0
  /\ made = 0
  /\ verdict = [n \in 1..MaxRequests |-> Undecided]
  /\ late = FALSE

-----------------------------------------------------------------------------
(* The kernel task t *)

\* kni_net_set_mac copies the address, and the network core sets the flags of
\* kni_net_change_rx_flags, before the process is asked.
SetBefore == {"CHANGE_MAC_ADDR", "CHANGE_PROMISC", "CHANGE_ALLMULTI"}

\* Only bringing the interface down does not wait, and only with bifurcated
\* devices.
IsAsync(c, a) == Bifurcated /\ c = "CFG_NETWORK_IF" /\ a = 0

\* The head of kni_net_open, kni_net_release, kni_net_change_mtu,
\* kni_net_set_mac and kni_net_change_rx_flags, called under rtnl, and the
\* rtnl_unlock of kni_net_process_request.  The network core brings up only
\* what is down, and the like.
Ask(t) ==
  /\ kpc[t] = "idle"
  /\ rtnl = Nobody
  /\ made < MaxRequests
  /\ \E c \in Commands, a \in Args :
       /\ dev[c] # a
       /\ req' = [req EXCEPT ![t] = [req_id |-> c, arg |-> a, result |-> 0,
                                     async |-> IsAsync(c, a), no |-> made + 1]]
       /\ dev' = IF c \in SetBefore THEN [dev EXCEPT ![c] = a] ELSE dev
       /\ rtnl' = IF Bifurcated /\ ~ IsAsync(c, a) THEN Nobody ELSE t
       /\ late' = (late \/ IsAsync(c, a))
  /\ ret' = [ret EXCEPT ![t] = -1]
  /\ made' = made + 1
  /\ kpc' = [kpc EXCEPT ![t] = "lock"]
  /\ UNCHANGED <<mode, sync_lock, queues, port, process, verdict>>

Goto(t, step) == kpc' = [kpc EXCEPT ![t] = step]

\* Mutant: no mutex_lock(&kni->sync_lock).
LockMissing(t) ==
  /\ kpc[t] = "lock"
  /\ sync_lock' = t
  /\ Goto(t, "fill")
  /\ UNCHANGED <<mode, rtnl, queues, req, ret, dev, port, process, history>>

Lock(t) ==
  /\ kpc[t] = "lock"
  /\ sync_lock = Nobody
  /\ sync_lock' = t
  /\ Goto(t, "fill")
  /\ UNCHANGED <<mode, rtnl, queues, req, ret, dev, port, process, history>>

\* Construct data.
Fill(t) ==
  /\ kpc[t] = "fill"
  /\ sync' = req[t]
  /\ Goto(t, "put")
  /\ UNCHANGED <<locks, req_q, resp_q, req, ret, dev, port, process, history>>

\* Mutant: req_q is not looked at for room.
PutUnchecked(t) ==
  /\ kpc[t] = "put"
  /\ req_q' = req_q + 1
  /\ ret' = [ret EXCEPT ![t] = IF req[t].async THEN 0 ELSE @]
  /\ Goto(t, IF req[t].async THEN "unlock" ELSE "wait")
  /\ UNCHANGED <<locks, sync, resp_q, req, dev, port, process, history>>

\* kni_fifo_put into req_q: -EBUSY when it is full, and no waiting for an
\* asynchronous request.
Put(t) ==
  /\ kpc[t] = "put"
  /\ IF req_q < FifoLen - 1
       THEN /\ req_q' = req_q + 1
            /\ ret' = [ret EXCEPT ![t] = IF req[t].async THEN 0 ELSE @]
            /\ Goto(t, IF req[t].async THEN "unlock" ELSE "wait")
       ELSE /\ ret' = [ret EXCEPT ![t] = EBUSY]
            /\ Goto(t, "unlock")
            /\ UNCHANGED req_q
  /\ UNCHANGED <<locks, sync, resp_q, req, dev, port, process, history>>

\* Mutant: the task does not wait for an entry.
WaitOverAtOnce(t) ==
  /\ kpc[t] = "wait"
  /\ Goto(t, "get")
  /\ UNCHANGED <<locks, queues, req, ret, dev, port, process, history>>

\* wait_event_interruptible_timeout sees an entry of resp_q: at once, when
\* kni_net_poll_resp of the kernel thread wakes the task, or at the end.
WaitOver(t) ==
  /\ kpc[t] = "wait"
  /\ resp_q > 0
  /\ Goto(t, "get")
  /\ UNCHANGED <<locks, queues, req, ret, dev, port, process, history>>

\* Mutant: the timeout returns without the unlock.
ExpireReturns(t) ==
  /\ kpc[t] = "wait"
  /\ resp_q = 0
  /\ ret' = [ret EXCEPT ![t] = ETIME]
  /\ late' = TRUE
  /\ Goto(t, "relock")
  /\ UNCHANGED <<locks, queues, req, dev, port, process, made, verdict>>

\* Three seconds without an answer.
Expire(t) ==
  /\ kpc[t] = "wait"
  /\ resp_q = 0
  /\ ret' = [ret EXCEPT ![t] = ETIME]
  /\ late' = TRUE
  /\ Goto(t, "unlock")
  /\ UNCHANGED <<locks, queues, req, dev, port, process, made, verdict>>

\* signal_pending, even if there is an answer by now.
Interrupt(t) ==
  /\ kpc[t] = "wait"
  /\ ret' = [ret EXCEPT ![t] = ETIME]
  /\ late' = TRUE
  /\ Goto(t, "unlock")
  /\ UNCHANGED <<locks, queues, req, dev, port, process, made, verdict>>

GetAnswer(t) ==
  /\ kpc[t] = "get"
  /\ IF resp_q > 0
       THEN /\ resp_q' = resp_q - 1
            /\ Goto(t, "copy")
            /\ UNCHANGED ret
       ELSE /\ ret' = [ret EXCEPT ![t] = ENODATA]
            /\ Goto(t, "unlock")
            /\ UNCHANGED resp_q
  /\ UNCHANGED <<locks, sync, req_q, req, dev, port, process, history>>

\* memcpy of the buffer into the task's request.
Copy(t) ==
  /\ kpc[t] = "copy"
  /\ req' = [req EXCEPT ![t] = sync]
  /\ ret' = [ret EXCEPT ![t] = 0]
  /\ Goto(t, "unlock")
  /\ UNCHANGED <<locks, queues, dev, port, process, history>>

Unlock(t) ==
  /\ kpc[t] = "unlock"
  /\ sync_lock' = Nobody
  /\ Goto(t, "relock")
  /\ UNCHANGED <<mode, rtnl, queues, req, ret, dev, port, process, history>>

\* rtnl_lock again, if it was dropped.
Relock(t) ==
  /\ kpc[t] = "relock"
  /\ rtnl \in {Nobody, t}
  /\ rtnl' = t
  /\ Goto(t, "finish")
  /\ UNCHANGED <<mode, sync_lock, queues, req, ret, dev, port, process, history>>

\* Mutant: the result of the callback is not looked at.
SuccessOfCall(t) == ret[t] = 0

Success(t) == ret[t] = 0 /\ req[t].result = 0

\* The callers' tails: the MTU is set, and the network core marks the
\* interface up, only after success; it marks it down in any case.
Finish(t) ==
  /\ kpc[t] = "finish"
  /\ LET c == req[t].req_id
         a == req[t].arg
         set == \/ c = "CHANGE_MTU" /\ Success(t)
                \/ c = "CFG_NETWORK_IF" /\ (Success(t) \/ a = 0)
     IN  dev' = IF set THEN [dev EXCEPT ![c] = a] ELSE dev
  /\ rtnl' = Nobody
  /\ Goto(t, "idle")
  /\ UNCHANGED <<mode, sync_lock, queues, req, ret, port, process, history>>

Task(t) ==
  \/ Lock(t) \/ Fill(t) \/ Put(t) \/ WaitOver(t) \/ Expire(t) \/ GetAnswer(t)
  \/ Copy(t) \/ Unlock(t) \/ Relock(t) \/ Finish(t)

-----------------------------------------------------------------------------
(* rte_kni_handle_request, called again and again by one thread *)

HandleGet ==
  /\ Handles
  /\ hpc = "idle"
  /\ req_q > 0
  /\ req_q' = req_q - 1
  /\ hpc' = "switch"
  /\ UNCHANGED <<locks, sync, resp_q, task, dev, port, hreq, hres, history>>

\* switch (req->req_id)
HandleSwitch ==
  /\ hpc = "switch"
  /\ hreq' = sync
  /\ hpc' = "call"
  /\ UNCHANGED <<locks, queues, task, dev, port, hres, history>>

\* The argument is read from the buffer for the call, the request id was read
\* before.  Without a callback nothing is called, the port stays as it is and the
\* result is the one in the buffer.
HandleCall ==
  /\ hpc = "call"
  /\ \/ /\ hreq.req_id \in Callbacks
        /\ NeedsRtnl => rtnl = Nobody
        /\ hres' \in Results
        /\ port' = IF hres' = 0 THEN [port EXCEPT ![hreq.req_id] = sync.arg] ELSE port
     \/ /\ hreq.req_id \notin Callbacks
        /\ hres' = sync.result
        /\ UNCHANGED port
  /\ verdict' = IF hreq.req_id = sync.req_id
                  THEN [verdict EXCEPT ![sync.no] = hres'] ELSE verdict
  /\ hpc' = "store"
  /\ UNCHANGED <<locks, queues, task, dev, hreq, made, late>>

\* req->result = ...
HandleStore ==
  /\ hpc = "store"
  /\ sync' = IF hreq.req_id \in Callbacks THEN [sync EXCEPT !.result = hres] ELSE sync
  /\ hpc' = "reply"
  /\ UNCHANGED <<locks, req_q, resp_q, task, dev, port, hreq, hres, history>>

\* The answer, unless the request is asynchronous; it is lost if resp_q is full.
HandleReply ==
  /\ hpc = "reply"
  /\ resp_q' = IF ~ sync.async /\ resp_q < FifoLen - 1 THEN resp_q + 1 ELSE resp_q
  /\ hpc' = "idle"
  /\ UNCHANGED <<locks, sync, req_q, task, dev, port, hreq, hres, history>>

Handle == HandleGet \/ HandleSwitch \/ HandleCall \/ HandleStore \/ HandleReply

Next ==
  \/ \E t \in Tasks : Ask(t) \/ Task(t) \/ Interrupt(t)
  \/ Handle

Spec == Init /\ [][Next]_vars

\* A task that has called into the module keeps running, its timer expires, and
\* the kernel's mutexes are handed on in order (hence strong fairness).  A
\* process that answers keeps calling rte_kni_handle_request.  Nobody has to
\* make a request or to send a signal.
FairSpec ==
  /\ Spec
  /\ \A t \in Tasks : SF_vars(Task(t))
  /\ SF_vars(Handle)

-----------------------------------------------------------------------------
(* Properties *)

Busy(t) == kpc[t] # "idle"

TypeOK ==
  /\ mode \in AllModes /\ late \in BOOLEAN
  /\ rtnl \in Tasks \cup {Nobody} /\ sync_lock \in Tasks \cup {Nobody}
  /\ sync \in Request
  /\ req_q \in 0..FifoLen - 1 /\ resp_q \in 0..FifoLen - 1
  /\ kpc \in [Tasks -> {"idle", "lock", "fill", "put", "wait", "get", "copy",
                        "unlock", "relock", "finish"}]
  /\ req \in [Tasks -> Request]
  /\ ret \in [Tasks -> {0, -1, EBUSY, ENODATA, ETIME}]
  /\ dev \in [CommandIds -> Args] /\ port \in [CommandIds -> Args]
  /\ hpc \in {"idle", "switch", "call", "store", "reply"}
  /\ hreq \in Request /\ hres \in Results
  /\ made \in 0..MaxRequests
  /\ verdict \in [1..MaxRequests -> {0, EINVAL, Undecided}]

\* "This should never happen": a task that was woken because resp_q holds an
\* answer finds it there, whoever else waits, times out or answers.
GetFindsAnswer == \A t \in Tasks : kpc[t] = "get" => resp_q > 0

\* The code cannot tell a late answer from the one it waits for, nor does it keep
\* an asynchronous request from being overwritten: what follows holds as long as
\* no request was given up and all were waited for, however many tasks compete.
Reliable == ~ late

\* Success and failure are the process's own: what a waiting caller is told is
\* what was decided on this very request, not on an earlier one or another task's.
AnswerIsOwn ==
  Reliable => \A t \in Tasks : kpc[t] = "finish" /\ ret[t] = 0 /\ ~ req[t].async =>
    verdict[req[t].no] = req[t].result

\* Requests are made one at a time, rtnl being held over the answer.
OneAtATime == Reliable /\ ~ Bifurcated

\* The MTU is the same on both sides; an interface that is up has been brought up.
MtuAgrees == dev["CHANGE_MTU"] = port["CHANGE_MTU"]
LinkAgrees == dev["CFG_NETWORK_IF"] = 1 => port["CFG_NETWORK_IF"] = 1

\* Between requests the kernel's view agrees with what the process has done to
\* the port, whatever requests were refused on the way: in all that a process
\* that answers has callbacks for (for the rest the kernel is told success and
\* nothing is done), and in everything if the process never answers, as that of
\* main.c, whose interface therefore stays down.
DeviceAgrees ==
  (OneAtATime \/ ~ Handles) /\ (\A t \in Tasks : ~ Busy(t)) /\ hpc = "idle"
  /\ (Handles => req_q = 0) =>
    /\ "CHANGE_MTU" \in Callbacks \/ ~ Handles => MtuAgrees
    /\ "CFG_NETWORK_IF" \in Callbacks \/ ~ Handles => LinkAgrees

\* The one buffer does not change under the process's hands: from the moment it
\* looks at a request until it answers, the id, the argument and the result
\* belong to the same request.
BufferIsStable ==
  Reliable /\ hpc \in {"call", "store", "reply"} => sync.no = hreq.no

\* Who holds the two mutexes, and which numbers and ids can be about.
Locks ==
  /\ \A t \in Tasks :
       /\ sync_lock = t <=> kpc[t] \in {"fill", "put", "wait", "get", "copy", "unlock"}
       /\ kpc[t] = "finish" => rtnl = t
       /\ ~ Bifurcated => (rtnl = t <=> Busy(t))
       /\ req[t].no <= made
       /\ req[t].async => Bifurcated /\ req[t].req_id = "CFG_NETWORK_IF" /\ req[t].arg = 0
  /\ sync.no <= made
  /\ sync.async => Bifurcated /\ sync.req_id = "CFG_NETWORK_IF" /\ sync.arg = 0
  /\ \A n \in 1..MaxRequests : n > made => verdict[n] = Undecided

SameRequest(r, s) == r.no = s.no /\ r.req_id = s.req_id /\ r.arg = s.arg

\* The one request that is under way: in req_q, in the hands of the process or
\* answered.
Waiting(t) ==
  /\ SameRequest(sync, req[t])
  /\ req_q + resp_q + (IF hpc = "idle" THEN 0 ELSE 1) = 1
  /\ hpc \in {"call", "store", "reply"} => SameRequest(hreq, sync)
  /\ hpc = "store" => verdict[sync.no] = hres
                      /\ (hreq.req_id \notin Callbacks => hres = sync.result)
  /\ IF hpc \in {"store", "reply"} \/ resp_q = 1
       THEN hpc # "store" => verdict[sync.no] = sync.result
       ELSE verdict[sync.no] = Undecided

\* The exchange of t as long as no request was given up and all are waited for.
Exchanging(t) ==
  /\ ~ req[t].async
  /\ Busy(t) => req[t].no >= 1
  /\ kpc[t] \in {"lock", "fill", "put"} => verdict[req[t].no] = Undecided
  /\ kpc[t] = "put" => sync = req[t]
  /\ kpc[t] \in {"wait", "get"} => Waiting(t)
  /\ kpc[t] = "copy" => SameRequest(sync, req[t]) /\ verdict[sync.no] = sync.result
  /\ kpc[t] \in {"unlock", "relock", "finish"} =>
       ret[t] = 0 /\ verdict[req[t].no] = req[t].result

\* The exchanges of all tasks.
Exchange ==
  /\ ~ sync.async
  /\ \A t \in Tasks : Exchanging(t)
  /\ \A s, t \in Tasks : Busy(s) /\ Busy(t) /\ s # t => req[s].no # req[t].no
  /\ (\A t \in Tasks : kpc[t] \notin {"wait", "get"}) =>
       req_q = 0 /\ resp_q = 0 /\ hpc = "idle"

\* The process has granted t a change that the kernel is still to make.
Granted(t) == Busy(t) /\ verdict[req[t].no] = 0

\* Kernel and process agree on what the process has a callback for, except for a
\* change that was just granted and that the port has already.
Agreement ==
  /\ \A t \in Tasks : Granted(t) /\ req[t].req_id \in Callbacks =>
       port[req[t].req_id] = req[t].arg
  /\ "CHANGE_MTU" \in Callbacks
     /\ (\A t \in Tasks : ~ (Granted(t) /\ req[t].req_id = "CHANGE_MTU")) => MtuAgrees
  /\ "CFG_NETWORK_IF" \in Callbacks
     /\ (\A t \in Tasks : ~ (Granted(t) /\ req[t].req_id = "CFG_NETWORK_IF"))
       => LinkAgrees

\* A process that never answers.
Silence ==
  /\ hpc = "idle" /\ resp_q = 0
  /\ \A t \in Tasks : kpc[t] # "copy"
  /\ \A t \in Tasks :
       kpc[t] \in {"unlock", "relock", "finish"} /\ ret[t] = 0 => req[t].async
  /\ dev["CFG_NETWORK_IF"] = 0 /\ MtuAgrees

\* The inductive invariant of the control path.
RequestInv ==
  /\ TypeOK
  /\ Locks
  /\ GetFindsAnswer
  /\ Reliable => Exchange
  /\ OneAtATime => Agreement
  /\ ~ Handles => Silence

\* A call that changes the interface returns, whether the process answers, is
\* late or does not answer at all, and although the task may hold rtnl and
\* waits for sync_lock, other tasks and the process.
RequestReturns == \A t \in Tasks : kpc[t] = "lock" ~> kpc[t] = "idle"
=============================================================================
