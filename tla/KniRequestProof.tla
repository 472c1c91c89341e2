-------------------------- MODULE KniRequestProof ---------------------------
(***************************************************************************)
(* The control path for any number of tasks and requests.  Whatever times  *)
(* out, is interrupted or asynchronous, a woken task finds an answer; and  *)
(* as long as nothing of the kind happens every caller gets the answer to  *)
(* its own request and kernel and process agree.                           *)
(***************************************************************************)
EXTENDS KniRequest, TLAPS

\* The assumptions on the constants.
LEMMA Consts ==
  /\ Nobody \notin Tasks /\ MaxRequests \in Nat /\ FifoLen \in Nat /\ FifoLen >= 2
BY NobodyAssumption, BoundAssumption

\* The parts of the mode.
LEMMA ModeTypes ==
  ASSUME TypeOK
  PROVE  Handles \in BOOLEAN /\ NeedsRtnl \in BOOLEAN /\ Bifurcated \in BOOLEAN
BY DEF TypeOK, AllModes, Handles, NeedsRtnl, Bifurcated

LEMMA ModeStays ==
  ASSUME mode' = mode
  PROVE  Handles' = Handles /\ Bifurcated' = Bifurcated /\ Callbacks' = Callbacks
BY DEF Handles, Bifurcated, Callbacks

\* The parts of the invariant.
LEMMA Parts ==
  ASSUME RequestInv
  PROVE  /\ TypeOK /\ Locks /\ GetFindsAnswer
         /\ Reliable => Exchange
         /\ OneAtATime => Agreement
         /\ ~ Handles => Silence
         /\ Handles \in BOOLEAN /\ NeedsRtnl \in BOOLEAN /\ Bifurcated \in BOOLEAN
BY ModeTypes DEF RequestInv

\* Without bifurcated devices rtnl keeps all tasks but one out.
LEMMA OneBusy ==
  ASSUME RequestInv, ~ Bifurcated, NEW s \in Tasks, NEW t \in Tasks, Busy(s), Busy(t)
  PROVE  s = t
BY Parts DEF Locks

\* The steps at which a task holds sync_lock; one task at most does.
Inside == {"fill", "put", "wait", "get", "copy", "unlock"}

LEMMA OneInside ==
  ASSUME RequestInv, NEW s \in Tasks, NEW t \in Tasks, kpc[s] \in Inside, kpc[t] \in Inside
  PROVE  s = t
BY Parts DEF Locks, Inside

\* While a request is in req_q or with the process, its task waits.
LEMMA OneWaits ==
  ASSUME RequestInv, Reliable, hpc # "idle" \/ req_q > 0
  PROVE  \E t \in Tasks : kpc[t] = "wait" /\ Busy(t) /\ Waiting(t)
<1>1. PICK t \in Tasks : kpc[t] \in {"wait", "get"}
  BY Parts DEF Exchange, TypeOK
<1>2. Waiting(t)
  BY <1>1, Parts DEF Exchange, Exchanging
<1>3. resp_q = 0
  BY <1>2, Parts DEF Waiting, TypeOK
<1>4. kpc[t] = "wait"
  BY <1>1, <1>3, Parts DEF GetFindsAnswer
<1> QED
  BY <1>2, <1>4 DEF Busy

\* The interface has been created, nobody has asked for anything.
LEMMA InitHolds ==
  ASSUME Init
  PROVE  RequestInv
<1>1. TypeOK
  <2>1. mode \in AllModes /\ late \in BOOLEAN
    BY ModeAssumption, Zenon DEF Init
  <2>2. NoRequest \in Request /\ 0 \in Results
    BY Consts DEF NoRequest, Request, CommandIds, Args, Results
  <2>3. dev \in [CommandIds -> Args] /\ port \in [CommandIds -> Args]
    BY DEF Init, Args
  <2> QED
    BY <2>1, <2>2, <2>3, Consts DEF Init, TypeOK
<1>2. Handles \in BOOLEAN /\ NeedsRtnl \in BOOLEAN /\ Bifurcated \in BOOLEAN
  BY <1>1, ModeTypes
<1>3. Locks /\ GetFindsAnswer
  BY Consts DEF Init, Locks, GetFindsAnswer, NoRequest, Busy
<1>4. Exchange
  BY DEF Init, Exchange, Exchanging, NoRequest, Busy
<1>5. Agreement
  BY DEF Init, Agreement, Granted, MtuAgrees, LinkAgrees, Busy, CommandIds
<1>6. ~ Handles => Silence
  BY DEF Init, Silence, MtuAgrees, CommandIds, Args
<1> QED
  BY <1>1, <1>3, <1>4, <1>5, <1>6 DEF RequestInv

\* A stuttering step changes nothing.
LEMMA StutterKeeps ==
  ASSUME RequestInv, UNCHANGED vars
  PROVE  RequestInv'
<1>1. UNCHANGED <<locks, queues, task, dev, port, process, history>>
  BY DEF vars
<1>2. mode' = mode
  BY <1>1 DEF locks
<1>3. Handles' = Handles /\ Bifurcated' = Bifurcated /\ Callbacks' = Callbacks
  BY <1>2, ModeStays
<1>4. TypeOK' /\ Locks' /\ GetFindsAnswer'
  BY <1>1, <1>3, Parts
     DEF locks, queues, task, process, history, TypeOK, Locks, GetFindsAnswer, Busy
<1>5. Reliable' => Exchange'
  BY <1>1, <1>3, Parts
     DEF queues, task, process, history, Reliable, Exchange, Exchanging, Waiting,
         SameRequest, Busy
<1>6. OneAtATime' => Agreement'
  BY <1>1, <1>3, Parts
     DEF task, history, Reliable, OneAtATime, Agreement, Granted, MtuAgrees,
         LinkAgrees, Busy
<1>7. ~ Handles' => Silence'
  BY <1>1, <1>3, Parts DEF queues, task, process, Silence, MtuAgrees
<1> QED
  BY <1>4, <1>5, <1>6, <1>7 DEF RequestInv

\* A task asks, under rtnl.
LEMMA AskKeeps ==
  ASSUME NEW t \in Tasks, RequestInv, Ask(t)
  PROVE  RequestInv'
<1>1. mode' = mode
  BY DEF Ask
<1>2. Handles' = Handles /\ Bifurcated' = Bifurcated /\ Callbacks' = Callbacks
  BY <1>1, ModeStays
<1>3. TypeOK'
  <2>1. PICK c \in CommandIds, a \in Args :
          /\ req' = [req EXCEPT ![t] = [req_id |-> c, arg |-> a, result |-> 0,
                                        async |-> IsAsync(c, a), no |-> made + 1]]
          /\ dev' = IF c \in SetBefore THEN [dev EXCEPT ![c] = a] ELSE dev
          /\ rtnl' \in {t, Nobody}
    BY CommandAssumption DEF Ask
  <2>2. IsAsync(c, a) \in BOOLEAN
    BY Parts DEF IsAsync
  <2>3. made + 1 \in 0..MaxRequests
    BY Parts, Consts DEF TypeOK, Ask
  <2>4. [req_id |-> c, arg |-> a, result |-> 0, async |-> IsAsync(c, a),
         no |-> made + 1] \in Request
    BY <2>2, <2>3 DEF Request, Results
  <2>5. req' \in [Tasks -> Request] /\ dev' \in [CommandIds -> Args]
    BY <2>1, <2>4, Parts DEF TypeOK
  <2> QED
    BY <2>1, <2>3, <2>5, Parts DEF TypeOK, Ask, queues, process
<1>4. Locks'
  <2>1. PICK c \in Commands, a \in Args :
          /\ req' = [req EXCEPT ![t] = [req_id |-> c, arg |-> a, result |-> 0,
                                        async |-> IsAsync(c, a), no |-> made + 1]]
          /\ rtnl' = IF Bifurcated /\ ~ IsAsync(c, a) THEN Nobody ELSE t
    BY DEF Ask
  <2>2. ASSUME NEW s \in Tasks
        PROVE  /\ req'[s].no <= made + 1
               /\ req'[s].async => /\ Bifurcated
                                   /\ req'[s].req_id = "CFG_NETWORK_IF"
                                   /\ req'[s].arg = 0
    <3>1. CASE s = t
      <4>1. /\ req'[s].req_id = c /\ req'[s].arg = a /\ req'[s].no = made + 1
            /\ req'[s].async = IsAsync(c, a)
        BY <3>1, <2>1, Parts DEF TypeOK
      <4>2. made + 1 <= made + 1
        BY Parts DEF TypeOK
      <4> QED
        BY <4>1, <4>2, Zenon DEF IsAsync
    <3>2. CASE s # t
      BY <3>2, <2>1, Parts DEF Locks, TypeOK, Request
    <3> QED
      BY <3>1, <3>2
  <2>3. ASSUME NEW s \in Tasks
        PROVE  /\ sync_lock' = s
                    <=> kpc'[s] \in {"fill", "put", "wait", "get", "copy", "unlock"}
               /\ kpc'[s] = "finish" => rtnl' = s
               /\ ~ Bifurcated => (rtnl' = s <=> Busy(s)')
    BY <2>1, Parts, Consts DEF Ask, Locks, TypeOK, Busy
  <2>4. /\ sync.no <= made + 1
        /\ \A n \in 1..MaxRequests : n > made + 1 => verdict[n] = Undecided
    BY Parts DEF Locks, TypeOK, Request
  <2> QED
    BY <1>2, <2>2, <2>3, <2>4, Parts DEF Ask, Locks, queues
<1>5. GetFindsAnswer'
  BY <1>3, Parts DEF GetFindsAnswer, Ask, IsAsync, SetBefore, queues
<1>6. ASSUME OneAtATime
      PROVE  \A s \in Tasks : ~ Busy(s)
  BY <1>6, Parts, Consts DEF Locks, OneAtATime, Ask
<1>7. Reliable' => Exchange'
  <2> SUFFICES ASSUME Reliable'
               PROVE  Exchange'
    OBVIOUS
  <2>1. PICK c \in Commands, a \in Args :
          /\ req' = [req EXCEPT ![t] = [req_id |-> c, arg |-> a, result |-> 0,
                                        async |-> IsAsync(c, a), no |-> made + 1]]
          /\ late' = (late \/ IsAsync(c, a))
    BY DEF Ask
  <2>2. Reliable /\ Exchange /\ ~ IsAsync(c, a)
    BY <2>1, Parts DEF Reliable
  <2>3. ~ req'[t].async /\ req'[t].no = made + 1 /\ kpc'[t] = "lock"
    BY <2>1, <2>2, Parts DEF TypeOK, Ask
  <2>4. \A s \in Tasks : s # t => req'[s] = req[s] /\ kpc'[s] = kpc[s] /\ ret'[s] = ret[s]
    BY <2>1, Parts DEF TypeOK, Ask
  <2>5. made + 1 >= 1 /\ verdict[made + 1] = Undecided /\ kpc[t] = "idle"
    BY Parts, Consts DEF Locks, TypeOK, Ask
  <2>6. Exchanging(t)'
    BY <2>3, <2>5 DEF Exchanging, Ask
  <2>7. ASSUME NEW s \in Tasks, s # t
        PROVE  Exchanging(s)'
    <3>1. UNCHANGED <<sync, req_q, resp_q, hpc, hreq, hres, verdict>>
      BY DEF Ask, queues, process
    <3>2. Exchanging(s) /\ req'[s] = req[s] /\ kpc'[s] = kpc[s] /\ ret'[s] = ret[s]
      BY <2>2, <2>4, <2>7 DEF Exchange
    <3> QED
      BY <1>2, <3>1, <3>2 DEF Exchanging, Waiting, SameRequest, Busy
  <2>8. \A s \in Tasks : req[s].no # made + 1
    BY Parts DEF Locks, TypeOK, Request
  <2> QED
    BY <2>2, <2>3, <2>4, <2>5, <2>6, <2>7, <2>8
       DEF Exchange, Busy, Ask, queues, process
<1>8. OneAtATime' => Agreement'
  <2> SUFFICES ASSUME OneAtATime'
               PROVE  Agreement'
    OBVIOUS
  <2>1. OneAtATime /\ Agreement
    BY <1>2, Parts DEF OneAtATime, Reliable, Ask
  <2>2. verdict'[req'[t].no] = Undecided
    BY Parts, Consts DEF Locks, TypeOK, Ask
  <2>3. \A s \in Tasks : Busy(s)' => s = t
    BY <1>6, <2>1, Parts DEF Ask, Busy
  <2>4. /\ "CHANGE_MTU" \in Callbacks => MtuAgrees
        /\ "CFG_NETWORK_IF" \in Callbacks => LinkAgrees
    BY <1>6, <2>1 DEF Agreement, Granted
  <2>5. /\ dev'["CHANGE_MTU"] = dev["CHANGE_MTU"]
        /\ dev'["CFG_NETWORK_IF"] = dev["CFG_NETWORK_IF"]
    BY Parts DEF Ask, SetBefore
  <2>6. \A s \in Tasks : ~ Granted(s)'
    BY <2>2, <2>3 DEF Granted, Undecided
  <2> QED
    BY <1>2, <2>4, <2>5, <2>6 DEF Agreement, MtuAgrees, LinkAgrees, Ask
<1>9. ~ Handles' => Silence'
  BY <1>2, <1>3, Parts DEF Silence, MtuAgrees, Ask, IsAsync, SetBefore, queues, process
<1> QED
  BY <1>3, <1>4, <1>5, <1>7, <1>8, <1>9 DEF RequestInv

\* It gets the request buffer to itself ...
LEMMA LockKeeps ==
  ASSUME NEW t \in Tasks, RequestInv, Lock(t)
  PROVE  RequestInv'
<1>1. mode' = mode
  BY DEF Lock
<1>2. Handles' = Handles /\ Bifurcated' = Bifurcated /\ Callbacks' = Callbacks
  BY <1>1, ModeStays
<1>3. TypeOK'
  BY Parts DEF TypeOK, Lock, Goto, queues, process, history
<1>4. Locks'
  BY <1>2, <1>3, Parts, Consts
     DEF TypeOK, Locks, Busy, Lock, Goto, queues, history
<1>5. GetFindsAnswer'
  BY <1>3, Parts DEF GetFindsAnswer, Lock, Goto, queues
<1>6. ASSUME OneAtATime
      PROVE  Busy(t) /\ \A s \in Tasks : s # t => ~ Busy(s)
  BY <1>6, OneBusy DEF Busy, OneAtATime, Lock
<1>7. Reliable' => Exchange'
  <2> SUFFICES ASSUME Reliable'
               PROVE  Exchange'
    OBVIOUS
  <2>1. Reliable /\ Exchange
    BY Parts DEF Reliable, Lock, history
  <2>2. UNCHANGED <<queues, req, ret, process, verdict>>
    BY DEF Lock, history
  <2>3. kpc'[t] = "fill" /\ \A s \in Tasks : s # t => kpc'[s] = kpc[s]
    BY Parts DEF TypeOK, Lock, Goto
  <2>4. ASSUME NEW s \in Tasks
        PROVE  Exchanging(s)'
    <3>1. Exchanging(s)
      BY <2>1 DEF Exchange
    <3>2. CASE s = t
      BY <2>2, <2>3, <3>1, <3>2 DEF Exchanging, Busy, Lock
    <3>3. CASE s # t
      BY <1>2, <2>2, <2>3, <3>1, <3>3
         DEF Exchanging, Waiting, SameRequest, Busy, queues, process
    <3> QED
      BY <3>2, <3>3
  <2>5. Busy(t)
    BY DEF Lock, Busy
  <2>6. kpc[t] \notin {"wait", "get"}
    BY DEF Lock
  <2> QED
    BY <2>1, <2>2, <2>3, <2>4, <2>5, <2>6 DEF Exchange, Busy, queues, process
<1>8. OneAtATime' => Agreement'
  BY <1>2, <1>3, <1>6, Parts
     DEF Reliable, Exchange, Exchanging, Agreement, Granted, MtuAgrees, LinkAgrees, OneAtATime, Busy, Lock, Goto, history
<1>9. ~ Handles' => Silence'
  BY <1>2, <1>3, Parts DEF Silence, MtuAgrees, Lock, Goto, queues, process
<1> QED
  BY <1>3, <1>4, <1>5, <1>7, <1>8, <1>9 DEF RequestInv

\* ... fills it ...
LEMMA FillKeeps ==
  ASSUME NEW t \in Tasks, RequestInv, Fill(t)
  PROVE  RequestInv'
<1>1. mode' = mode
  BY DEF Fill, locks
<1>2. Handles' = Handles /\ Bifurcated' = Bifurcated /\ Callbacks' = Callbacks
  BY <1>1, ModeStays
<1>3. TypeOK'
  BY Parts DEF TypeOK, Fill, Goto, locks, process, history
<1>4. Locks'
  BY <1>2, <1>3, Parts DEF Locks, Busy, Fill, Goto, locks, history
<1>5. GetFindsAnswer'
  BY <1>3, Parts DEF GetFindsAnswer, Fill, Goto
<1>6. ASSUME OneAtATime
      PROVE  Busy(t) /\ \A s \in Tasks : s # t => ~ Busy(s)
  BY <1>6, OneBusy DEF Busy, OneAtATime, Fill
<1>7. Reliable' => Exchange'
  <2> SUFFICES ASSUME Reliable'
               PROVE  Exchange'
    OBVIOUS
  <2>1. Reliable /\ Exchange
    BY Parts DEF Reliable, Fill, history
  <2>2. \A s \in Tasks : s # t => kpc[s] \notin Inside /\ kpc'[s] = kpc[s]
    BY OneInside, Parts DEF Fill, Goto, Inside, TypeOK
  <2>3. kpc'[t] = "put" /\ kpc[t] = "fill"
    BY Parts DEF Fill, Goto, TypeOK
  <2>4. Exchanging(t)'
    BY <2>1, <2>3 DEF Exchange, Exchanging, Busy, Fill, history
  <2>5. ASSUME NEW s \in Tasks, s # t
        PROVE  Exchanging(s)'
    BY <2>1, <2>2, <2>5 DEF Exchange, Exchanging, Inside, Busy, Fill, history
  <2>6. ~ sync'.async
    BY <2>1 DEF Exchange, Exchanging, Fill
  <2>7. req_q = 0 /\ resp_q = 0 /\ hpc = "idle"
    BY <2>1, <2>2, <2>3 DEF Exchange, Inside
  <2> QED
    BY <2>1, <2>2, <2>3, <2>4, <2>5, <2>6, <2>7 DEF Exchange, Busy, Fill, process
<1>8. OneAtATime' => Agreement'
  BY <1>2, <1>3, <1>6, Parts
     DEF Reliable, Exchange, Exchanging, Agreement, Granted, MtuAgrees, LinkAgrees, OneAtATime, Busy, Fill, Goto, history
<1>9. ~ Handles' => Silence'
  BY <1>2, <1>3, Parts DEF Silence, MtuAgrees, Fill, Goto, process
<1> QED
  BY <1>3, <1>4, <1>5, <1>7, <1>8, <1>9 DEF RequestInv

\* ... and puts its address into req_q.
LEMMA PutKeeps ==
  ASSUME NEW t \in Tasks, RequestInv, Put(t)
  PROVE  RequestInv'
<1>1. mode' = mode
  BY DEF Put, locks
<1>2. Handles' = Handles /\ Bifurcated' = Bifurcated /\ Callbacks' = Callbacks
  BY <1>1, ModeStays
<1>3. TypeOK'
  <2>1. req_q' \in 0..FifoLen - 1
    BY Parts, Consts DEF Put, TypeOK
  <2>2. ret' \in [Tasks -> {0, -1, EBUSY, ENODATA, ETIME}]
    BY Parts DEF Put, TypeOK
  <2>3. kpc' \in [Tasks -> {"idle", "lock", "fill", "put", "wait", "get", "copy",
                            "unlock", "relock", "finish"}]
    BY Parts DEF Put, Goto, TypeOK
  <2> QED
    BY <2>1, <2>2, <2>3, Parts DEF Put, TypeOK, locks, process, history
<1>4. Locks'
  BY <1>2, <1>3, Parts DEF TypeOK, Locks, Busy, Put, Goto, locks, history
<1>5. GetFindsAnswer'
  BY <1>3, Parts DEF TypeOK, GetFindsAnswer, Put, Goto
<1>6. ASSUME OneAtATime
      PROVE  Busy(t) /\ \A s \in Tasks : s # t => ~ Busy(s)
  BY <1>6, OneBusy DEF Busy, OneAtATime, Put
<1>7. Reliable' => Exchange'
  <2> SUFFICES ASSUME Reliable'
               PROVE  Exchange'
    OBVIOUS
  <2>1. Reliable /\ Exchange
    BY Parts DEF Reliable, Put, history
  <2>2. \A s \in Tasks : s # t => kpc[s] \notin Inside
    BY OneInside DEF Put, Inside
  <2>3. req_q = 0 /\ resp_q = 0 /\ hpc = "idle"
    BY <2>1, <2>2 DEF Put, Exchange, Inside
  <2>4. ~ req[t].async
    BY <2>1 DEF Exchange, Exchanging
  <2>5. req_q' = 1 /\ kpc' = [kpc EXCEPT ![t] = "wait"]
    BY <2>3, <2>4, Consts DEF Put, Goto
  <2>6. Waiting(t)'
    BY <2>1, <2>3, <2>5
       DEF Exchange, Exchanging, Waiting, SameRequest, Put, process, history
  <2>7. kpc'[t] = "wait" /\ \A s \in Tasks : s # t => kpc'[s] = kpc[s] /\ ret'[s] = ret[s]
    BY <2>5, Parts DEF TypeOK, Put
  <2>8. Exchanging(t)'
    BY <2>1, <2>6, <2>7 DEF Exchange, Exchanging, Put, Busy
  <2>9. ASSUME NEW s \in Tasks, s # t
        PROVE  Exchanging(s)'
    BY <2>1, <2>2, <2>7, <2>9 DEF Exchange, Exchanging, Inside, Put, Busy, history
  <2> QED
    BY <2>1, <2>7, <2>8, <2>9 DEF Exchange, Busy, Put
<1>8. OneAtATime' => Agreement'
  BY <1>2, <1>3, <1>6, Parts
     DEF TypeOK, Reliable, Exchange, Exchanging, Agreement, Granted, MtuAgrees, LinkAgrees, OneAtATime, Busy, Put, Goto, history
<1>9. ~ Handles' => Silence'
  BY <1>2, <1>3, Parts DEF TypeOK, Silence, MtuAgrees, Put, Goto, process, EBUSY
<1> QED
  BY <1>3, <1>4, <1>5, <1>7, <1>8, <1>9 DEF RequestInv

\* It is woken by an answer ...
LEMMA WaitOverKeeps ==
  ASSUME NEW t \in Tasks, RequestInv, WaitOver(t)
  PROVE  RequestInv'
<1>1. mode' = mode
  BY DEF WaitOver, locks
<1>2. Handles' = Handles /\ Bifurcated' = Bifurcated /\ Callbacks' = Callbacks
  BY <1>1, ModeStays
<1>3. TypeOK'
  BY Parts DEF TypeOK, WaitOver, Goto, locks, queues, process, history
<1>4. Locks'
  BY <1>2, <1>3, Parts DEF Locks, Busy, WaitOver, Goto, locks, queues, history
<1>5. GetFindsAnswer'
  BY <1>3, Parts DEF GetFindsAnswer, WaitOver, Goto, queues
<1>6. ASSUME OneAtATime
      PROVE  Busy(t) /\ \A s \in Tasks : s # t => ~ Busy(s)
  BY <1>6, OneBusy DEF Busy, OneAtATime, WaitOver
<1>7. Reliable' => Exchange'
  BY <1>2, <1>3, Parts
     DEF Locks, Reliable, Exchange, Exchanging, Waiting, SameRequest, Busy, WaitOver, Goto, queues,
         process, history
<1>8. OneAtATime' => Agreement'
  BY <1>2, <1>3, <1>6, Parts
     DEF Reliable, Exchange, Exchanging, Agreement, Granted, MtuAgrees, LinkAgrees, OneAtATime, Busy, WaitOver, Goto, history
<1>9. ~ Handles' => Silence'
  BY <1>2, <1>3, Parts DEF Silence, MtuAgrees, WaitOver, Goto
<1> QED
  BY <1>3, <1>4, <1>5, <1>7, <1>8, <1>9 DEF RequestInv

\* ... or gives up ...
LEMMA ExpireKeeps ==
  ASSUME NEW t \in Tasks, RequestInv, Expire(t)
  PROVE  RequestInv'
<1>1. mode' = mode
  BY DEF Expire, locks
<1>2. Handles' = Handles /\ Bifurcated' = Bifurcated /\ Callbacks' = Callbacks
  BY <1>1, ModeStays
<1>3. TypeOK'
  BY Parts DEF TypeOK, Expire, Goto, locks, queues, process
<1>4. Locks'
  BY <1>2, <1>3, Parts DEF Locks, Busy, Expire, Goto, locks, queues
<1>5. GetFindsAnswer'
  BY <1>3, Parts DEF GetFindsAnswer, Expire, Goto
<1>6. ASSUME OneAtATime
      PROVE  Busy(t) /\ \A s \in Tasks : s # t => ~ Busy(s)
  BY <1>6, OneBusy DEF Busy, OneAtATime, Expire
<1>7. Reliable' => Exchange'
  BY <1>3, Parts DEF Locks, Reliable, Exchange, Exchanging, Expire, Goto
<1>8. OneAtATime' => Agreement'
  BY <1>3, <1>6, Parts DEF Reliable, Exchange, Exchanging, Agreement, Granted, MtuAgrees, LinkAgrees, OneAtATime, Expire, Goto
<1>9. ~ Handles' => Silence'
  BY <1>2, <1>3, Parts DEF TypeOK, Silence, MtuAgrees, Expire, Goto, queues, process, ETIME
<1> QED
  BY <1>3, <1>4, <1>5, <1>7, <1>8, <1>9 DEF RequestInv

\* ... or is interrupted.
LEMMA InterruptKeeps ==
  ASSUME NEW t \in Tasks, RequestInv, Interrupt(t)
  PROVE  RequestInv'
<1>1. mode' = mode
  BY DEF Interrupt, locks
<1>2. Handles' = Handles /\ Bifurcated' = Bifurcated /\ Callbacks' = Callbacks
  BY <1>1, ModeStays
<1>3. TypeOK'
  BY Parts DEF TypeOK, Interrupt, Goto, locks, queues, process
<1>4. Locks'
  BY <1>2, <1>3, Parts DEF Locks, Busy, Interrupt, Goto, locks, queues
<1>5. GetFindsAnswer'
  BY <1>3, Parts DEF GetFindsAnswer, Interrupt, Goto, queues
<1>6. ASSUME OneAtATime
      PROVE  Busy(t) /\ \A s \in Tasks : s # t => ~ Busy(s)
  BY <1>6, OneBusy DEF Busy, OneAtATime, Interrupt
<1>7. Reliable' => Exchange'
  BY <1>3, Parts DEF Locks, Reliable, Exchange, Exchanging, Interrupt, Goto
<1>8. OneAtATime' => Agreement'
  BY <1>3, <1>6, Parts DEF Reliable, Exchange, Exchanging, Agreement, Granted, MtuAgrees, LinkAgrees, OneAtATime, Interrupt, Goto
<1>9. ~ Handles' => Silence'
  BY <1>2, <1>3, Parts
     DEF TypeOK, Silence, MtuAgrees, Interrupt, Goto, queues, process, ETIME
<1> QED
  BY <1>3, <1>4, <1>5, <1>7, <1>8, <1>9 DEF RequestInv

\* It takes the answer ...
LEMMA GetAnswerKeeps ==
  ASSUME NEW t \in Tasks, RequestInv, GetAnswer(t)
  PROVE  RequestInv'
<1>1. mode' = mode
  BY DEF GetAnswer, locks
<1>2. Handles' = Handles /\ Bifurcated' = Bifurcated /\ Callbacks' = Callbacks
  BY <1>1, ModeStays
<1>3. TypeOK'
  <2>1. resp_q' \in 0..FifoLen - 1
    BY Parts, Consts DEF GetAnswer, TypeOK
  <2>2. ret' \in [Tasks -> {0, -1, EBUSY, ENODATA, ETIME}]
    BY Parts DEF GetAnswer, TypeOK
  <2>3. kpc' \in [Tasks -> {"idle", "lock", "fill", "put", "wait", "get", "copy",
                            "unlock", "relock", "finish"}]
    BY Parts DEF GetAnswer, Goto, TypeOK
  <2> QED
    BY <2>1, <2>2, <2>3, Parts DEF GetAnswer, TypeOK, locks, process, history
<1>4. Locks'
  BY <1>2, <1>3, Parts DEF TypeOK, Locks, Busy, GetAnswer, Goto, locks, history
<1>5. GetFindsAnswer'
  BY <1>3, Parts DEF TypeOK, Locks, GetFindsAnswer, GetAnswer, Goto
<1>6. ASSUME OneAtATime
      PROVE  Busy(t) /\ \A s \in Tasks : s # t => ~ Busy(s)
  BY <1>6, OneBusy DEF Busy, OneAtATime, GetAnswer
<1>7. Reliable' => Exchange'
  <2> SUFFICES ASSUME Reliable'
               PROVE  Exchange'
    OBVIOUS
  <2>1. Reliable /\ Exchange
    BY Parts DEF Reliable, GetAnswer, history
  <2>2. \A s \in Tasks : s # t => kpc[s] \notin Inside
    BY OneInside DEF GetAnswer, Inside
  <2>3. Waiting(t) /\ resp_q > 0 /\ Exchanging(t)
    BY <2>1, Parts DEF GetAnswer, Exchange, Exchanging, GetFindsAnswer
  <2>4. req_q = 0 /\ resp_q = 1 /\ hpc = "idle"
    BY <2>3, Parts DEF Waiting, TypeOK
  <2>5. resp_q' = 0 /\ kpc' = [kpc EXCEPT ![t] = "copy"] /\ ret' = ret
    BY <2>4 DEF GetAnswer, Goto
  <2>6. kpc'[t] = "copy" /\ \A s \in Tasks : s # t => kpc'[s] = kpc[s]
    BY <2>5, Parts DEF TypeOK
  <2>7. SameRequest(sync, req[t]) /\ verdict[sync.no] = sync.result
    BY <2>3, <2>4 DEF Waiting
  <2>8. Exchanging(t)'
    BY <2>3, <2>6, <2>7
       DEF Exchanging, SameRequest, Busy, GetAnswer, history
  <2>9. ASSUME NEW s \in Tasks, s # t
        PROVE  Exchanging(s)'
    BY <2>1, <2>2, <2>5, <2>6, <2>9
       DEF Exchange, Exchanging, Inside, GetAnswer, Busy, history
  <2> QED
    BY <2>1, <2>3, <2>4, <2>5, <2>6, <2>8, <2>9
       DEF Exchange, Busy, GetAnswer, process
<1>8. OneAtATime' => Agreement'
  BY <1>2, <1>3, <1>6, Parts
     DEF TypeOK, Reliable, Exchange, Exchanging, Agreement, Granted, MtuAgrees, LinkAgrees, OneAtATime, Busy, GetAnswer, Goto, history
<1>9. ~ Handles' => Silence'
  BY <1>2, <1>3, Parts DEF GetFindsAnswer, Silence, MtuAgrees, GetAnswer, Goto, ENODATA
<1> QED
  BY <1>3, <1>4, <1>5, <1>7, <1>8, <1>9 DEF RequestInv

\* ... which is the one to its request.
LEMMA CopyKeeps ==
  ASSUME NEW t \in Tasks, RequestInv, Copy(t)
  PROVE  RequestInv'
<1>1. mode' = mode
  BY DEF Copy, locks
<1>2. Handles' = Handles /\ Bifurcated' = Bifurcated /\ Callbacks' = Callbacks
  BY <1>1, ModeStays
<1>3. TypeOK'
  BY Parts DEF TypeOK, Copy, Goto, locks, queues, process, history
<1>4. Locks'
  BY <1>2, <1>3, Parts DEF Locks, Busy, Copy, Goto, locks, queues, history
<1>5. GetFindsAnswer'
  BY <1>3, Parts DEF GetFindsAnswer, Copy, Goto, queues
<1>6. ASSUME OneAtATime
      PROVE  Busy(t) /\ \A s \in Tasks : s # t => ~ Busy(s)
  BY <1>6, OneBusy DEF Busy, OneAtATime, Copy
<1>7. Reliable' => Exchange'
  BY <1>2, <1>3, Parts
     DEF Locks, TypeOK, Reliable, Exchange, Exchanging, Waiting, SameRequest, Busy, Copy, Goto,
         queues, process, history
<1>8. OneAtATime' => Agreement'
  BY <1>2, <1>3, <1>6, Parts
     DEF Reliable, Exchange, Exchanging, Waiting, SameRequest, Agreement, Granted, MtuAgrees, LinkAgrees, OneAtATime, Busy, Copy, Goto,
         history
<1>9. ~ Handles' => Silence'
  BY <1>2, <1>3, Parts DEF Silence, MtuAgrees, Copy, Goto
<1> QED
  BY <1>3, <1>4, <1>5, <1>7, <1>8, <1>9 DEF RequestInv

\* It leaves the buffer to others ...
LEMMA UnlockKeeps ==
  ASSUME NEW t \in Tasks, RequestInv, Unlock(t)
  PROVE  RequestInv'
<1>1. mode' = mode
  BY DEF Unlock
<1>2. Handles' = Handles /\ Bifurcated' = Bifurcated /\ Callbacks' = Callbacks
  BY <1>1, ModeStays
<1>3. TypeOK'
  BY Parts DEF TypeOK, Unlock, Goto, queues, process, history
<1>4. Locks'
  BY <1>2, <1>3, Parts, Consts
     DEF TypeOK, Locks, Busy, Unlock, Goto, queues, history
<1>5. GetFindsAnswer'
  BY <1>3, Parts DEF GetFindsAnswer, Unlock, Goto, queues
<1>6. ASSUME OneAtATime
      PROVE  Busy(t) /\ \A s \in Tasks : s # t => ~ Busy(s)
  BY <1>6, OneBusy DEF Busy, OneAtATime, Unlock
<1>7. Reliable' => Exchange'
  BY <1>2, <1>3, Parts
     DEF Locks, Reliable, Exchange, Exchanging, Busy, Unlock, Goto, queues, process, history
<1>8. OneAtATime' => Agreement'
  BY <1>2, <1>3, <1>6, Parts
     DEF Reliable, Exchange, Exchanging, Agreement, Granted, MtuAgrees, LinkAgrees, OneAtATime, Busy, Unlock, Goto, history
<1>9. ~ Handles' => Silence'
  BY <1>2, <1>3, Parts DEF Silence, MtuAgrees, Unlock, Goto, queues, process
<1> QED
  BY <1>3, <1>4, <1>5, <1>7, <1>8, <1>9 DEF RequestInv

\* ... and holds rtnl again ...
LEMMA RelockKeeps ==
  ASSUME NEW t \in Tasks, RequestInv, Relock(t)
  PROVE  RequestInv'
<1>1. mode' = mode
  BY DEF Relock
<1>2. Handles' = Handles /\ Bifurcated' = Bifurcated /\ Callbacks' = Callbacks
  BY <1>1, ModeStays
<1>3. TypeOK'
  BY Parts DEF TypeOK, Relock, Goto, queues, process, history
<1>4. Locks'
  BY <1>2, <1>3, Parts, Consts DEF Locks, Busy, Relock, Goto, queues, history
<1>5. GetFindsAnswer'
  BY <1>3, Parts DEF GetFindsAnswer, Relock, Goto, queues
<1>6. ASSUME OneAtATime
      PROVE  Busy(t) /\ \A s \in Tasks : s # t => ~ Busy(s)
  BY <1>6, OneBusy DEF Busy, OneAtATime, Relock
<1>7. Reliable' => Exchange'
  <2> SUFFICES ASSUME Reliable'
               PROVE  Exchange'
    OBVIOUS
  <2>1. Reliable /\ Exchange
    BY Parts DEF Reliable, Relock, history
  <2>2. UNCHANGED <<queues, req, ret, process, verdict>>
    BY DEF Relock, history
  <2>3. kpc'[t] = "finish" /\ \A s \in Tasks : s # t => kpc'[s] = kpc[s]
    BY Parts DEF TypeOK, Relock, Goto
  <2>4. ASSUME NEW s \in Tasks
        PROVE  Exchanging(s)'
    <3>1. Exchanging(s)
      BY <2>1 DEF Exchange
    <3>2. CASE s = t
      BY <2>2, <2>3, <3>1, <3>2 DEF Exchanging, Busy, Relock
    <3>3. CASE s # t
      BY <1>2, <2>2, <2>3, <3>1, <3>3
         DEF Exchanging, Waiting, SameRequest, Busy, queues, process
    <3> QED
      BY <3>2, <3>3
  <2>5. Busy(t)
    BY DEF Relock, Busy
  <2>6. kpc[t] \notin {"wait", "get"}
    BY DEF Relock
  <2> QED
    BY <2>1, <2>2, <2>3, <2>4, <2>5, <2>6 DEF Exchange, Busy, queues, process
<1>8. OneAtATime' => Agreement'
  BY <1>2, <1>3, <1>6, Parts
     DEF Reliable, Exchange, Exchanging, Agreement, Granted, MtuAgrees, LinkAgrees, OneAtATime, Busy, Relock, Goto, history
<1>9. ~ Handles' => Silence'
  BY <1>2, <1>3, Parts DEF Silence, MtuAgrees, Relock, Goto, queues, process
<1> QED
  BY <1>3, <1>4, <1>5, <1>7, <1>8, <1>9 DEF RequestInv

\* ... when it makes the change that was granted.
LEMMA FinishKeeps ==
  ASSUME NEW t \in Tasks, RequestInv, Finish(t)
  PROVE  RequestInv'
<1>1. mode' = mode
  BY DEF Finish
<1>2. Handles' = Handles /\ Bifurcated' = Bifurcated /\ Callbacks' = Callbacks
  BY <1>1, ModeStays
<1>3. TypeOK'
  BY Parts DEF TypeOK, Request, Finish, Goto, Success, queues, process, history
<1>4. Locks'
  BY <1>2, <1>3, Parts
     DEF TypeOK, Locks, Busy, Finish, Goto, Success, queues, history
<1>5. GetFindsAnswer'
  BY <1>3, Parts DEF GetFindsAnswer, Finish, Goto, Success, queues
<1>6. ASSUME OneAtATime
      PROVE  Busy(t) /\ \A s \in Tasks : s # t => ~ Busy(s)
  BY <1>6, OneBusy DEF Busy, OneAtATime, Finish
<1>7. Reliable' => Exchange'
  <2> SUFFICES ASSUME Reliable'
               PROVE  Exchange'
    OBVIOUS
  <2>1. Reliable /\ Exchange
    BY Parts DEF Reliable, Finish, history
  <2>2. UNCHANGED <<queues, req, ret, process, verdict>>
    BY DEF Finish, history
  <2>3. kpc'[t] = "idle" /\ \A s \in Tasks : s # t => kpc'[s] = kpc[s]
    BY Parts DEF TypeOK, Finish, Goto
  <2>4. ASSUME NEW s \in Tasks
        PROVE  Exchanging(s)'
    <3>1. Exchanging(s)
      BY <2>1 DEF Exchange
    <3>2. CASE s = t
      BY <2>2, <2>3, <3>1, <3>2 DEF Exchanging, Busy, Finish
    <3>3. CASE s # t
      BY <1>2, <2>2, <2>3, <3>1, <3>3
         DEF Exchanging, Waiting, SameRequest, Busy, queues, process
    <3> QED
      BY <3>2, <3>3
  <2>5. Busy(t)
    BY DEF Finish, Busy
  <2>6. kpc[t] \notin {"wait", "get"}
    BY DEF Finish
  <2> QED
    BY <2>1, <2>2, <2>3, <2>4, <2>5, <2>6 DEF Exchange, Busy, queues, process
<1>8. OneAtATime' => Agreement'
  BY <1>2, <1>3, <1>6, Parts
     DEF TypeOK, Reliable, Exchange, Exchanging, Agreement, Granted, MtuAgrees, LinkAgrees, OneAtATime, Busy, Finish, Goto, Success,
         history
<1>9. ~ Handles' => Silence'
  BY <1>2, <1>3, Parts
     DEF Locks, Silence, MtuAgrees, Finish, Goto, Success, queues, process
<1> QED
  BY <1>3, <1>4, <1>5, <1>7, <1>8, <1>9 DEF RequestInv

\* The process takes the request ...
LEMMA HandleGetKeeps ==
  ASSUME RequestInv, HandleGet
  PROVE  RequestInv'
<1>1. mode' = mode
  BY DEF HandleGet, locks
<1>2. Handles' = Handles /\ Bifurcated' = Bifurcated /\ Callbacks' = Callbacks
  BY <1>1, ModeStays
<1>3. TypeOK'
  BY Parts, Consts DEF TypeOK, HandleGet, locks, task, history
<1>4. Locks'
  BY <1>2, <1>3, Parts DEF Locks, Busy, HandleGet, locks, task, history
<1>5. GetFindsAnswer'
  BY <1>3, Parts DEF GetFindsAnswer, HandleGet, task
<1>6. Reliable' => Exchange'
  BY <1>2, <1>3, Parts
     DEF Locks, TypeOK, Reliable, Exchange, Exchanging, Waiting, SameRequest, Busy, HandleGet,
         task, history
<1>7. OneAtATime' => Agreement'
  BY <1>2, <1>3, Parts
     DEF Reliable, Exchange, Exchanging, Agreement, Granted, MtuAgrees, LinkAgrees, OneAtATime, Busy, HandleGet, task, history
<1>8. ~ Handles' => Silence'
  BY <1>2, <1>3, Parts DEF HandleGet
<1> QED
  BY <1>3, <1>4, <1>5, <1>6, <1>7, <1>8 DEF RequestInv

\* ... reads its id ...
LEMMA HandleSwitchKeeps ==
  ASSUME RequestInv, HandleSwitch
  PROVE  RequestInv'
<1>1. mode' = mode
  BY DEF HandleSwitch, locks
<1>2. Handles' = Handles /\ Bifurcated' = Bifurcated /\ Callbacks' = Callbacks
  BY <1>1, ModeStays
<1>3. TypeOK'
  BY Parts DEF TypeOK, HandleSwitch, locks, queues, task, history
<1>4. Locks'
  BY <1>2, <1>3, Parts
     DEF Locks, Busy, HandleSwitch, locks, queues, task, history
<1>5. GetFindsAnswer'
  BY <1>3, Parts DEF GetFindsAnswer, HandleSwitch, queues, task
<1>6. Reliable' => Exchange'
  BY <1>2, <1>3, Parts
     DEF Locks, Reliable, Exchange, Exchanging, Waiting, SameRequest, Busy, HandleSwitch, queues,
         task, history
<1>7. OneAtATime' => Agreement'
  BY <1>2, <1>3, Parts
     DEF Reliable, Exchange, Exchanging, Agreement, Granted, MtuAgrees, LinkAgrees, OneAtATime, Busy, HandleSwitch, task, history
<1>8. ~ Handles' => Silence'
  BY <1>2, <1>3, Parts DEF Silence, MtuAgrees, HandleSwitch
<1> QED
  BY <1>3, <1>4, <1>5, <1>6, <1>7, <1>8 DEF RequestInv

\* ... calls back ...
LEMMA HandleCallKeeps ==
  ASSUME RequestInv, HandleCall
  PROVE  RequestInv'
<1>1. mode' = mode
  BY DEF HandleCall, locks
<1>2. Handles' = Handles /\ Bifurcated' = Bifurcated /\ Callbacks' = Callbacks
  BY <1>1, ModeStays
<1>3. TypeOK'
  <2>1. /\ sync.arg \in Args /\ sync.result \in Results /\ sync.no \in 0..MaxRequests
        /\ hreq.req_id \in CommandIds
    BY Parts DEF TypeOK, Request
  <2>2. hres' \in Results
    BY <2>1 DEF HandleCall
  <2>3. port' \in [CommandIds -> Args]
    BY <2>1, Parts DEF HandleCall, TypeOK
  <2>4. hres' \in {0, EINVAL, Undecided}
    BY <2>2 DEF Results
  <2>5. verdict' \in [1..MaxRequests -> {0, EINVAL, Undecided}]
    BY <2>4, Parts DEF HandleCall, TypeOK
  <2> QED
    BY <1>1, <2>2, <2>3, <2>5, Parts
       DEF TypeOK, HandleCall, locks, queues, task
<1>4. Locks'
  BY <1>2, <1>3, Parts DEF TypeOK, Locks, Busy, HandleCall, locks, queues, task
<1>5. GetFindsAnswer'
  BY <1>3, Parts DEF GetFindsAnswer, HandleCall, queues, task
<1>6. ASSUME Reliable
      PROVE  \E t \in Tasks : kpc[t] = "wait" /\ Busy(t) /\ Waiting(t)
  BY <1>6, OneWaits DEF HandleCall
<1>7. Reliable' => Exchange'
  BY <1>2, <1>3, Parts
     DEF Locks, TypeOK, Reliable, Exchange, Exchanging, Waiting, SameRequest, Busy, HandleCall,
         queues, task
<1>8. OneAtATime' => Agreement'
  <2> SUFFICES ASSUME OneAtATime'
               PROVE  Agreement'
    OBVIOUS
  <2>1. Reliable /\ OneAtATime /\ Exchange /\ Agreement
    BY <1>2, Parts DEF Reliable, OneAtATime, HandleCall
  <2>2. PICK t \in Tasks : kpc[t] = "wait" /\ Busy(t) /\ Waiting(t)
    BY <2>1, <1>6
  <2>3. \A s \in Tasks : s # t => ~ Busy(s)
    BY <2>1, <2>2, OneBusy DEF OneAtATime
  <2>4. req[t].no \in 1..MaxRequests /\ req[t].req_id \in CommandIds
    BY <2>1, <2>2, Parts DEF Exchange, Exchanging, TypeOK, Request
  <2>5. /\ sync.no = req[t].no /\ hreq.req_id = sync.req_id
        /\ req[t].req_id = sync.req_id /\ req[t].arg = sync.arg
        /\ verdict[req[t].no] = Undecided
    BY <2>2, Parts DEF HandleCall, Waiting, SameRequest, TypeOK
  <2>6. verdict'[req[t].no] = hres'
    BY <2>4, <2>5, Parts DEF TypeOK, HandleCall
  <2>7. /\ "CHANGE_MTU" \in Callbacks => MtuAgrees
        /\ "CFG_NETWORK_IF" \in Callbacks => LinkAgrees
    BY <2>1, <2>3, <2>5 DEF Agreement, Granted, Undecided
  <2>8. dev' = dev /\ kpc' = kpc /\ req' = req
    BY DEF HandleCall, task
  <2>9. \A s \in Tasks : Granted(s)' => s = t
    BY <2>3, <2>8 DEF Granted, Busy
  <2>10. CASE req[t].req_id \notin Callbacks
    <3>1. port' = port
      BY <2>5, <2>10 DEF HandleCall
    <3> QED
      BY <3>1, <1>2, <2>7, <2>8, <2>9, <2>10
         DEF Agreement, MtuAgrees, LinkAgrees
  <2>11. CASE req[t].req_id \in Callbacks /\ hres' = 0
    <3>1. port' = [port EXCEPT ![req[t].req_id] = req[t].arg]
      BY <2>5, <2>11 DEF HandleCall
    <3>2. port'[req[t].req_id] = req[t].arg
      BY <3>1, <2>4, Parts DEF TypeOK
    <3>3. \A c \in CommandIds : c # req[t].req_id => port'[c] = port[c]
      BY <3>1, Parts DEF TypeOK
    <3>4. Granted(t)'
      BY <2>2, <2>6, <2>8, <2>11 DEF Granted, Busy
    <3>5. "CHANGE_MTU" \in CommandIds /\ "CFG_NETWORK_IF" \in CommandIds
      BY DEF CommandIds
    <3> QED
      BY <3>2, <3>3, <3>4, <3>5, <1>2, <2>7, <2>8, <2>9
         DEF Agreement, MtuAgrees, LinkAgrees
  <2>12. CASE req[t].req_id \in Callbacks /\ hres' # 0
    <3>1. port' = port
      BY <2>5, <2>12 DEF HandleCall
    <3>2. \A s \in Tasks : ~ Granted(s)'
      BY <2>6, <2>8, <2>9, <2>12 DEF Granted
    <3> QED
      BY <3>1, <3>2, <1>2, <2>7, <2>8 DEF Agreement, MtuAgrees, LinkAgrees
  <2> QED
    BY <2>10, <2>11, <2>12
<1>9. ~ Handles' => Silence'
  BY <1>2, <1>3, Parts DEF Silence, MtuAgrees, HandleCall
<1> QED
  BY <1>3, <1>4, <1>5, <1>7, <1>8, <1>9 DEF RequestInv

\* ... stores the result ...
LEMMA HandleStoreKeeps ==
  ASSUME RequestInv, HandleStore
  PROVE  RequestInv'
<1>1. mode' = mode
  BY DEF HandleStore, locks
<1>2. Handles' = Handles /\ Bifurcated' = Bifurcated /\ Callbacks' = Callbacks
  BY <1>1, ModeStays
<1>3. TypeOK'
  BY Parts DEF TypeOK, Request, HandleStore, locks, task, history
<1>4. Locks'
  BY <1>2, <1>3, Parts DEF Locks, Busy, HandleStore, locks, task, history
<1>5. GetFindsAnswer'
  BY <1>3, Parts DEF GetFindsAnswer, HandleStore, task
<1>6. Reliable' => Exchange'
  BY <1>2, <1>3, Parts
     DEF Locks, Reliable, Exchange, Exchanging, Waiting, SameRequest, Busy, HandleStore, task,
         history
<1>7. OneAtATime' => Agreement'
  BY <1>2, <1>3, Parts
     DEF Reliable, Exchange, Exchanging, Agreement, Granted, MtuAgrees, LinkAgrees, OneAtATime, Busy, HandleStore, task, history
<1>8. ~ Handles' => Silence'
  BY <1>2, <1>3, Parts DEF Silence, MtuAgrees, HandleStore
<1> QED
  BY <1>3, <1>4, <1>5, <1>6, <1>7, <1>8 DEF RequestInv

\* ... and answers.
LEMMA HandleReplyKeeps ==
  ASSUME RequestInv, HandleReply
  PROVE  RequestInv'
<1>1. mode' = mode
  BY DEF HandleReply, locks
<1>2. Handles' = Handles /\ Bifurcated' = Bifurcated /\ Callbacks' = Callbacks
  BY <1>1, ModeStays
<1>3. TypeOK'
  BY Parts, Consts DEF TypeOK, HandleReply, locks, task, history
<1>4. Locks'
  BY <1>2, <1>3, Parts DEF Locks, Busy, HandleReply, locks, task, history
<1>5. GetFindsAnswer'
  BY <1>3, Parts DEF TypeOK, GetFindsAnswer, HandleReply, task
<1>6. Reliable' => Exchange'
  BY <1>2, <1>3, Parts, Consts
     DEF TypeOK, Locks, Request, Reliable, Exchange, Exchanging, Waiting, SameRequest, Busy,
         HandleReply, task, history
<1>7. OneAtATime' => Agreement'
  BY <1>2, <1>3, Parts
     DEF Reliable, Exchange, Exchanging, Agreement, Granted, MtuAgrees, LinkAgrees, OneAtATime, Busy, HandleReply, task, history
<1>8. ~ Handles' => Silence'
  BY <1>2, <1>3, Parts DEF Silence, MtuAgrees, HandleReply
<1> QED
  BY <1>3, <1>4, <1>5, <1>6, <1>7, <1>8 DEF RequestInv

\* For any number of tasks and requests: the inductive invariant.
THEOREM RequestInvariant == Spec => []RequestInv
<1>1. RequestInv /\ [Next]_vars => RequestInv'
  <2> SUFFICES ASSUME RequestInv, [Next]_vars
               PROVE  RequestInv'
    OBVIOUS
  <2>1. CASE \E t \in Tasks : Ask(t) \/ Task(t) \/ Interrupt(t)
    BY <2>1, AskKeeps, LockKeeps, FillKeeps, PutKeeps, WaitOverKeeps,
      ExpireKeeps, GetAnswerKeeps, CopyKeeps, UnlockKeeps, RelockKeeps,
      FinishKeeps, InterruptKeeps DEF Task
  <2>2. CASE Handle
    BY <2>2, HandleGetKeeps, HandleSwitchKeeps, HandleCallKeeps,
      HandleStoreKeeps, HandleReplyKeeps DEF Handle
  <2>3. CASE UNCHANGED vars
    BY <2>3, StutterKeeps
  <2> QED
    BY <2>1, <2>2, <2>3 DEF Next
<1> QED
  BY <1>1, InitHolds, PTL DEF Spec

\* "This should never happen": a woken task finds an answer, also when others time
\* out, are interrupted or do not wait.
THEOREM AnswerIsFound == Spec => []GetFindsAnswer
<1>1. RequestInv => GetFindsAnswer
  BY DEF RequestInv
<1> QED
  BY <1>1, RequestInvariant, PTL

\* As long as nobody gives up, every caller is told what the process decided on
\* its own request.
THEOREM AnswersAreOwn == Spec => []AnswerIsOwn
<1>1. RequestInv => AnswerIsOwn
  BY DEF RequestInv, Exchange, Exchanging, AnswerIsOwn
<1> QED
  BY <1>1, RequestInvariant, PTL

\* And the buffer does not change while the process looks at it.
THEOREM BufferStaysStable == Spec => []BufferIsStable
<1>1. RequestInv => BufferIsStable
  BY DEF RequestInv, Exchange, Exchanging, Waiting, SameRequest, BufferIsStable
<1> QED
  BY <1>1, RequestInvariant, PTL

\* Between requests kernel and process agree, also when the process never answers.
THEOREM KernelAndProcessAgree == Spec => []DeviceAgrees
<1>1. RequestInv => DeviceAgrees
  BY DEF RequestInv, Agreement, Granted, LinkAgrees, Silence, DeviceAgrees
<1> QED
  BY <1>1, RequestInvariant, PTL
=============================================================================
