--------------------------- MODULE Service_proofs ---------------------------
(***************************************************************************)
(* Safety of the process for any number of requests, rows and connections: *)
(* connections come back, and the storage is closed after the last request *)
(* has returned.                                                           *)
(***************************************************************************)
EXTENDS Service, TLAPS

(* A cycle starts when the goroutines of the last one have returned        *)
(* (wg.Wait), and an Update is made only while the bound allows one.       *)
CyclesDoNotOverlap ==
  pc[Monitor] # "join" => \A g \in Rows : pc[g] \in {"idle", "done"}

UpdatesLeft == \A g \in Rows : pc[g] = "update" => updates[g] > 0

(* The server starts after the preparations and no request runs before it  *)
(* listens.  From the end of server.Stop on none is running and none comes *)
(* in, unless Stop missed the server, and only then the pool is closed.    *)
DrainedBeforeClosing ==
  /\ main \in {"config", "database", "key", "node", "serve"} => server = "off"
  /\ main = "drain" => server = "stopped"
  /\ server \in {"off", "starting", "missed"} => \A g \in Requests : ~InFlight(g)
  /\ main \in {"stopStorage", "close", "rest"} =>
       /\ server \in {"stopped", "missed", "late"}
       /\ server = "stopped" => \A g \in Requests : ~InFlight(g)
  /\ pool \in {"closing", "closed"} => main \in {"close", "rest"} \union Ended
  /\ main \in Ended => \A g \in Goroutines : pc[g] = "done"

(* The inductive invariant of the process.                                 *)
ServiceInv ==
  /\ TypeOK
  /\ NoConnectionLeaks
  /\ CyclesDoNotOverlap
  /\ UpdatesLeft
  /\ DrainedBeforeClosing

(* At the start of cmd/main.go nothing runs and nothing is open.           *)
LEMMA InitInv == Init => ServiceInv
BY PoolAssumption, UpdatesAssumption, DistinctAssumption
DEF Init, ServiceInv, TypeOK, ServerStates, NoConnectionLeaks, CyclesDoNotOverlap, UpdatesLeft,
    DrainedBeforeClosing, Booting, Stopping, Ended, PCs, Goroutines, Requests, InFlight

(* A step of one request that leaves main, server and pool alone, ends at  *)
(* a statement of a request and keeps or gives back its connection.        *)
LEMMA RequestStep ==
  ASSUME ServiceInv, NEW g \in Requests, NEW next \in PCs,
         Alive, pc[g] \notin {"done"},
         To(g, next), NothingElse,
         pc[g] # "idle" \/ server \in {"on", "late"},
         \/ inTx' = inTx /\ (g \in inTx => next \in {"lookup", "nonce", "add", "result", "end"})
         \/ inTx' = inTx \ {g}
         \/ inTx' = inTx \union {g} /\ next \in {"lookup", "nonce", "add", "result", "end"}
  PROVE  ServiceInv'
<1> USE PoolAssumption, UpdatesAssumption, DistinctAssumption
<1>1. g \in Goroutines /\ g \notin Rows /\ g # Monitor
  BY DEF Goroutines, Requests
<1>2. TypeOK'
  BY <1>1 DEF ServiceInv, TypeOK, To, NothingElse, mainVars
<1>3. NoConnectionLeaks'
  BY <1>1 DEF ServiceInv, TypeOK, NoConnectionLeaks, To, Goroutines
<1>4. CyclesDoNotOverlap' /\ UpdatesLeft'
  BY <1>1 DEF ServiceInv, TypeOK, CyclesDoNotOverlap, UpdatesLeft, To, NothingElse, Goroutines
<1>5. DrainedBeforeClosing'
  BY <1>1 DEF ServiceInv, TypeOK, ServerStates, DrainedBeforeClosing, To, NothingElse, mainVars,
              Alive, InFlight, Ended, Goroutines, Requests
<1> QED
  BY <1>2, <1>3, <1>4, <1>5 DEF ServiceInv

(* Every step of a handler is such a step.                                 *)
LEMMA RequestInv ==
  ASSUME ServiceInv, NEW g \in Requests,
         Receive(g) \/ SendTx(g) \/ GetTxStatus(g) \/ healthHandler(g)
  PROVE  ServiceInv'
<1> USE DistinctAssumption
<1>1. ASSUME Receive(g) PROVE ServiceInv'
  <2>1. g \notin inTx
    BY <1>1 DEF ServiceInv, NoConnectionLeaks, Receive, From
  <2>2. PICK next \in PCs : To(g, next)
    BY <1>1 DEF Receive, PCs
  <2> QED
    BY <1>1, <2>1, <2>2, RequestStep DEF Receive, From
<1>2. ASSUME Checks(g) PROVE ServiceInv'
  <2>1. g \notin inTx
    BY <1>2 DEF ServiceInv, NoConnectionLeaks, Checks, From
  <2>2. PICK next \in PCs : To(g, next)
    BY <1>2 DEF Checks, PCs
  <2> QED
    BY <1>2, <2>1, <2>2, RequestStep DEF Checks, From
<1>3. ASSUME Begin(g) \/ healthHandler(g) PROVE ServiceInv'
  <2>1. g \notin inTx /\ Alive /\ pc[g] \notin {"done", "idle"}
    BY <1>3 DEF ServiceInv, NoConnectionLeaks, Begin, healthHandler, From
  <2>2. PICK next \in {"end", "lookup", "result", "done"} :
          /\ To(g, next)
          /\ NothingElse
          /\ \/ inTx' = inTx
             \/ inTx' = inTx \union {g} /\ next \in {"lookup", "nonce", "add", "result", "end"}
    BY <1>3 DEF Begin, healthHandler, BeginStateTransaction
  <2>3. next \in PCs
    BY <2>2 DEF PCs
  <2> QED
    BY <2>1, <2>2, <2>3, RequestStep
<1>4. ASSUME Lookup(g) \/ NonceQuery(g) \/ Add(g) PROVE ServiceInv'
  <2>1. PICK next \in {"nonce", "add", "end"} : To(g, next) /\ NothingElse
    BY <1>4 DEF Lookup, NonceQuery, Add
  <2>2. Alive /\ pc[g] \notin {"done", "idle"} /\ inTx' = inTx
    BY <1>4 DEF Lookup, NonceQuery, Add, From
  <2>3. next \in PCs /\ next \in {"lookup", "nonce", "add", "result", "end"}
    BY <2>1 DEF PCs
  <2> QED
    BY <2>1, <2>2, <2>3, RequestStep
<1>5. ASSUME EndTx(g) PROVE ServiceInv'
  <2>1. /\ Alive /\ pc[g] \notin {"done", "idle"} /\ inTx' = inTx \ {g}
        /\ To(g, "done") /\ NothingElse /\ "done" \in PCs
    BY <1>5 DEF EndTx, From, PCs
  <2> QED
    BY <2>1, RequestStep
<1> QED
  BY <1>1, <1>2, <1>3, <1>4, <1>5 DEF SendTx, GetTxStatus
(* The context of a request ends.                                          *)
LEMMA ExpireInv ==
  ASSUME ServiceInv, NEW g \in Requests, Expire(g)
  PROVE  ServiceInv'
BY DEF ServiceInv, TypeOK, NoConnectionLeaks, CyclesDoNotOverlap, UpdatesLeft,
       DrainedBeforeClosing, Expire, mainVars, InFlight

(* The loop of the transaction manager.                                    *)
LEMMA LoopInv ==
  ASSUME ServiceInv, Loop
  PROVE  ServiceInv'
<1> USE UpdatesAssumption, DistinctAssumption DEF Requests, Goroutines
<1>1. Monitor \notin Requests /\ Monitor \notin Rows /\ Monitor \notin inTx
  BY DEF ServiceInv, TypeOK
<1>2. ASSUME NEW next \in PCs, Alive, To(Monitor, next), inTx' = inTx,
             UNCHANGED <<main, server, pool, updates>>,
             cancel' \in {"nil", "set", "called"},
             pc[Monitor] # "join" \/ \A g \in Rows : pc[g] = "idle"
      PROVE  ServiceInv'
  <2>1. TypeOK'
    BY <1>1, <1>2 DEF ServiceInv, TypeOK, To
  <2>2. NoConnectionLeaks'
    BY <1>1, <1>2 DEF ServiceInv, TypeOK, NoConnectionLeaks, To
  <2>3. CyclesDoNotOverlap' /\ UpdatesLeft'
    BY <1>1, <1>2 DEF ServiceInv, TypeOK, CyclesDoNotOverlap, UpdatesLeft, To
  <2>4. DrainedBeforeClosing'
    BY <1>1, <1>2 DEF ServiceInv, TypeOK, ServerStates, DrainedBeforeClosing, To, Alive, InFlight, Ended
  <2> QED
    BY <2>1, <2>2, <2>3, <2>4 DEF ServiceInv
<1>3. CASE Start \/ Select \/ MonitorJoin
  <2>1. PICK next \in {"sleep", "query", "done"} : To(Monitor, next)
    BY <1>3 DEF Start, Select, MonitorJoin
  <2>2. next \in PCs
    BY <2>1 DEF PCs
  <2>3. /\ Alive /\ inTx' = inTx /\ UNCHANGED <<main, server, pool, updates>>
        /\ cancel' \in {"nil", "set", "called"}
        /\ pc[Monitor] # "join" \/ \A g \in Rows : pc[g] = "idle"
    BY <1>3 DEF Start, Select, MonitorJoin, From, NothingElse, mainVars, ServiceInv, TypeOK
  <2> QED
    BY <1>2, <2>1, <2>2, <2>3
<1>4. CASE MonitorQuery
  <2>1. CASE AcquireFails(Monitor) /\ To(Monitor, "sleep") /\ UNCHANGED updates
    <3>1. "sleep" \in PCs
      BY DEF PCs
    <3>2. /\ Alive /\ inTx' = inTx /\ UNCHANGED <<main, server, pool, updates>>
          /\ cancel' \in {"nil", "set", "called"} /\ pc[Monitor] # "join"
      BY <1>4, <2>1 DEF MonitorQuery, From, mainVars, ServiceInv, TypeOK
    <3> QED
      BY <1>2, <2>1, <3>1, <3>2
  <2>2. ASSUME NEW S \in SUBSET Rows,
               pc' = [g \in Goroutines |-> IF g = Monitor THEN "join"
                                            ELSE IF g \in S THEN "l1" ELSE pc[g]],
               updates' = [g \in Rows |-> IF g \in S THEN MaxUpdates ELSE 0],
               UNCHANGED late
        PROVE  ServiceInv'
    <3>1. Alive /\ pc[Monitor] = "query" /\ UNCHANGED <<mainVars, inTx>>
      BY <1>4 DEF MonitorQuery, From
    <3>2. TypeOK'
      BY <1>1, <2>2, <3>1 DEF ServiceInv, TypeOK, mainVars, PCs
    <3>3. NoConnectionLeaks'
      BY <1>1, <2>2, <3>1 DEF ServiceInv, TypeOK, NoConnectionLeaks
    <3>4. CyclesDoNotOverlap'
      BY <2>2 DEF CyclesDoNotOverlap
    <3>5. UpdatesLeft'
      BY <1>1, <2>2, <3>1 DEF ServiceInv, CyclesDoNotOverlap, UpdatesLeft
    <3>6. DrainedBeforeClosing'
      BY <1>1, <2>2, <3>1
      DEF ServiceInv, DrainedBeforeClosing, mainVars, Alive, InFlight, Ended
    <3> QED
      BY <3>2, <3>3, <3>4, <3>5, <3>6 DEF ServiceInv
  <2> QED
    BY <1>4, <2>1, <2>2 DEF MonitorQuery
<1> QED
  BY <1>3, <1>4 DEF Loop

(* A goroutine of monitorTx: it runs while the monitor waits for it.       *)
LEMMA RowInv ==
  ASSUME ServiceInv, NEW g \in Rows, monitorTx(g)
  PROVE  ServiceInv'
<1> USE UpdatesAssumption, DistinctAssumption DEF Requests, Goroutines
<1>1. g \notin Requests /\ g # Monitor /\ g \notin inTx
  BY DEF ServiceInv, TypeOK
<1>2. PICK next \in {"l1", "update", "idle"} : To(g, next)
  BY DEF monitorTx, CallL1, UpdateRow
<1>3. /\ Alive /\ pc[g] \in {"l1", "update"} /\ UNCHANGED <<mainVars, inTx>>
      /\ \/ updates' = updates /\ (next = "update" => updates[g] > 0)
         \/ /\ pc[g] = "update" /\ next # "update"
            /\ updates' = [updates EXCEPT ![g] = @ - 1]
  <2>1. CASE CallL1(g)
    BY <1>2, <2>1 DEF CallL1, From, To, NothingElse, mainVars, ServiceInv, TypeOK
  <2>2. CASE UpdateRow(g)
    BY <1>2, <2>2 DEF UpdateRow, From, To, mainVars, ServiceInv, TypeOK
  <2> QED
    BY <2>1, <2>2 DEF monitorTx
<1>4. pc[Monitor] = "join"
  BY <1>3 DEF ServiceInv, CyclesDoNotOverlap
<1>5. TypeOK'
  BY <1>2, <1>3 DEF ServiceInv, TypeOK, UpdatesLeft, To, mainVars, PCs
<1>6. NoConnectionLeaks'
  BY <1>1, <1>2, <1>3 DEF ServiceInv, TypeOK, NoConnectionLeaks, To
<1>7. CyclesDoNotOverlap' /\ UpdatesLeft'
  BY <1>1, <1>2, <1>3, <1>4 DEF ServiceInv, TypeOK, CyclesDoNotOverlap, UpdatesLeft, To
<1>8. DrainedBeforeClosing'
  BY <1>1, <1>2, <1>3
  DEF ServiceInv, TypeOK, ServerStates, DrainedBeforeClosing, To, mainVars, Alive, InFlight, Ended
<1> QED
  BY <1>5, <1>6, <1>7, <1>8 DEF ServiceInv

(* The main goroutine, the server's start and the signal.  The process     *)
(* ends with all its goroutines, or main goes on and they are left alone.  *)
LEMMA MainInv ==
  ASSUME ServiceInv, start \/ Listen \/ Interrupt \/ waitSignal
  PROVE  ServiceInv'
<1> USE DEF Booting, Stopping, Ended
<1>1. ASSUME NEW how \in Ended, Die(how),
             server' \in ServerStates,
             cancel' \in {"nil", "set", "called"}, pool' = pool
      PROVE  ServiceInv'
  <2>1. TypeOK'
    BY <1>1, UpdatesAssumption DEF ServiceInv, TypeOK, Die, PCs
  <2>2. NoConnectionLeaks' /\ UpdatesLeft'
    BY <1>1 DEF Die, NoConnectionLeaks, UpdatesLeft, Goroutines
  <2>3. CyclesDoNotOverlap' /\ DrainedBeforeClosing'
    BY <1>1 DEF Die, CyclesDoNotOverlap, DrainedBeforeClosing, Goroutines, Requests, InFlight
  <2> QED
    BY <2>1, <2>2, <2>3 DEF ServiceInv
<1>2. ASSUME UNCHANGED goroutineVars, TypeOK', DrainedBeforeClosing'
      PROVE  ServiceInv'
  BY <1>2 DEF ServiceInv, goroutineVars, NoConnectionLeaks, CyclesDoNotOverlap, UpdatesLeft
<1>3. CASE Prepare
  <2>1. CASE (LoadConfig \/ ConnectDB \/ LoadKey \/ ConnectL1) /\ UNCHANGED goroutineVars
    <3>1. TypeOK' /\ DrainedBeforeClosing'
      BY <1>3, <2>1
      DEF ServiceInv, TypeOK, ServerStates, DrainedBeforeClosing, Prepare, LoadConfig, ConnectDB, LoadKey,
          ConnectL1, goroutineVars, InFlight
    <3> QED
      BY <1>2, <2>1, <3>1
  <2>2. CASE Die("failed") /\ UNCHANGED pool
    BY <1>1, <1>3, <2>2 DEF Prepare, ServiceInv, TypeOK
  <2> QED
    BY <1>3, <2>1, <2>2 DEF Prepare
<1>4. CASE Launch
  <2>1. TypeOK' /\ DrainedBeforeClosing'
    BY <1>4 DEF ServiceInv, TypeOK, ServerStates, DrainedBeforeClosing, Launch, goroutineVars, InFlight
  <2> QED
    BY <1>2, <1>4, <2>1 DEF Launch
<1>5. CASE Listen
  <2>1. CASE server' \in {"on", "late"} /\ UNCHANGED <<main, goroutineVars>>
    <3>1. TypeOK' /\ DrainedBeforeClosing'
      BY <1>5, <2>1 DEF ServiceInv, TypeOK, ServerStates, DrainedBeforeClosing, Listen, goroutineVars, InFlight
    <3> QED
      BY <1>2, <2>1, <3>1
  <2>2. CASE server' = "stopped" /\ Die("failed")
    BY <1>1, <1>5, <2>2 DEF Listen, ServiceInv, TypeOK, ServerStates
  <2> QED
    BY <1>5, <2>1, <2>2 DEF Listen
<1>6. CASE runPrometheusServer \/ Interrupt
  <2>1. CASE main' \in {"wait", "stopManager"} /\ UNCHANGED goroutineVars
    <3>1. TypeOK' /\ DrainedBeforeClosing'
      BY <1>6, <2>1
      DEF ServiceInv, TypeOK, ServerStates, DrainedBeforeClosing, runPrometheusServer, Interrupt,
          goroutineVars, InFlight
    <3> QED
      BY <1>2, <2>1, <3>1
  <2>2. CASE Die("failed") \/ Die("killed")
    BY <1>1, <1>6, <2>2 DEF runPrometheusServer, Interrupt, ServiceInv, TypeOK
  <2> QED
    BY <1>6, <2>1, <2>2 DEF runPrometheusServer, Interrupt
<1>7. CASE StopManager
  <2>1. CASE Die("panicked") /\ UNCHANGED cancel
    BY <1>1, <1>7, <2>1 DEF StopManager, ServiceInv, TypeOK
  <2>2. CASE cancel' = "called" /\ main' = "stopServer" /\ UNCHANGED goroutineVars
    <3>1. TypeOK' /\ DrainedBeforeClosing'
      BY <1>7, <2>2
      DEF ServiceInv, TypeOK, ServerStates, DrainedBeforeClosing, StopManager, goroutineVars, InFlight
    <3> QED
      BY <1>2, <2>2, <3>1
  <2> QED
    BY <1>7, <2>1, <2>2 DEF StopManager
<1>8. CASE StopServer \/ StopStorage
  <2>1. TypeOK' /\ DrainedBeforeClosing'
    BY <1>8
    DEF ServiceInv, TypeOK, ServerStates, DrainedBeforeClosing, StopServer, StopStorage, goroutineVars, InFlight
  <2> QED
    BY <1>2, <1>8, <2>1 DEF StopServer, StopStorage
<1>9. CASE Exit
  BY <1>1, <1>9 DEF Exit, ServiceInv, TypeOK
<1> QED
  BY <1>3, <1>4, <1>5, <1>6, <1>7, <1>8, <1>9 DEF start, waitSignal

(* The invariant of the process holds in every state.                      *)
THEOREM ServiceSafety == Spec => []ServiceInv
<1>1. ASSUME ServiceInv, [Next]_vars PROVE ServiceInv'
  <2>1. CASE UNCHANGED vars
    BY <1>1, <2>1
    DEF vars, ServiceInv, TypeOK, NoConnectionLeaks, CyclesDoNotOverlap, UpdatesLeft,
        DrainedBeforeClosing, InFlight
  <2>2. CASE Next
    BY <1>1, <2>2, RequestInv, ExpireInv, LoopInv, RowInv, MainInv DEF Next, Requests
  <2> QED
    BY <1>1, <2>1, <2>2
<1> QED
  BY <1>1, InitInv, PTL DEF Spec

(* cmd/main.go, rpc.go, txmanager.go: every goroutine is at a statement of *)
(* its own, and only requests hold transactions.                           *)
THEOREM ServiceTypeCorrect == Spec => []TypeOK
BY ServiceSafety, PTL DEF ServiceInv

(* rpc.go and healthHandler: no error return keeps a connection.           *)
THEOREM ConnectionsComeBack == Spec => []NoConnectionLeaks
BY ServiceSafety, PTL DEF ServiceInv

(* cmd/main.go: the storage is closed after the last request has returned. *)
THEOREM StorageIsClosedLast == Spec => []StorageOutlivesRequests
<1>1. ServiceInv => StorageOutlivesRequests
  BY DEF ServiceInv, TypeOK, ServerStates, DrainedBeforeClosing, StorageOutlivesRequests, InFlight, Goroutines, Requests
<1> QED
  BY <1>1, ServiceSafety, PTL
=============================================================================
