------------------------------ MODULE Service ------------------------------
(***************************************************************************)
(* The process: start and stop of its services in cmd/main.go, and the     *)
(* goroutines of the JSON-RPC server, the health handler and the           *)
(* transaction manager as users of one pool of database connections.  What *)
(* they compute is left to Interop and TxManager; here a call returns,     *)
(* fails, runs into its deadline or, without a deadline, may never return. *)
(***************************************************************************)
EXTENDS Naturals, FiniteSets

CONSTANTS
  Senders,     \* interop_sendTx requests
  Readers,     \* interop_getTxStatus requests and health checks
  Rows,        \* monitored rows, one goroutine each
  Monitor,     \* the goroutine of txmanager.Client.Start
  PoolSize,    \* DB.MaxConns
  MaxUpdates   \* bound: Updates one goroutine makes in one cycle

ASSUME PoolAssumption == PoolSize \in Nat \ {0}
ASSUME UpdatesAssumption == MaxUpdates \in Nat
ASSUME DistinctAssumption ==
  /\ Senders \intersect Readers = {}
  /\ (Senders \union Readers) \intersect Rows = {}
  /\ Monitor \notin Senders \union Readers \union Rows

Requests == Senders \union Readers
Goroutines == Requests \union Rows \union {Monitor}

VARIABLES
  main,     \* the statement start has reached
  server,   \* the JSON-RPC server; "missed" by a Stop that came too early
  cancel,   \* Client.cancel: nil, set by Start or called by Stop
  pool,     \* the pgxpool: open, being closed, or closed
  pc,       \* where each goroutine is
  inTx,     \* goroutines with an open database transaction
  late,     \* requests whose context has ended
  updates   \* Updates each row's goroutine may still make

vars == <<main, server, cancel, pool, pc, inTx, late, updates>>
goroutineVars == <<pc, inTx, late, updates>>
mainVars == <<main, server, cancel, pool>>

Booting == {"config", "database", "key", "node", "serve", "manager", "metrics"}
Stopping == {"stopManager", "stopServer", "drain", "stopStorage", "close", "rest"}
Ended == {"exited", "failed", "panicked", "killed"}
ServerStates == {"off", "starting", "on", "stopped", "missed", "late"}

PCs == {"off", "idle", "done", "checks", "begin", "probe", "lookup", "nonce",
        "add", "result", "end", "sleep", "query", "join", "l1", "update"}

(* Every goroutine is at a statement of its own, and only requests have    *)
(* transactions and contexts that end: the monitor and its goroutines use  *)
(* the pool directly (a nil dbTx) on context.Background.                   *)
TypeOK ==
  /\ main \in Booting \union {"wait"} \union Stopping \union Ended
  /\ server \in ServerStates
  /\ cancel \in {"nil", "set", "called"}
  /\ pool \in {"none", "open", "closing", "closed"}
  /\ pc \in [Goroutines -> PCs]
  /\ inTx \subseteq Requests
  /\ late \subseteq Requests
  /\ updates \in [Rows -> 0..MaxUpdates]

Init ==
  /\ main = "config" /\ server = "off" /\ cancel = "nil" /\ pool = "none"
  /\ pc = [g \in Goroutines |-> IF g = Monitor THEN "off" ELSE "idle"]
  /\ inTx = {}
  /\ late = {}
  /\ updates = [g \in Rows |-> 0]

Alive == main \notin Ended
InFlight(g) == pc[g] \notin {"idle", "done"}

---------------------------------------------------------------------------
(* The pool.  A transaction keeps a connection from Begin to Commit or     *)
(* Rollback, a query outside one takes a connection and gives it back in   *)
(* one step; both wait for a free one.  A closed pool refuses.             *)
Free == pool = "open" /\ Cardinality(inTx) < PoolSize

(* An acquire fails when the context has ended, when the pool is closed or *)
(* when a new connection cannot be made; while it waits only the first two *)
(* can happen.                                                             *)
AcquireFails(g) == g \in late \/ pool # "open" \/ Free

(* One statement of a goroutine; a handler that returns drops its context. *)
From(g, here) == Alive /\ pc[g] = here
To(g, next) ==
  /\ pc' = [pc EXCEPT ![g] = next]
  /\ late' = IF next = "done" THEN late \ {g} ELSE late
NothingElse == UNCHANGED <<mainVars, updates>>

(* The process ends in one of several ways and its goroutines with it. *)
Die(how) ==
  /\ main' = how
  /\ pc' = [g \in Goroutines |-> "done"]
  /\ inTx' = {}
  /\ late' = {}
  /\ updates' = [g \in Rows |-> 0]

---------------------------------------------------------------------------
(* Requests.                                                               *)

(* The server hands a request to its handler: SendTx, which first runs its *)
(* checks, GetTxStatus or the health handler ("probe").                    *)
Receive(g) ==
  /\ From(g, "idle")
  /\ server \in {"on", "late"}
  /\ \/ g \in Senders /\ To(g, "checks")
     \/ g \in Readers /\ (To(g, "begin") \/ To(g, "probe"))
  /\ UNCHANGED inTx /\ NothingElse

(* The deadline of SendTx (WriteTimeout) and of GetTxStatus (ReadTimeout); *)
(* the context of a health check ends when its client goes away.           *)
Expire(g) ==
  /\ Alive /\ InFlight(g) /\ g \notin late
  /\ late' = late \union {g}
  /\ UNCHANGED <<mainVars, pc, inTx, updates>>

(* CheckTx, Verify and Execute, without a connection.  The lookups of the  *)
(* sequencer take no context.                                              *)
Checks(g) ==
  /\ From(g, "checks")
  /\ \/ g \notin late /\ To(g, "begin")
     \/ To(g, "done")
  /\ UNCHANGED inTx /\ NothingElse

(* BeginStateTransaction; its error is that of the handler. *)
BeginStateTransaction(g, next) ==
  \/ g \notin late /\ Free /\ inTx' = inTx \union {g} /\ To(g, next)
  \/ AcquireFails(g) /\ To(g, "done") /\ UNCHANGED inTx

Begin(g) ==
  /\ From(g, "begin")
  /\ BeginStateTransaction(g, IF g \in Senders THEN "lookup" ELSE "result")
  /\ NothingElse

(* Faulty variant: SendTx returns without Rollback when Settle fails. *)
LookupLeaks(g) ==
  /\ From(g, "lookup")
  /\ To(g, "nonce") \/ To(g, "done")
  /\ UNCHANGED inTx /\ NothingElse

(* Settle builds the call data: another lookup of the sequencer without a  *)
(* context, now with a connection in hand.                                 *)
Lookup(g) ==
  /\ From(g, "lookup")
  /\ To(g, "nonce") \/ To(g, "end")
  /\ UNCHANGED inTx /\ NothingElse

(* Faulty variant: the query does not look at the request's context. *)
NonceQueryNoContext(g) ==
  /\ From(g, "nonce")
  /\ \/ Free /\ To(g, "add")
     \/ pool # "open" /\ To(g, "end")
  /\ UNCHANGED inTx /\ NothingElse

(* getTxNonce passes a nil dbTx: its query needs a second connection.      *)
NonceQuery(g) ==
  /\ From(g, "nonce")
  /\ \/ g \notin late /\ Free /\ To(g, "add")
     \/ AcquireFails(g) /\ To(g, "end")
  /\ UNCHANGED inTx /\ NothingElse

(* The rest of Client.Add up to its INSERT, within the transaction; Result *)
(* in GetTxStatus.  Then Commit or Rollback.                               *)
Add(g) ==
  /\ From(g, "add") \/ From(g, "result")
  /\ To(g, "end")
  /\ UNCHANGED inTx /\ NothingElse

(* Commit and Rollback give the connection back whatever they return. *)
EndTx(g) ==
  /\ From(g, "end")
  /\ inTx' = inTx \ {g}
  /\ To(g, "done")
  /\ NothingElse

(* The health handler begins a transaction and rolls it back (EndTx). *)
healthHandler(g) ==
  From(g, "probe") /\ BeginStateTransaction(g, "end") /\ NothingElse

SendTx(g) == Checks(g) \/ Begin(g) \/ Lookup(g) \/ NonceQuery(g) \/ Add(g) \/ EndTx(g)
GetTxStatus(g) == Begin(g) \/ Add(g) \/ EndTx(g)

---------------------------------------------------------------------------
(* The transaction manager.                                                *)

(* Client.Start: the context is created by the new goroutine itself. *)
Start ==
  /\ From(Monitor, "off")
  /\ main \notin Booting \ {"metrics"}
  /\ cancel' = "set"
  /\ To(Monitor, "sleep")
  /\ UNCHANGED <<main, server, pool, inTx, updates>>

(* The select of the loop: the context is done, or the timer fires. *)
Select ==
  /\ From(Monitor, "sleep")
  /\ \/ cancel = "called" /\ To(Monitor, "done")
     \/ To(Monitor, "query")
  /\ UNCHANGED inTx /\ NothingElse

(* Faulty variant: the query runs in a transaction nobody ends. *)
MonitorQueryInTx ==
  /\ From(Monitor, "query")
  /\ Free
  /\ inTx' = inTx \union {Monitor}
  /\ To(Monitor, "join")
  /\ NothingElse

(* monitorTxs runs on context.Background: GetByStatus waits for a          *)
(* connection as long as it takes, or fails with the pool.  Each row it    *)
(* finds gets its goroutine.                                               *)
MonitorQuery ==
  /\ From(Monitor, "query")
  /\ \/ /\ Free
        /\ \E S \in SUBSET Rows :
             /\ pc' = [g \in Goroutines |-> IF g = Monitor THEN "join"
                                             ELSE IF g \in S THEN "l1" ELSE pc[g]]
             /\ updates' = [g \in Rows |-> IF g \in S THEN MaxUpdates ELSE 0]
        /\ UNCHANGED late
     \/ AcquireFails(Monitor) /\ To(Monitor, "sleep") /\ UNCHANGED updates
  /\ UNCHANGED <<mainVars, inTx>>

(* wg.Wait. *)
MonitorJoin ==
  /\ From(Monitor, "join")
  /\ \A g \in Rows : pc[g] = "idle"
  /\ To(Monitor, "sleep")
  /\ UNCHANGED inTx /\ NothingElse

(* monitorTx: calls to L1 without a deadline, with no connection held,     *)
(* then an Update or the end.                                              *)
CallL1(g) ==
  /\ From(g, "l1")
  /\ \/ updates[g] > 0 /\ To(g, "update")
     \/ To(g, "idle")
  /\ UNCHANGED inTx /\ NothingElse

UpdateRow(g) ==
  /\ From(g, "update")
  /\ \/ Free /\ (To(g, "l1") \/ To(g, "idle"))
     \/ AcquireFails(g) /\ To(g, "idle")
  /\ updates' = [updates EXCEPT ![g] = @ - 1]
  /\ UNCHANGED <<mainVars, inTx>>

monitorTx(g) == CallL1(g) \/ UpdateRow(g)

Loop == Start \/ Select \/ MonitorQuery \/ MonitorJoin

---------------------------------------------------------------------------
(* The main goroutine.                                                     *)

(* What has to succeed before any service runs; an error ends the process. *)
LoadConfig == main = "config" /\ main' = "database" /\ UNCHANGED pool

(* NewSQLDB opens the pool, and RunMigrationsUp uses a connection of its   *)
(* own.                                                                    *)
ConnectDB == main = "database" /\ main' = "key" /\ pool' = "open"

(* useKMSAuth or useLocalAuth. *)
LoadKey == main = "key" /\ main' = "node" /\ UNCHANGED pool

(* DialContext and ChainID. *)
ConnectL1 == main = "node" /\ main' = "serve" /\ UNCHANGED pool

Prepare ==
  /\ \/ (LoadConfig \/ ConnectDB \/ LoadKey \/ ConnectL1) /\ UNCHANGED goroutineVars
     \/ /\ main \in {"config", "database", "key", "node"}
        /\ Die("failed") /\ UNCHANGED pool
  /\ UNCHANGED <<server, cancel>>

Launch ==
  /\ \/ main = "serve" /\ main' = "manager" /\ server' = "starting"
     \/ main = "manager" /\ main' = "metrics" /\ UNCHANGED server
  /\ UNCHANGED <<cancel, pool, goroutineVars>>

(* The goroutine of server.Start; an error is fatal for the process. *)
Listen ==
  /\ Alive /\ server \in {"starting", "missed"}
  /\ \/ /\ server' = IF server = "starting" THEN "on" ELSE "late"
        /\ UNCHANGED <<main, goroutineVars>>
     \/ server' = "stopped" /\ Die("failed")
  /\ UNCHANGED <<cancel, pool>>

(* runPrometheusServer: an address that does not resolve ends the process  *)
(* although the services are already running.                              *)
runPrometheusServer ==
  /\ main = "metrics"
  /\ \/ main' = "wait" /\ UNCHANGED goroutineVars
     \/ Die("failed")
  /\ UNCHANGED <<server, cancel, pool>>

(* os.Interrupt.  waitSignal is the first to ask for it; a later one stays *)
(* in the channel and is never read.                                       *)
Interrupt ==
  /\ \/ main = "wait" /\ main' = "stopManager" /\ UNCHANGED goroutineVars
     \/ main \in Booting /\ Die("killed")
  /\ UNCHANGED <<server, cancel, pool>>

(* Client.Stop calls c.cancel, which is nil until Start has run. *)
StopManager ==
  /\ main = "stopManager"
  /\ \/ cancel = "nil" /\ Die("panicked") /\ UNCHANGED cancel
     \/ /\ cancel # "nil" /\ cancel' = "called"
        /\ main' = "stopServer" /\ UNCHANGED goroutineVars
  /\ UNCHANGED <<server, pool>>

(* Faulty variant: the storage is closed while requests are running. *)
StopServerNoWait ==
  /\ main = "stopServer"
  /\ main' = "stopStorage"
  /\ server' = "stopped"
  /\ UNCHANGED <<cancel, pool, goroutineVars>>

(* server.Stop: no request is taken any more, and it returns when the      *)
(* running ones have.  Nothing orders it after the goroutine of            *)
(* server.Start: when that has not come to listen yet, Stop may find       *)
(* nothing to stop.                                                        *)
StopServer ==
  /\ \/ main = "stopServer" /\ main' = "drain" /\ server' = "stopped"
     \/ /\ main = "stopServer" /\ server = "starting"
        /\ main' = "stopStorage" /\ server' = "missed"
     \/ /\ main = "drain"
        /\ \A g \in Requests : ~InFlight(g)
        /\ main' = "stopStorage" /\ UNCHANGED server
  /\ UNCHANGED <<cancel, pool, goroutineVars>>

(* ethTxManagerStorage.Close refuses new users and waits for the           *)
(* connections that are out.                                               *)
StopStorage ==
  /\ \/ main = "stopStorage" /\ main' = "close" /\ pool' = "closing"
     \/ main = "close" /\ inTx = {} /\ main' = "rest" /\ pool' = "closed"
  /\ UNCHANGED <<server, cancel, goroutineVars>>

(* closePrometheus if there is one, the meter provider, os.Exit(0). *)
Exit ==
  /\ main = "rest"
  /\ Die("exited")
  /\ UNCHANGED <<server, cancel, pool>>

waitSignal == StopManager \/ StopServer \/ StopStorage \/ Exit

start == Prepare \/ Launch \/ runPrometheusServer

---------------------------------------------------------------------------
Next ==
  \/ start \/ Listen \/ Interrupt \/ waitSignal
  \/ Loop
  \/ \E g \in Rows : monitorTx(g)
  \/ \E g \in Requests : Receive(g) \/ Expire(g)
  \/ \E g \in Senders : SendTx(g)
  \/ \E g \in Readers : GetTxStatus(g) \/ healthHandler(g)

(* What does not wait for another process without a deadline goes on:      *)
(* Checks, Lookup and CallL1 are not here, nor are clients and signals.    *)
Prompt(g) == Begin(g) \/ healthHandler(g) \/ NonceQuery(g) \/ Add(g) \/ EndTx(g)

Spec == Init /\ [][Next]_vars

FairSpec ==
  /\ Spec
  /\ WF_vars(start \/ waitSignal) /\ WF_vars(Listen) /\ WF_vars(Loop)
  /\ \A g \in Rows : WF_vars(UpdateRow(g))
  /\ \A g \in Requests : WF_vars(Prompt(g))
  /\ \A g \in Requests : WF_vars(pc[g] # "probe" /\ Expire(g))

---------------------------------------------------------------------------
(* Only a request that still has to end its transaction keeps a            *)
(* connection: each of the error returns of SendTx, GetTxStatus and the    *)
(* health handler has given it back.                                       *)
NoConnectionLeaks ==
  \A g \in inTx : pc[g] \in {"lookup", "nonce", "add", "result", "end"}

(* The storage is closed only when no request needs it any more: the stop  *)
(* order of main, with a server.Stop that waits, never makes a request     *)
(* fail for a closed pool, unless the signal overtook server.Start and the *)
(* server came up behind its own Stop.                                     *)
StorageOutlivesRequests ==
  pool \in {"closing", "closed"} /\ server # "late" =>
    \A g \in Requests : ~InFlight(g)

Unanswered(g) == pc[g] \in {"checks", "lookup"}

(* Every request ends although SendTx waits for a second connection while  *)
(* it holds one: when all holders wait for each other the deadlines break  *)
(* the circle.  Only a request whose own lookup of the sequencer is never  *)
(* answered stays.                                                         *)
RequestsEnd ==
  \A g \in Requests :
    [](InFlight(g) /\ pc[g] # "probe" => <>(pc[g] = "done" \/ ~Alive) \/ <>[]Unanswered(g))

(* Every cycle of the monitor ends although nothing in it has a deadline:  *)
(* it always gets a connection, or an error, and comes to its next turn,   *)
(* unless a call to L1 without a deadline is never answered.               *)
MonitorRuns ==
  [](cancel = "set" =>
       \/ <>(pc[Monitor] = "sleep" \/ main \in Stopping \union Ended)
       \/ <>[](\E g \in Rows : pc[g] = "l1")
       \/ <>[](\E g \in Senders : pc[g] = "lookup"))

(* "terminating application gracefully..." ends: no stop function waits    *)
(* for ever for the goroutines of another, unless a call without deadline  *)
(* is never answered.                                                      *)
ShutdownEnds ==
  [](main \in Stopping => <>~Alive \/ <>[](\E g \in Senders : Unanswered(g)))
=============================================================================
