# TLA+ verification of agglayer

Agglayer is a web service that takes zero-knowledge proofs of batches from CDK
chains, checks them and settles them on L1. This directory holds TLA+ modules
that model the service, TLC configurations that check them on small instances
and TLAPS proofs of the properties that matter most. Paths below are relative
to the repository root (`src/` in `PROJECT.json`).

Contents: [inventory](#1-inventory), [modules](#2-modules-and-how-they-follow-the-code),
[runs](#3-runs), [bounds](#4-bounds-and-why-they-are-enough),
[fairness](#5-fairness), [proofs](#6-proofs), [findings](#7-where-code-and-comments-disagree),
[not modelled](#8-what-is-not-modelled), [plan](#9-plan).

## 1. Inventory

| Component | State it keeps | Operations | What makes it correct |
|---|---|---|---|
| Transaction manager, `txmanager/txmanager.go` | a goroutine per monitored row while a cycle runs, each with its copy of the row; nothing else in memory | `Add`, `Start` (the loop over `monitorTxs`), `monitorTx`, `Result`, `Stop` | nothing reaches L1 that is not recorded; nothing is settled twice; a verdict is true and final; attempts are bounded; what was accepted settles |
| Monitored rows, `txmanager/types/monitoredtx.go` | status, nonce, gas, gas price, block, history, retries; the other fields never change | `Tx`, `AddHistory`, string forms for storage | equal rows give equal transactions; an attempt is counted once |
| Postgres storage, `txmanager/pgstorage.go`, `db/migrations/` | `state.monitored_txs`, keyed by owner and id | `Add` (INSERT in the caller's transaction), `Get`, `GetByStatus`, `GetBySenderAndStatus`, `Update` (whole row) | no update loses a newer row; what is read back is what was stored |
| Etherman, `etherman/etherman.go` | contract bindings, the signing key | nonce, gas and receipt queries, `SignTx`, `SendTx`, `WaitTxToBeMined`, building the call data | none of its own: it passes the answers of the node on |
| L1 node (external) | pool, chain, account nonce | accepts, mines, evicts, reorganises | external |
| Executor, `interop/executor.go` | none; it reads the contracts, the full node of the rollup and the configuration | `CheckTx`, `Verify`, `Execute`, `Settle`, `GetTxStatus` | what is stored passed every check for its own rollup and was signed by somebody entitled to; one row per batch |
| JSON-RPC endpoints, `rpc/rpc.go` | an open database transaction, and so a connection, per request | `SendTx`, `GetTxStatus` | a hash is returned only for a stored row; every return gives the connection back; requests end |
| Hash and signature, `tx/tx.go` | none | `Hash`, `Sign`, `Signer` | one hash per transaction, whatever the spelling; no two transactions with one hash (the rollup id is left out: section 7) |
| Codecs, `rpc/types/`, `etherman/proof.go` | none | hex and proof encodings | a text is decoded to what it denotes or refused; a call carries the proof that was sent |
| RPC client, `client/client.go` | none | `SendTx`, `GetTxStatus`, `WaitTxToBeMined` | what a caller is told is true and stays; polling ends |
| Process, `cmd/main.go` | the running services and the connection pool | `start`, `waitSignal`, the health handler | everything started is stopped, in an order in which nothing that still runs loses what it needs |
| Database, `db/` | the connection pool | `BeginStateTransaction`, migrations at start | nobody waits for a connection for ever |
| Configuration, logging, network | constants | read once at start | none of interest here |

How they interact. A request (`interop_sendTx`) runs in a goroutine of the
JSON-RPC server: `CheckTx`, `Verify` (an `eth_call`), `Execute` (a comparison
with the full node of the rollup), then `Settle`, which calls `Client.Add`
inside a database transaction that `SendTx` commits. `Add` chooses the nonce
from the table *outside* that transaction. The loop of `Client.Start` knows
nothing of the requests: in every cycle it reads the unfinished rows and runs
one `monitorTx` goroutine per row; the cycle ends when all of them have
returned. Requests and monitor share the table, the pool of database
connections and the sender's account on L1. `main` starts the server, the
loop and the metrics server as goroutines and stops them one after the other
when a signal arrives, whatever the requests are doing.

What is hard here:

* many requests choose nonces at once, from a query that sees neither the rows
  the others are about to commit nor the rows that are already sent;
* `Update` overwrites the whole row from a copy that was read at the start of
  the cycle;
* between storing a hash, sending the transaction and storing the status
  `sent` the process may die, the database may fail after it stored, and the
  node may accept a transaction and not answer;
* the node replaces, evicts, reverts and reorganises what it was sent;
* one row has several transactions on their way, with the same nonce or not;
* the retry limit, the receipts found and the nonce review are tested in an
  order that decides between settled, failed and monitored for ever;
* `SendTx` checks the proof, the signature and the roots in four calls to three
  other systems, reads the sequencer three times, and stores the result later;
* a request holds one database connection while it waits for a second one and
  for a call to L1 that has no deadline;
* the answer of `SendTx` may be lost, so callers repeat it;
* a batch is known by the hash of texts: every spelling of it must be hashed as
  the same transaction and no other batch of the rollup may be.

`PROJECT.json` lists these hazards one by one, at the line where each bites.

## 2. Modules and how they follow the code

| Module | Models | Kind |
|---|---|---|
| `MonitoredTx` | row, Ethereum transaction, `Tx`, `AddHistory`, `suggestedGasPrice` | data and pure operators |
| `L1` | the node, seen from the one sending account | external component |
| `TxManager` | `Add` as called by `SendTx`/`Settle`, `monitorTxs`, `monitorTx`, storage, crashes; composes `L1` and the rows | system |
| `Settlement` | what the transaction manager promises its caller | abstract specification |
| `TxManagerRefinement` | the mapping from `TxManager` to `Settlement` | refinement |
| `TxManagerHistory` | `TxManager` with a history variable for the receipts there ever were; the mapping to `Settlement` through reorgs | refinement |
| `Interop` | `SendTx` from `CheckTx` to `Commit`, in front of `Settlement`, the contracts and the full nodes | system, uses `Settlement` |
| `Client` | callers: `SendTx`, `GetTxStatus`, `WaitTxToBeMined`; extends `Interop` | composition |
| `Service` | `cmd/main.go`, and every goroutine as a user of the connection pool | system |
| `Wire` | argument types, hash, proof, call data, columns: the forms of one value | conversions along a path |
| `MCTxManager`, `MCInterop`, `MCService`, `MCWire` | instances for TLC | model checking |
| `TxManager_proofs` and, each extending the one before, `TxManagerRows_proofs`, `TxManagerVerdict_proofs`, `TxManagerRefinement_proofs`; beside the last, `TxManagerHistory_proofs` | theorems about `TxManager` | proofs |
| `Service_proofs`, `Client_proofs`, `Wire_proofs` | theorems about `Service`, `Client` with `Interop`, and `Wire` | proofs |

`TxManager`, `Interop` and `Service` look at the same code from three sides:
what the transaction manager does with a row once it is asked to; what is
allowed to become a row; and who waits for whom. `Interop` uses `Settlement` in
place of `TxManager`, which run `overlap` checks and `ManagerKeepsItsPromise`
proves to be sound as long as L1 does not reorganise, and is shown in turn to
keep to that interface (`UsesSettlement`). When L1 does reorganise, it is still
sound with "settled" read as "settled at some time" (run `faults`,
`ManagerKeepsItsPromiseThroughReorgs`).

### The transaction manager

Data. Owner, sender, receiver, value and call data of a row never change after
`Add`, so the row's id stands for them. The hash of a signed transaction is the
transaction itself, with its signature as a field: a keystore signs a payload
in one way (`Sigs` a singleton), a remote signer may give a new signature and
therefore a new hash each time. A history is a set, as the Go map it is.

Atomicity. A step is what a goroutine does up to and including one call whose
effect or answer involves somebody else: a statement of the database, or a
request to the node whose answer depends on what others did. Gas estimates and
suggestions are answers chosen from a set, so they are part of the step that
uses them. `mon[i].pc` says which call comes next:

| pc | Action | Code (`txmanager.go`) |
|---|---|---|
| `idle` | `monitorTxs` | 178-211: read rows, count the history of rows with no retries, start the goroutines |
| `check` | `CheckHistory` | 227-253, once per hash, in any order (a Go map) |
| `check`, done | `ReviewNonceReadCreated`, `ReviewNoncePending`, `SaveNonce` | 266-278 with `reviewMonitoredTxNonce` and `getTxNonce` |
| `check`, done, or `resume` | `GiveUp`, `FoundConfirmed`, `NewAttempt`, `ReviewMonitoredTx` | 284-322 |
| `sign` | `Sign` | 324-351: the hash is stored before anything is sent |
| `getTx`, `send`, `markSent` | `GetTx`, `SendToNetwork`, `MarkSent` | 353-377 |
| `wait`, `receipt`, `finish` | `WaitTxToBeMined`, `GetTxReceipt`, `Finish` | 379-441 |

A request is `AddReadCreated`, `AddPendingNonce`, `AddInsert`, then `Commit`,
with `AddFail` and `CommitFail` for the error paths. An INSERT waits for an
uncommitted INSERT of the same key (`KeyLocked`), as Postgres makes it wait.

`Update` succeeds, or reports an error with or without having written; either
way the goroutine returns. Neither query looks at `rows.Err()` after its loop,
so under database faults a query may return a part of the rows.

Misbehaviour is a constant, `Faults`, so that each run and each property says
under which faults it holds:

| Fault | Meaning |
|---|---|
| `rpc` | a call to the node or to the signer fails, or its answer is lost after it took effect |
| `lookup` | the same for `CheckTxWasMined` on a hash of the history |
| `db` | a database call fails, its effect kept or not; a result is cut short |
| `crash` | the process dies and is restarted |
| `drop` | the node evicts a pending transaction |
| `revert` | a transaction is mined with a failed receipt |
| `reorg` | the newest block is replaced |

The node keeps at most one pending transaction per nonce, refuses a nonce that
is used up or a replacement that does not pay more, and mines any transaction
with the next nonce that was *ever* accepted: a replaced or evicted transaction
has been gossiped and may still be the one.

### The pipeline in front of it: `Interop` and `Client`

`rq[q]` is a request: its transaction, its `pc` and the sequencer it has read.
Each action is one call to somebody else: `CheckTx` (with the arrival of the
request), `verifyZKP` (an `eth_call`), `verifySignature`, `Execute` (the full
node), `BuildData` and `Add` (`Settle`), `Commit`. `Fail` is an error or the
deadline at any of them. Between any two, L1 may change the sequencer of a
rollup, somebody else may verify a batch, a full node may learn of one, and the
transaction manager takes its steps. `table` holds the call data under the hash
of the transaction. The hash is the tuple of the fields `Tx.Hash` hashes, so the
rollup id is not part of it. `AsInt64` is the conversion in `Execute`, at a
width of `Width` bits; a full node takes a negative number for a tag and answers
with some batch it has. The contract (`Verifies`) accepts a proof that starts at
a verified batch, ends at a sequenced one that is not verified yet and is valid.

A caller in `Client` has one transaction. It calls `SendTx`, gets the answer or
an error of its own (the server goes on), may call again after an error, asks
for the status and polls. `Reported` is `GetTxStatus` of endpoint, executor and
`Result`.

### The process: `Service`

`main` is the statement `start` has reached, `pc[g]` the statement of each
goroutine: requests, the monitor, one goroutine per row. `inTx` are the
goroutines with an open transaction; each has a connection. A statement outside
a transaction takes a connection and gives it back within a step, so it only
needs a free one. A request may be at: `checks` (before `Begin`), `begin`,
`lookup` (the sequencer, without a context), `nonce` (`getTxNonce`, which is
given no transaction and needs a second connection), `add`, `end`; a reader at
`begin` or `probe` (the health check), `result`, `end`. `Expire` is the end of
a request's context. The process ends by `exited`, `failed` (an error of
`start` or of the server), `panicked` (`Stop` before `Start` has run) or
`killed` (a signal before `waitSignal` asks for it).

Nothing orders `server.Stop` after the goroutine of `server.Start`. When the
signal arrives before the server listens, `StopServer` has both outcomes: the
server stays down, or `Stop` finds nothing to stop (`missed`), the storage is
closed, and the server may come up afterwards (`late`) and take requests that
find no connection.

### Conversions: `Wire`

One value goes from the client to the row and back: `Post` (in any spelling),
`Decode` (`UnmarshalText`), `Build` (call data), `Add` (INSERT), then `Load`
(`scanMtx`) and `Review` (UPDATE) in turns. `Base` stands for 16 and a byte is
two digits. Characters are bytes, so a root may contain the bytes of digits or
of the prefix, which is what makes `HashBindsFields` a question. A root, an exit
root and each hash of a proof have `HashLength` bytes, and so has the word that
a number takes in the call data. `limit` is the configured `MaxGasPriceLimit`,
chosen from `Limits` at the start: with a limit and without one.

The definitions whose comment begins with "Faulty variant" are not used by the
specification. Each is what a plausible mistake would make of the definition
that follows it; putting it in that definition's place makes TLC refute the
property `PROJECT.json` pairs it with, which shows that the property can fail.

## 3. Runs

`tlc -workers 2 -config <run>.cfg <module>`; the module is `MCTxManager` unless
the table says otherwise.

| Run | Instance and faults | Properties | What it shows |
|---|---|---|---|
| `faults` (`TxManagerHistory`) | 1 row, all faults | `TypeOK`, `BroadcastRecorded`, `SentWasBroadcast`, `BoundedAttempts`, `AckedIsDurable`, `ConfirmedWasMined`, `FailedHasCause`, `TerminalIsFinal`, `RowsOnlyAdvance`, `ImplementsSettlementThroughReorgs` | no combination of failed and half-done calls, crashes, evictions, reverts and reorgs loses a broadcast hash, exceeds the retry limit, writes an older row back or reopens a finished one; a verdict has the cause the row names |
| `overlap` | a new row and one from before `num_retries`, 2 requests, also for the same id; lost answers, reverts, crashes | `CopyIsCurrent`, `BoundedAttempts`, `TerminalIsFinal`, `RowsOnlyAdvance`, `ImplementsSettlement` | requests never disturb a row whose goroutine is running, an old row is held to the same limit, and the manager implements `Settlement` |
| `verdicts` | 1 row, 2 signatures, no price limit, all faults except `lookup` and `reorg` | `ConfirmedMeansMined`, `FailedIsOutOfRetries`, `NoDuplicateData` | what the two final statuses mean, and that a nonce is left only when it is used up |
| `settles` | 2 rows; crashes and evictions; fair | `AckedIsSettled` | what was accepted is confirmed in the end, also when it has to wait for the nonce of another row |
| `service` (`MCService`) | 2 senders and a pool of 2, 1 reader, the monitor and 1 row, any signal; fair | `TypeOK`, `NoConnectionLeaks`, `StorageOutlivesRequests`, `RequestsEnd`, `MonitorRuns`, `ShutdownEnds` | connections come back, the storage is closed after the last request unless `Stop` missed the server, and requests, cycles and the shutdown end unless a call without a deadline is never answered |
| `interop` (`MCInterop`) | 2 callers, 2 requests, 2 rollups with equal batches, transactions with each kind of fault | `TypeOK`, `StoredIsSound`, `AckedRowIsMine`, `StoredIsAuthorised`, `ConfirmedIsVerified`, `ToldIsFinal`, `UsesSettlement` | checks that are overtaken, hashes that collide and calls that are repeated never store what no check accepted or tell a caller what is not so |
| `wire` (`MCWire`) | every spelling of up to 4 digits, proofs of 0 to 5 bytes (4 are right), with a price limit and without | `TypeOK`, `HashAgrees`, `HashBindsFields`, `CallCarriesProof`, `ReloadRebuildsTx` | one hash per meaning, one value of every hashed field per hash, the call carries the proof, a reloaded row builds the same transaction unless its price is beyond uint64 |
| `duplicate` | 1 row; `lookup`, `revert` | `NoDuplicateData`, violated | see section 7 |
| `failed_settled` | 1 row, no faults | `FailedIsNotSettled`, violated | see section 7 |
| `same_nonce` | 3 rows, no faults | `UnminedNoncesDiffer`, violated | see section 7 |
| `stuck_history` | 1 row; `revert`; fair | `NotMonitoredForever`, violated | see section 7 |
| `shared_hash` (`MCInterop`) | 2 callers, 2 requests | `HashNamesTx`, violated | see section 7 |

The properties, in words:

* `BroadcastRecorded`: every transaction the node accepted is in the history of
  its stored row. This is what makes recovery after a crash possible.
* `SentWasBroadcast`: a row is `sent` only if one of its transactions was
  accepted.
* `BoundedAttempts`: at most `MaxRetries` different transactions are broadcast
  for one row.
* `AckedIsDurable`: a hash that was returned has a row.
* `CopyIsCurrent`: while a goroutine runs, its copy agrees with the row in
  status, history, gas and gas price and is not behind in nonce and retries.
* `TerminalIsFinal`, `RowsOnlyAdvance`: action properties about every write of
  the table.
* `ConfirmedMeansMined`: the stored block holds a successful receipt of a
  transaction of the row.
* `FailedIsOutOfRetries`: without reorgs only the limit makes a row fail.
* `ConfirmedWasMined`, `FailedHasCause`: what is left of these two when the
  chain is reorganised, where both of them are false. The row names the block of
  a receipt that a transaction of its own once had, successful or failed; a
  failed row may also be out of retries. The receipt is looked up, compared with
  the head and stored in three steps, and may be gone at each of them.
* `NoDuplicateData`: the transactions of one row that have settled or still can
  all have the same nonce, so at most one of them settles.
* `ImplementsSettlement`: see `Settlement.tla`; in particular nothing is
  broadcast for a row that is finished.
* `ImplementsSettlementThroughReorgs`: the same when a reorg takes a settled
  transaction back, for what was settled at some time.
* `AckedIsSettled`: an acknowledged transaction is eventually confirmed unless
  another row has its nonce. The exception is real: see `same_nonce` below. The
  run has no `rpc` fault, whose repetition could keep a row from being sent for
  ever, and one suggested price: with more of them the retry limit is reached
  legitimately, and the row fails.
* `NoConnectionLeaks`: whoever has a connection still has the end of its
  transaction in front of it.
* `StorageOutlivesRequests`: the pool is closed when no request is running,
  unless the server came up only after `Stop` had missed it.
* `RequestsEnd`: every request ends, although as many of them as the pool has
  connections can wait for each other (`getTxNonce`): their deadlines end that.
  The exception is a request whose own lookup of the sequencer is never
  answered: that call has no context. (For a health check it is the probing
  client that ends the context, so nothing is claimed.)
* `MonitorRuns`: the monitor, which has no deadline at all, comes back to its
  loop, unless a row's call to L1, or a sender's lookup while it holds a
  connection, is never answered. The circle of requests also starves the
  monitor, and also only until their deadlines. Each request happens once, so
  an endless stream of them that keeps the pool full is not covered.
* `ShutdownEnds`: after the signal the process ends, unless such a lookup keeps
  `server.Stop` waiting.
* `StoredIsSound`: a stored row has the roots the full node of its rollup has
  for that very batch. The conversion to `int64` makes a full node answer for
  another batch, and the contract, asked first, refuses such numbers.
* `AckedRowIsMine`, `ConfirmedIsVerified`: a caller whose call succeeded finds
  its own call data under its hash, and when it is told `confirmed` its batch is
  verified on its own rollup. A second rollup with an equal batch is refused,
  not merged with the first; `PROJECT.json` pairs both with the mutant that
  takes `ErrAlreadyExists` for success. `Interop` has no reorgs, so `confirmed`
  and `verified` are compared on a chain that only grows.
* `StoredIsAuthorised`: signer and beneficiary of a stored row were entitled for
  its rollup at some time; they need not be the same sequencer.
* `ToldIsFinal`: a caller that has read a final status never reads another.
* `UsesSettlement`: the pipeline never adds a hash twice.
* `HashAgrees`: the server accepts every spelling of a signed transaction and
  computes the hash that was signed; what it accepts is what the text denotes.
* `HashBindsFields`: transactions with the same bytes under the hash differ in
  the rollup id at most. That the hash identifies the transaction is false:
  `HashNamesTx` in section 7.
* `CallCarriesProof`: `ConvertProof` of the text agrees with `BytesToProof`.
* `ReloadRebuildsTx`: every stored row can be read, and it builds the transaction
  it built before it was stored exactly if its price fits a `uint64`. With a
  limit it always does. Both shipped configurations have none (`config/default.go:45`,
  `docker/data/agglayer/agglayer.toml:34`); there a suggestion of 2^64 wei or
  more comes back as its low 64 bits and the row builds another transaction.

## 4. Bounds and why they are enough

* `Ids`, `Reqs`: one row is enough for what a goroutine, the table and the node
  can do to each other; two rows and two requests for interference through
  nonces, keys and cycles; three rows only for `same_nonce`, whose scenario
  needs one row in each of three stages.
* `MaxRetries`: `NoDuplicateData` needs two transactions of an old nonce and
  one of a new one, so 3 or more; `verdicts` uses 4. In `settles` the limit is
  large enough not to be reached, since reaching it means `failed` (with one
  price a row has one transaction); the limit itself is the subject of
  `failed_settled`, `FailedIsOutOfRetries` and `BoundedAttempts`.
* `Suggested = {1, 2}` with a margin of 3/2 and a limit of 2: the prices 1 and
  2, with rounding and with the cut to the limit; a row can be replaced once at
  the same nonce. `verdicts` has no limit, as the shipped configurations: the
  prices are 1 and 3. `ForcedGas = 2` in `verdicts` covers the forced estimate.
* `MaxHead` bounds the chain and thereby mined transactions and reorgs. A block
  is left free for mining again after a reorg.
* `MaxNonce` only cuts off nonces that are handed out; it is at least
  the number of transactions that can be mined, so it is never what stops a row.
* `service`: two senders can fill the pool of two with transactions that both
  wait for a second connection; the reader is then the third party that waits.
  One row is enough for `wg.Wait`; it makes at most `MaxUpdates = 1` update in a
  cycle. The monitor goes round for ever; a request happens once.
* `interop`: two rollups with one batch each and the same roots, so that their
  transactions collide; the transactions are a correct one, its twin on the
  other rollup, and one each with a wrong exit root, a wrong signer and a number
  that is negative as `int64` (`Width = 3`). Nobody becomes sequencer of a
  rollup twice. `ForcedGas = TRUE` is the permissive setting: a failed estimate
  does not stop `Add`. With two requests both callers can send, or one can
  repeat its call.
* The history variable `mined` of `faults` is not bounded by itself: it holds
  receipts, which `MaxHead`, `MaxRetries` and `MaxNonce` bound.
* `wire`: `Base = 2`, numbers of `Width = 2` bits, hashes of `HashLength = 2`
  bytes and proofs of two of them; all texts of up to 4 digits after no, one
  or two prefixes and some with a foreign character, in one argument at a time;
  the roots take the bytes of both digits and of the prefix; two rollups. The
  limit is the largest number of `Width` bits or none; with it prices are below,
  at and cut to it, without it the suggestions 3 and 4 give the prices 4 and 6,
  which have more than `Width` bits, one of them with no low bits at all.
* `SYMMETRY` is used in `overlap` over requests and in `interop` over callers
  and over requests, which nothing but their names distinguishes. The liveness
  runs use none.

Deadlock checking is on in the runs of `MCTxManager`: some action is always
possible, at least another request. It is off where the system may stop: the
process exits (`service`), requests are used up (`interop`), a refused text goes
nowhere (`wire`).

## 5. Fairness

`FairSpec` assumes

* weak fairness of `monitorTxs` and of each row's `monitorTx`: the loop in
  `Start` never ends while the process lives, and a goroutine that can take a
  step eventually takes it. That includes that calls to the node return, with an
  answer or an error: `monitorTxs` passes them `context.Background()`, so only
  the transport ends a call the node does not answer (`Service` drops this
  assumption and shows what depends on it);
* strong fairness of mining a transaction from the pool: a node that has the
  next transaction of the account in its pool again and again mines one in the
  end, although it may evict it in between;
* eventually no more crashes (from some point on every step is one of `Work`, the
  steps of requests, monitor and node): otherwise the process may die in every
  cycle before the first send.

Nothing is assumed of requests, evictions or which price is suggested. Within
`monitorTx` the alternatives of a step are not fair: `WaitTxToBeMined` may
always time out, and the row is then confirmed through its history in a later
cycle.

`FairSpec` of `Service` assumes weak fairness of the main goroutine, of the
server's start, of the monitor's loop, of every database step of a request or a
row, and of the deadlines of `SendTx` and `GetTxStatus` (`context.WithTimeout`).
It assumes nothing of calls without a deadline (`Checks`, `Lookup`, `CallL1`),
of clients, of signals, nor of the end of a health check's context. Waiting for
a connection is weakly fair only: a waiter is enabled as long as one is free.

## 6. Proofs

`TxManager_proofs` proves, for any sets of ids, requests and signatures, any
faults and any values of the other constants that satisfy their assumptions:

| Theorem | States |
|---|---|
| `TypeCorrect` | `Spec => []TypeOK` |
| `SafetyInvariant` | `Spec => []SafetyInv` |
| `BroadcastIsRecorded` | `Spec => []BroadcastRecorded` |
| `CopiesAreCurrent` | `Spec => []CopyIsCurrent` |
| `TerminalRowsAreFinal` | `Spec => TerminalIsFinal` |

Assumptions on the constants, each named in the module that declares it: ids
and signatures exist, gas offset, margin, limits, estimates and suggestions are
naturals with a positive denominator, `Faults` are fault kinds, the rows of an
older release are finitely many. TLC evaluates them in every run.

The argument. `BroadcastRecorded` is not inductive: a goroutine could send a
transaction it never stored, or overwrite the row with an older copy that has
fewer hashes. `SafetyInv` adds what rules this out:

* `SignedIsStored`: from signing until sending, the signed transaction is in
  the stored history (this is the order of lines 334-358);
* `CopyIsCurrent`: a goroutine's copy has the stored history, so an `Update`
  never shortens it (this is the wait at the end of `monitorTxs`, and the fact
  that requests never write a row that exists);
* `AddedRowsAreNew`: a row that is about to be committed does not exist, and no
  two requests are about to commit the same id (the primary key);
* `AbsentRowsAreEmpty`: so that committing a new row forgets nothing.

Two lemmas carry the actions: `LocalStep` for a step that changes only a
goroutine's local variables, and `StoreStep` for one that ends in `Update`,
whatever that call reports. `TerminalIsFinal` follows from `CopyIsCurrent`:
only a goroutine writes an existing row, and its row is still monitored.

`Service_proofs` proves, for any number of requests, rows and connections:

| Theorem | States |
|---|---|
| `ServiceSafety` | `Spec => []ServiceInv` |
| `ServiceTypeCorrect` | `Spec => []TypeOK` |
| `ConnectionsComeBack` | `Spec => []NoConnectionLeaks` |
| `StorageIsClosedLast` | `Spec => []StorageOutlivesRequests` |

The assumptions are that the pool has a connection and that requests, rows and
the monitor the monitor are different goroutines. `StorageOutlivesRequests` alone is not
inductive: a request could come in after the pool was closed, or the pool could
be closed with requests on their way. `DrainedBeforeClosing` says at which
statements of `main` the server is stopped and empty, or was missed, that a
server that does not listen has no requests, and that the pool is closed at
those statements only. `TypeOK` needs `CyclesDoNotOverlap` (`wg.Wait`) and
`UpdatesLeft`. The lemmas follow the actors: `RequestStep` is one step of any
handler, `LoopInv`, `RowInv` and `MainInv` are the monitor, its goroutines and
`main`.

### The table: `TxManagerRows_proofs`

| Theorem | States |
|---|---|
| `RowsNeverGoBack` | `Spec => RowsOnlyAdvance` |
| `RowsInvariant` | `Spec => []RowsInv` |
| `SentRowsWereBroadcast` | `Spec => []SentWasBroadcast` |
| `AckedRowsAreDurable` | `Spec => []AckedIsDurable` |
| `AttemptsAreBounded` | `Spec => []BoundedAttempts`, if `MaxRetries > 0` or there are no rows of an older release |

The hypothesis of the last one is needed: such a row has a transaction already,
which a limit of 0 would not allow.

`GoroutineStep` says once, field by field, what a step of `monitorTx` may do to
its row and to itself; every later proof about `TxManager` uses that lemma and
not the fifteen actions. With `CopyIsCurrent` it gives `RowsOnlyAdvance` at
once: what is written is a later version of the copy, and the copy is the row.

`RowsInv` adds to `SafetyInv` that a row about to be committed has no history
(`NewRowsAreEmpty`), that a history holds transactions of its own row only
(`HistoryIsOwn`), that the transaction in hand stays in the stored history up to
its receipt (`SignedStays`), and that `markSent` is reached only behind an
accepted transaction (`MarkedWasSent`); the last is what `SentWasBroadcast`
needs. `AckedIsDurable` rests on `Commit` writing row and answer together.

`AttemptsInv` ties the limit to the set of hashes. `BoundedAttempts` speaks of
the chain, the code compares a counter: the link is that what was accepted is in
the history (`BroadcastRecorded`) and that the history is not larger than the
counter (`CountedRows`, `CountedCopies`). A row of an older release has the
counter 0 with a hash in its history, so the stored counter may be 0; the copy
of a running goroutine has always been corrected (lines 191-193).

### The verdicts: `TxManagerVerdict_proofs`

| Theorem | States |
|---|---|
| `ConfirmedRowsAreMined` | `Spec => []ConfirmedMeansMined`, without `reorg` |
| `FailedRowsAreOutOfRetries` | `Spec => []FailedIsOutOfRetries`, without `reorg` |
| `DataSettlesOnce` | `Spec => []NoDuplicateData`, without `reorg` and `lookup` |

The faults that are not excluded may all happen. The excluded ones cannot be
dropped: with a reorg a block that was read is replaced, and run `duplicate`
refutes `NoDuplicateData` with failed lookups.

`ChainInv` is about the node, and only a lemma (`ChainIsConsistent`): receipts
belong to accepted transactions below the account's nonce, at most one per nonce. Without reorgs receipts only accumulate
(`ChainOnlyGrows`), so what a goroutine saw in an earlier step still holds when
it acts: `VerdictInv` says that a success it remembers is on chain in the block
it remembers, through lookups, nonce review, sending and waiting, and that it
asks for the receipt of a success only; therefore the branch of a failed receipt
(lines 423-433) is never the one that fails a row.

`NoncesInv` is the argument the comment at `txmanager.go:255` alludes to. A
transaction is `Dead` when its nonce is used up and it did not succeed; that is
stable. While the history is looked up with everything mined and nothing
successful, what was looked up is dead (`LookedUpIsDead`), so when the nonce
moves on, all of the history is; hence a stored transaction has the row's nonce
or is dead (`HistoryNonces`), and a goroutine signs with the stored nonce only
(`NonceIsStored`).

### The refinement: `TxManagerRefinement_proofs`

`ManagerKeepsItsPromise` is `Spec => ImplementsSettlement` without `reorg`. The
initial states map to initial states (`InitRefines`), and every step maps to one
step of `Settlement` or to none (`NextRefines`): a commit is `Accept`, a send
that the node takes is `Broadcast`, a successful receipt is `Settle`, and a
stored verdict is `Confirm` or `Fail`. `VerdictInv` is what makes the last possible:
`Settlement` confirms only what has settled. It has no fairness, so this is the
whole of it. `TxManager` and the pipeline are thereby proved against the same
interface, from both sides.

### Reorgs: `TxManagerHistory_proofs`

For every set of faults, with nothing excluded:

| Theorem | States |
|---|---|
| `HistoryInvariant` | `HSpec => []HistoryInv` |
| `ConfirmedRowsWereMined` | `HSpec => []ConfirmedWasMined` |
| `FailedRowsHaveACause` | `HSpec => []FailedHasCause` |
| `ManagerKeepsItsPromiseThroughReorgs` | `HSpec => ImplementsSettlementThroughReorgs` |

Under reorgs `ConfirmedMeansMined` and `FailedIsOutOfRetries` are false: TLC
finds a confirmed row whose block was replaced, and a row that fails because
the transaction it waited for was mined again and reverted. `HSpec` is `Spec`
with the history variable `mined`, the set of receipts there ever were, which
every step of `Spec` extends and no step reads.

`HistoryInv` is `VerdictInv` in the past tense. `ChainOnlyGrows` is false here,
but `mined` only grows, and that is all the argument needs: what a goroutine
remembers of a receipt was once on the chain, in that block, and belongs to the
row's own history (`SeenWasMined`), through lookups, waiting, `GetTxReceipt` and
`GetLastBlock`. Every goroutine that comes to a verdict at `finish` has such a
receipt in hand, a failed one included. The verdicts are then copied from it.
The refinement follows as in `TxManagerRefinement_proofs`, with `EverSettledIds`
for `SettledIds`: a reorg maps to a step that changes nothing.

### The pipeline and its callers: `Client_proofs`

For any sets of rollups, batches, transactions, addresses, callers and requests:

| Theorem | States |
|---|---|
| `ClientTypeCorrect` | `Spec => []TypeOK` |
| `RowIsTheCallers` | `Spec => []AckedRowIsMine` |
| `RowsAreSound` | `Spec => []StoredIsSound` |
| `RowsAreAuthorised` | `Spec => []StoredIsAuthorised` |
| `ConfirmedBatchIsVerified` | `Spec => []ConfirmedIsVerified` |
| `ToldStaysFinal` | `Spec => ToldIsFinal` |
| `PipelineUsesSettlement` | `Spec => UsesSettlement` |

Assumptions: numbers in a transaction fit `Width` bits and name a known rollup,
there are transactions and addresses, and the batches of a rollup are numbered
from 1 and below `2^(Width-1)`. The last is that no rollup gets to 2^63 batches;
it is where `StoredIsSound` needs the contract: a number that `Execute` would
turn negative has no batch, so `verifyZKP` has refused it before.

`RequestStep`, `CallerStep` and `OthersStep` say what each kind of actor leaves
alone. The invariants are proved one upon the other:

* `RowInv`: a request at `Commit` holds its key alone and the row is not there
  yet (the primary key), and an acknowledged request has its own call data in
  its row; with this the pipeline never adds twice (`UsesSettlement`).
* `ChecksHold`: what every check said of a request's transaction is still true
  behind it, although verified batch, sequencer and full node have moved on:
  batches are only added, and who was a sequencer is remembered as such.
* `StoredByRequest`: each row was stored by a request that is behind all checks.
  A request whose `Commit` reported an error may be that one, too.
* `SettledIsVerified`, `CallerInv`: settling a row verifies its batch; a caller
  keeps its row once it has the hash, and a final status it was told is still
  the status of the row.

### The conversions: `Wire_proofs`

For any base, any width, any length of a hash and of a proof and any sets of
roots, proofs and prices:

| Theorem | States |
|---|---|
| `WireInvariant` | `Spec => []WireInv` |
| `WireTypeCorrect` | `Spec => []TypeOK` |
| `ProofIsCarried` | `Spec => []CallCarriesProof` |
| `ReloadKeepsTx` | `Spec => []ReloadRebuildsTx` |
| `FieldsAreBound` | `Spec => []HashBindsFields` |
| `SpellingsHashAlike` | `Spec => []HashAgrees` |

Assumptions: the sets have the types the Go fields have, the limit on the price
is a `uint64` (0, for none, included), a word is wide enough for a number, and the law of powers
(`2^0 = 1`, `2^(k+1) = 2 * 2^k`), which is arithmetic the provers do not know
and TLC evaluates on the instance. The values of the code, `Base = 16`,
`Width = 64`, `HashLength = 32` and `ProofLength = 24`, satisfy all of them.

Induction. What the digits of a text denote (`Value`) is a recursive function,
and the library's induction theorems take a predicate, which the provers cannot
instantiate. `SetInduction` says the same of a set of numbers and follows from
the well-foundedness of `<` (`NatMin`); each induction is about the set of
numbers that have the property. So are proved: that `Value` exists and is the
only function with its equations (`ValueExists`, `ValueIsUnique`), what leading
zeros, a further digit and digits taken in pairs do to it (`ValueOfPadded`,
`ValueOfAppend`, `ValueOfPairs`), that every number of `Width` bits has a
numeral and fits a word (`NumeralExists`, `WordExists`), and that digits without
leading zeros are the numeral of their value (`TrimmedNumeral`).

`SpellingsHashAlike` rests on these: `ParseIsExact` and `DecodeIsExact` say that
the two decoders accept exactly the texts that denote a value of their type and
return that value, with one prefix trimmed and an odd digit padded in front.

`DecodeOfEncode` (a byte string survives its text) is used for proof, call data
and column. `ProofIsCarried` cuts the text into the parts of the hashes
(`PartOfBytes`, `ConvertOfHex`) and puts the words in a row again
(`WordsOfProof`). For `ReloadKeepsTx`, the low bits of a price are the price
exactly if it fits the column; that it does when there is a limit is a second
invariant (`PricesFit`), since `suggestedGasPrice` cuts it to a limit that fits
and the price that was loaded fits already. For `FieldsAreBound`, `Shape` says
where each part of the bytes is. The roots may look like anything, so the second numeral does not end visibly. But the first one ends at the first
`x` behind it, the proof starts behind the last `x` of the bytes, and the length
of the whole leaves one length for the second numeral (`NumeralNotLonger`,
`ShapeIsUnique`); the numbers are then the values of their numerals.

### Only model-checked

* Liveness (`AckedIsSettled`, `RequestsEnd`, `MonitorRuns`, `ShutdownEnds`): the
  prover has no fairness and no `ENABLED`.
* The five refuted properties of section 7: a counterexample is the whole
  argument.

Every safety property of a passing run is also a theorem. Three of them,
`ConfirmedMeansMined`, `FailedIsOutOfRetries` and `NoDuplicateData`, and
`ImplementsSettlement` are theorems under hypotheses on the faults, which the
runs that check them make too.

## 7. Where code and comments disagree

* `duplicate`: an error of `CheckTxWasMined` is skipped and leaves
  `allHistoryTxsWereMined` true. A failed receipt of one transaction and a
  failed lookup of another make the nonce move on although the second can still
  be mined: the case the comment at `txmanager.go:255` sets out to avoid.
  With reliable lookups and no reorgs it cannot happen: that is theorem
  `DataSettlesOnce`.
* `failed_settled`: the retry limit is compared before the receipt that the
  same cycle found, so a row that is out of retries ends as `failed` although
  one of its transactions succeeded,
  which `monitoredtx.go:31` says means "already mined and failed".
* `same_nonce`: `getTxNonce` looks at `created` rows only. With one row
  created, one sent and not mined, a third gets the nonce of the sent one.
  Two concurrent requests get equal nonces too, since neither sees the other's
  row; the comment at `txmanager.go:453` says pending ones are accounted for.
* `stuck_history`: after a revert of one of two transactions of the same nonce
  the other can never be mined, so the history is never "all mined": the nonce
  is not reviewed, no new hash arises and, as long as the gas estimate succeeds,
  no retry is counted. The comment at
  `txmanager.go:282` says the limit prevents monitoring without end. A row
  whose nonce another row has used up is stuck for the same reason: `SendTx` is
  refused in each cycle (line 358), which counts as no attempt. With
  `Ids = {a, b}`, `Reqs = {r1, r2}` and `Faults = {}` the same property shows it.
* `shared_hash`: `tx.go:32` says the hash "uniquely identifies the tx", but it
  leaves out `RollupID`. The first of two rollups with an equal batch gets the
  row; a caller of the other is refused by `SendTx` and, asking for its hash, is
  told the status of a transaction that is not its own. What is bound is
  `HashBindsFields`, and that no caller with an accepted call is deceived is
  `AckedRowIsMine` and `ConfirmedIsVerified`.

Two more need no run, since no step of the code could make them true.
`WaitTxToBeMined` of the client waits for `done`, which nothing stores: it polls
past `confirmed` until its context ends and then says "context finished before
tx was mined" (`client.go:92`; `WaitExpires` in `Client`). And nothing stores
`reorged` or reads a confirmed row again, so a confirmation whose block is
replaced stays, although `monitoredtx.go:40` says what the status is for.
`ConfirmedWasMined` is what can be said of it.

## 8. What is not modelled

`PROJECT.json` gives a status and a reason for every component. Not modelled:

* logging, metrics counters, version information, configuration files, mocks
  and generated code: no state the system depends on. That loading the
  configuration, migrating or resolving the metrics address may fail is a step
  of `Service`;
* `ArgHash`, which the client applies to hashes the server formatted, and
  `Proof.Equals`, which only tests use;
* cryptography: a hash is its preimage and a signature is its signer;
* columns that are written as they are read: nonce, retries, status, the
  addresses and the hashes of the history, whose texts go-ethereum makes and
  parses. The block number and the value take part in no decision;
* real time: a timeout is a step that may happen as long as what it guards has
  not ended;
* the transport of the JSON-RPC server, which is a library: `server.Stop` is
  taken to wait for the running requests, as `http.Server.Shutdown` does. What
  it does to a server that does not listen yet is left open: both outcomes are
  modelled.

`Crash` of `TxManager` covers the end of the process in all its ways, `Stop`
included: what is left behind is the table and the chain.

## 9. Plan

Done: the transaction manager and its refinement, with reorgs and without, the
pipeline and its callers, the process and its connection pool, the conversions,
the runs above, and a theorem for every safety property of the passing runs.
What would say more:

1. Facts about `Service` that the liveness runs rest on: who can wait for a
   connection, and that the circle of requests is the only one.
2. A form of `NoDuplicateData` for reorgs: transactions of an old nonce become
   possible again only together with everything mined after them.
