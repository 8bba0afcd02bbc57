# Formal models of the opinion SDK

TLA+ models of `src/`, a Go client for the Opinion prediction market: a REST client that
signs and places orders, and an order book SDK that keeps local order books in step with the
exchange over a WebSocket. Everything below was translated from the code; nothing is taken
from what a comment says the code does, except the properties that quote one.

- `*.tla` models, `MC*.tla` instances for TLC, `*_proof.tla` theorems checked by TLAPS
- `*.cfg` one per run; `PROJECT.json` lists runs, mutants, the lines each definition stands
  for, hazards, findings and theorems

Model-check a run with `tlc -workers 2 -config Market.cfg Quotes.tla`, check proofs with
`tlapm WSClient_proof.tla`.

## 1. The system

| Component | State it keeps | Operations | Hard behaviour |
|---|---|---|---|
| WebSocket client, `orderbook/ws_client.go` | `state`, `conn`, `closeChan`, `loopCtx`, `reconnecting`, `reconnectAttempts`, `loopWg`, `lastHeartbeatResp`, `subscriptions`, `writeChan` | `Connect`, `Disconnect`/`Close`, three loops, `triggerReconnect`, `reconnect`, `Subscribe*`, `Unsubscribe` | Every loop can notice a loss; `Close` races a dial; loops of two connections; subscriptions change while they are being restored |
| Order book, `orderbook/orderbook.go` | bids, asks, `initialized` | `ApplySnapshot`, `ApplyDiff`, `Clear`, queries | Queries walk Go maps in any order; levels of size zero |
| Manager, `orderbook/manager.go` | books, token pairs, `updateChan` | message handlers, `ApplySnapshot`, clears, `sendUpdate`, `Stop` | One diff writes two books; a full channel drops notifications under a consumer; `Stop` closes it under a sender |
| Order book SDK, `orderbook/sdk.go` | `started`, `ctx`, `validationCancel` | `Start`, `Stop`, `SubscribeMarketWithSnapshot`, `refreshAllSnapshots`, periodic validation | Snapshots fetched by HTTP race the diffs; `Start`, `Stop` and validations interleave outside the lock |
| Rate limiter, `common/ratelimit.go` | tokens, `lastRefill` | `Wait`, `TryAcquire`, `Available`, `Reset` | Fractions of a token under polling |
| HTTP client, `common/http.go` | none | `doRequest` | A POST that timed out may have been carried out and is sent again |
| CLOB client, `clob/` | signer, headers, maker address | `PlaceOrder`, batch, pre-signed orders, cancels, `Split`, `Merge`, `Redeem`, getters | Retried orders and transactions; cancels against requests still on their way; rounding of signed amounts |
| `auth/`, `markets/`, `sdk.go`, `config.go`, `common/utils.go` | configuration | signatures, GETs, setters | none a model checker would reach |

How they interact. `SDK.Start` calls the client's `Connect`; the client calls back into the
manager (`handleStateChange`, `handleMessage`); on `StateConnected` the manager starts
`refreshAllSnapshots`, on a lost connection it clears every book; the SDK fetches snapshots
through the rate limiter and the HTTP client and hands them to the manager; the manager
notifies the application through `updateChan`; the application reads the books.

What makes each correct is stated as properties in section 4. `PROJECT.json` lists the
hazards at the lines where they bite.

## 2. The modules

| Module | Models | Extends or uses | Theorems |
|---|---|---|---|
| `Service` | what the client promises: which states it reports with which connection held | | |
| `WSClient` (`MCWSClient`) | connection life cycle of `ws_client.go` | refines `Service` | `WSClient_proof` |
| `Heartbeat` | `heartbeatLoop` and `lastHeartbeatResp` against time | | in `WSClient_proof` |
| `Subscriptions` (`MCSubscriptions`) | `Subscribe`, `Unsubscribe`, `writeChan`, `resubscribe` against the server | | `Subscriptions_proof` |
| `Books` | data of `orderbook.go`, the mirror rule | | in `Manager_proof` |
| `Manager` | handlers, `sendUpdate`, `Stop`, a consumer | `Books` | `Manager_proof` |
| `Quotes` | queries of a book, `countDifferences`, `HealthCheck`, `GetHealthStatus` | `Manager` | in `Manager_proof` |
| `Sync` | snapshots, diffs and losses for a market's two tokens | | `Sync_proof` |
| `RateLimiter` | the token bucket under a clock | | `RateLimiter_proof` |
| `Requests` (`MCRequests`) | `doRequest` under every call of `clob/orders.go` and `clob/account.go` that posts | | `Requests_proof` |
| `Lifecycle` | `Start`, `Stop`, periodic validation, on the client they connect and close | | `Lifecycle_proof` |
| `OrderAmounts` (`MCOrderAmounts`) | `CreateSignedOrder`'s price check, `calculateAmounts` | | `OrderAmounts_proof` |

### How state and actions correspond to the code

**WSClient.** One action per section run under `c.mu`, per atomic operation and per blocking
call, so `triggerReconnect` is `TriggerCheck`, `TriggerCAS`, `TriggerCancel`, `TriggerClose`,
`TriggerState`, `TriggerGo`, and `reconnect` is `ReconWait` to `ReconSpawn`. A successful dial
takes an identity from `Sessions`; it names the connection, its `loopCtx` and its three loops.
A loop calls `triggerReconnect` at most once, so the goroutine it starts carries its name.
`lastError`, the backoff's length and messages are left out; a heartbeat may time out at any
tick (when it does is Heartbeat's subject). `Connect` is called whenever its check of the state
lets it, `Disconnect` at any time, by any goroutine: nothing in the SDK makes callers take turns,
since `SDK.Start` releases `s.mu` before it connects and may be called again after `Stop`. `raced`
is history: a `Connect` began beside another one that had not returned, or beside a reconnection.
There the code dials two connections, and most of the properties end.

**Service.** The client's `state`, `conn`, `used`, `closed` and `raced` are the service's, variable by
variable: the mapping is the identity, and nothing is defined away. An open client reports
`Connected` only with a connection, dials only while it says that it is looking for one, and
reports a loss after dropping the connection. A closed client promises less: it makes no
connection twice, but what was under way at `Close`, or a later `Connect`, may report anything
(`Straggle`), which is the first finding below.

**Heartbeat.** Discrete time; ages instead of instants. `Beat` is the ticker's case of
`heartbeatLoop`, with its comparison `> timeout`; `Resume` leaves `lastHeartbeatResp` alone
as `reconnect` does.

**Subscriptions.** A call is the state check, the change of the map, the load of `loopCtx`
and the three-way `select` of `write`. The same steps are run by users and by `resubscribe`,
for a copy of the map. `server` is what the exchange has subscribed on this connection.

**Books, Manager.** Prices are ticks, a side is a function from prices to sizes. Handlers run
under `m.mu`: the handler's changes are one action, the notifications it has still to send are
`outbox`, and the lock is free when `outbox` is empty. The three selects of `sendUpdate` are
actions of their own because the consumer and `Stop` do not take the lock. `ApplySnapshot`
takes an answer of the API in which a price is absent or listed with a size that may be zero.
Handlers that notify nobody (`Silently`: clears, removals, `GetOrCreateOrderBook`) change books
all the same, and `unseen`, the history of what the consumer has not read, counts them. The
consumer reads one book after the other (`Read`), without a lock, while handlers go on.

**Quotes.** Operators over Manager's books, one per query, checked in every state Manager
reaches. `GetBBO` is a fold over the set of orders, as the code's loop over a map is. Prices
and sizes stand for decimals; the mid price is counted in half ticks. `HealthCheck` returns at
the first initialized book of a map whose order is any, so it is modelled as the set of answers
it can give. Whether a book's timestamp is fresh, old or unset is an argument, since time passes
anyhow and a snapshot may come with timestamp 0: `GetHealthStatus` tests for that, `HealthCheck`
does not.

**Sync.** One market: the exchange's book, the diffs on the wire, the diff in the read loop's
hand, the local books of the two tokens, and fetchers (`SubscribeMarketWithSnapshot`, refreshes,
the validator) whose request, answer and application are separate steps for each token. A
subscription asks for both tokens at once and applies both when both are answered; refreshes
and validations take YES first, then NO (`InTurn`). A failed fetch leaves its token alone; a
rate limiter that gives up ends the refresh. `Handle` writes a diff to both books, unless the
book of the token it names is not initialized. `Unsubscribe` leaves the pair registered. Both
books are written in the exchange's terms; that one is the mirror of the other is Manager's.

**RateLimiter.** Units make fractions of a token whole numbers; `Tick` adds what `refill`
would compute from elapsed time.

**Requests.** Each call makes one body (an order, a batch, orders signed before, an order, a list
or the selection of a filter to cancel, a transaction) and
sends it until an answer is final, `Retry` being the loop of `doRequest`. A
POST without an answer may arrive later or never. Orders bear the salt they were signed with;
`Split`, `Merge`, `Redeem` and `EnableTrading` bear none. An error in the body of an answer is
a refusal, except that `CancelOrder` may take one for success (`Misread`: it reads `code`, the
endpoint may report `errno`); of the other methods it is assumed that the exchange reports in the
field they read. `PlaceOrder` may find the data of an accepted order missing (`MissingData`). The
exchange and the network are external: they accept, refuse, are busy, lose and delay; of a batch
the exchange accepts any part, of a list to cancel it closes any part.

**Lifecycle.** `Start` and `Stop` in the pieces between which the code holds no lock; contexts
and validations are numbered in order of creation. The client is `WSClient`'s, reduced to what
`Connect`, `Close` and `reconnect` return and leave behind: its state, whether a reconnect goroutine
runs, whether `closeChan` is closed. `told` is history, for `SomebodyWasTold`.

**OrderAmounts.** Decimals as whole fractions, `decimal.Div` rounding to `Precision` half away from
zero, then `Round(0)`. The amounts asked for are any integers, in fractions as fine as one likes:
neither `CreateSignedOrder` nor `calculateAmounts` refuses one that is negative, or so small that
both sides round to nothing (what the signing library does with a negative one is not modelled).

## 3. Findings

Each is a run TLC ends with a counterexample.

- **`ws_client_close`** `Close` says it closes permanently; a dial in flight stores its connection
  and sets `Connected` on the closed client.
- **`manager_stop`** `Stop` closes `updateChan` while a handler may be sending on it: the send panics.
- **`heartbeat_reconnect`** The comment promises a timeout of two intervals; a new connection is
  dropped at its first tick when the last response, which may be that of the connection before, is
  older than two intervals. The outage itself may be as short as one. `reconnect` does not reset
  `lastHeartbeatResp` as `Connect` does.

Observations made while modelling, which no run reports:

- `Connect` accepts a call in `Reconnecting`, and beside another `Connect` that has
  not yet set `Connecting` or was closed since; two overlapping `SDK.Start`s reach it. It dials beside the
  reconnect goroutine and resets `c.reconnecting`. Without their "unless raced" TLC violates
  `OneReconnect`, `NoOverlap` and `NoLeak`: of two connections dialled at a time one is overwritten in
  `c.conn` and never closed. `FlagHeld` holds even then.
- Clears and removals (`clearAllOrderBooks`, `ClearOrderBook`, `RemoveOrderBook`) notify nobody: a
  consumer that reads on notifications shows the old quotes until the book is filled again.
- A consumer that reads only the book a notification names can be left with an old view of another
  book, whose notification was dropped from the full channel. `NoMissedUpdate` is about one that
  reads every book.
- An initialized book with timestamp 0, which `SDK.ApplySnapshot` lets a caller make, is stale for
  `HealthCheck` and healthy for `GetHealthStatus`.
- An `Unsubscribe` that runs while `resubscribe` works through its copy of the map is undone.
- A snapshot asked for before a loss is applied after the books were cleared: the book is
  initialized while the client is reconnecting.
- `Start` after `Stop`, or a `Stop` between `Start`'s connect and its mark, leaves the SDK marked as
  started on a client and a manager that are closed for good. `Stop` cancels the context made
  last, which may be that of a later `Start`.
- `Connect` returns nil to a caller that finds the client `Connecting`: a `Start` that joins another
  one's dial succeeds although the dial fails. Only the other caller is told.
- The first `Connect` announces `Connected` before it sets `loopCtx`: a `Subscribe` in between calls
  `Done` on a nil context.
- When the refresh of one token fails and that of the other succeeds, every diff that names the
  first is ignored for both, until a validation or a reconnection fetches it again.
- After `Unsubscribe` a reconnection still fetches the market's snapshots: its books are
  initialized and stand still.
- `Split`, `Merge`, `Redeem` and `EnableTrading` go through the same retries as orders but bear no
  salt: after a lost answer they may be carried out twice.
- `CancelOrder` posts to `/openapi/order/cancel` and looks at `code`; the other calls under `/openapi`
  look at `errno`. If the exchange reports a failed cancel by `errno`, `CancelOrder` returns nil with the
  order open. The model lets it happen (`Misread`), and `CancelSticks` excepts it.
- `CancelOrders` and `PlaceOrdersBatch` return without error when `code` is 0; of a list to cancel the
  result per order is not even decoded, so nothing is promised of it.
- `GenerateRandomSalt` multiplies the time in seconds by a fraction: fewer than 2^31 salts. Requests
  takes the salts of two orders to be different.
- `TestCalculateAmountsBuy` and `TestCalculateAmountsSell` (`clob/signing_test.go`) assert amounts in units
  of 10^6; `calculateAmounts` scales by 10^18, so they fail on this code. Which scale the exchange
  wants the repository does not say (`config.go` has both). The properties of `OrderAmounts` are about
  rounding, at whatever scale; none of them says which is right.
- An order may be signed for nothing on both sides (a quote of 10^-17 divides to size 0), for up to
  fifty units of tokens and no dollars, or for negative amounts.

## 4. The runs

| Run | Module, config | Checks | Bounds | States |
|---|---|---|---|---|
| `ws_client` | `MCWSClient`, `WSClient.cfg` | `FlagHeld` `OneReconnect` `NoOverlap` `NoLeak` `Attended` `Recovers` `Drains` `ImplementsService` | 1 caller, 2 `Connect`s that dial, 2 successful dials, 1 attempt | 170 thousand |
| `ws_client_close` | `MCWSClient`, `WSClientClose.cfg` | `ClosedIsPermanent` violated | 1 caller, 2 dials | |
| `market` | `Quotes`, `Market.cfg` | `UninitializedIsEmpty` `NoMissedUpdate` `DiffKeepsMirror` `NewestIsSent` `QuotesMirror` `QueriesAgree` `ValidMeansEqual` `HealthAgrees` | 2 prices, sizes 0 and 1, channel of 1 | 426 thousand |
| `manager_stop` | `Manager`, `ManagerStop.cfg` | `NoPanic` violated | the same | |
| `heartbeat` | `Heartbeat`, `Heartbeat.cfg` | `SilenceIsNoticed` `FirstTimeoutIsJustified` | interval 3, delay 5, 2 outages | 3 thousand |
| `heartbeat_reconnect` | `Heartbeat`, `HeartbeatReconnect.cfg` | `TimeoutTakesTwoIntervals` violated | the same | |
| `rate_limiter` | `RateLimiter`, `RateLimiter.cfg` | `WindowBound` `Progress` | 2 callers, 3 units to a token, burst 2 tokens, 2 units per tick, windows of 4 ticks | 1 thousand |
| `subscriptions` | `MCSubscriptions`, `Subscriptions.cfg` | `Served` `UnsubscribeSticks` `ServedInTheEnd` | 1 user, 1 channel, `writeChan` of 1, 2 losses, 2 reconnect goroutines | 31 thousand |
| `sync` | `Sync`, `Sync.cfg` | `StreamKeepsStep` `RepairedInTheEnd` | 2 tokens, 1 level, 2 sizes, 1 refresh at a time; 3 events: changes, losses, failed fetches, unsubscriptions and cleared books together | 338 thousand |
| `requests` | `MCRequests`, `Requests.cfg` | `AcceptedOnce` `FirstAnswerIsDefinite` `CancelSticks` `Returns` | 2 calls, 2 pre-signed orders, batches of 2, 3 filters, 1 retry | 404 thousand |
| `lifecycle` | `Lifecycle`, `Lifecycle.cfg` | `OneValidation` `StoppedIsQuiet` `SomebodyWasTold` `ValidationEnds` | 2 callers, 2 contexts, 2 validations | 144 thousand |
| `order_amounts` | `MCOrderAmounts`, `OrderAmounts.cfg` | `PriceKept` `NothingForNothing` | prices in cents, 27 amounts of both signs around every rounding | 295 thousand |

`ws_client`, `market`, `rate_limiter`, `subscriptions` and `sync` also check their `TypeOK`; those of
`Heartbeat`, `Requests` and `Lifecycle` are proved (section 5). Every property
has a mutant, an operator marked `Mutant:` beside the definition it replaces, that the run
catches.

### Why the bounds are enough

- *Two dials, one attempt, two Connects*: a second connection is needed to confuse it with the
  first; a reconnection that succeeds, one that gives up, a `Connect` after it, after `Close`
  and in the middle of it all happen. Two callers, two attempts and three `Connect`s up to the first
  that races (246 thousand states, safety only) were also explored, without an error; the theorems
  hold for any number.
- *A channel of one slot*: full after one notification, so every handler that notifies twice
  drops one. Two prices are enough for a best order that is not the only one and for a mirror
  that moves prices; the book and channel theorems hold for any number.
- *Delay 5 under interval 3*: two heartbeats in flight, the most a timeout of two intervals allows.
- *Units that do not divide*: neither the wait nor the refill is a whole number of tokens.
- *`writeChan` of one*: a second message finds it full. Two losses make two reconnect goroutines
  overlap, the older one still resubscribing. Two users with one and with two losses (520
  thousand states) and two channels (5.5 million states, safety only) were also explored, without
  an error; the theorems hold for any number.
- *Three events in `sync`*: a change and a loss around a failed fetch, a change on each side of a
  snapshot, an unsubscription before a loss. One level is enough for diffs in a wrong order; sizes
  are interchangeable, so the exchange's first book is any. Two refreshes at a time were also
  explored (707 thousand states, no error).
- *One retry*: a first and a repeated request, which is what the properties tell apart. The filters
  select all orders, or leave one out. The theorems hold for any number.
- *Two contexts*: one of a `Start` that came before a `Stop`, one of a `Start` that came after.
- *Order amounts*: a unit of the quotient's last digit is worth more than fifty units signed, as it
  is in the code (10^18 against 10^16); the number of digits is not the code's. The amounts lie on
  both sides of each rounding to nothing. The theorems take any amounts and digits that satisfy
  `OrderAmountsAssumption`.

Deadlock is not checked where the system may stop: a closed client, a stopped SDK, calls that
have all returned, a process that panicked, a bound that is used up. It is checked for
`heartbeat` and `rate_limiter`, whose clocks never stop.

### Fairness

Fairness is on goroutines the Go scheduler runs when they can run, never on the application,
and on the environment only where a property is about what happens once it behaves.

- `ws_client`: weak fairness of callers inside `Connect`, of loops and of reconnect goroutines. A
  dial ends (it has a timeout), no dial need succeed, no read need fail.
- `rate_limiter`: time passes, a waiter whose timer fired runs. `Progress` says somebody gets a
  token, not who: callers poll freely, and no fairness among them is assumed.
- `subscriptions`: strong fairness of a call's steps, because a `select` on a full channel is
  enabled again and again; a dial succeeds in the end.
- `sync`: connections are restored, messages arrive, requests are answered, the ticker fires.
  `RepairedInTheEnd` is conditional on quiet by the bound on events: nothing fair makes the book
  change, a connection break, a fetch fail or the application unsubscribe.
- `requests`: the goroutine runs and `client.Timeout` bounds a request; the exchange owes nothing.
- `lifecycle`: strong fairness of a validation's end: `select` picks among ready cases at random.

## 5. What is proved

TLAPS checks, for every value of the constants under the modules' assumptions:

- **WSClient** `TypeCorrect` and `FlagIsHeld` for callers that do what they like; `ReconnectIsUnique`,
  `LoopsDoNotOverlap`, `NothingLeaks`, `ConnectedIsAttended` until a `Connect` begins beside another or
  beside a reconnection, which is part of each property's statement; and `Refinement` (the client
  implements `Service`, which says what is left after that). None of them is inductive. `Lasting` is
  what no race disturbs: who may hold the flag, and what an identity dialled has or has not yet
  (`Born`, `Prepared`, `Dialled`). `Safe` adds, until the first race, that a caller inside `Connect` is
  alone with the loops of the past (`CallerAlone`), that one goroutine at a time replaces a
  connection, until it has spawned its loops (`OneBusy`), that the flag is up meanwhile
  (`FlagUp`), that a goroutine past `loopWg.Wait` is alone (`Alone`), and that the old connection is
  gone before the next dial (`Dropped`). `Told` is what an open client's state says about its
  goroutines, which `Attended` and the refinement need.
- **Manager** `NewestArrives`, `DiffsMirror`, `UninitializedShowsNothing`, `WakeUps` (of every change, also
  those that notify nobody, once the book is initialized), for any prices,
  sizes and capacity. The invariant adds `Room`: after the second select of `sendUpdate` the channel
  has a free slot, since `m.mu` keeps other senders out.
- **Quotes** `QuotesAreMirrored`, `QueriesTellOneStory`, `ValidIsEqual`, `HealthChecksAgree` (in
  `Manager_proof`), for any number of ticks and any sizes. A list is characterised by the number of
  orders before each (`Lists`): there is one list only, its head is the best order (`ListHead`), a
  set that has with a price all before it makes a prefix (`ListPrefix`), and mirroring turns the
  list from below into the list from above (`MirrorLists`).
- **The folds of Quotes** `HighestIs`, `LowestIs`: the loop of `GetBBO` finds the best order whichever way
  it walks the map; `TotalIs`, `MirrorTotal`: `TotalSize` counts the units of a side, and mirroring keeps
  their number. `FoldSet` and `FoldFunction` are recursive functions of the subsets of a set, chosen
  by their equation. Each proof shows that such a function exists by giving it in closed form (the
  best of a subset, the number of its units), and then that any such function has the property by a
  smallest subset without it (`SmallestSubset`): `WFMin` of the library, which has no operator
  parameter, does what the induction theorems would.
- **Heartbeat** `Noticed`, `FirstIsJustified` (in `WSClient_proof`), for any interval and any delay
  below two intervals. The invariant bounds the age of the last response by the last tick
  (`Fresh`) and says which heartbeats can be
  unanswered (`Answered`).
- **Sync** `StreamIsKept`, for any levels, sizes, refreshes and number of events, provided there is a
  size at all. A book in step is the exchange's once the diff in hand and those on the wire are
  applied, level by level. While both books are initialized a handled diff is written to both
  and no longer pending, which leaves every level as settled as it was. The invariant says that
  what a fetcher may apply is a book (`Fetched`), so an applied answer never stops the stream of
  the other token, and that no market is served without a connection (`Linked`).
- **RateLimiter** `GrantsAreBounded`, for any rate, burst and number of callers. The invariant
  `Paid` adds to what was granted what could be granted now.
- **Lifecycle** `ValidationIsUnique`, `StoppedValidatesNothing`, `NobodyIsMisled`. The invariant `Held` says
  that whoever is at work is the one `validationCancel` cancels; `Dialled` says who dials when a
  `Start` counts on a client that is down.
- **Requests** `OrdersAcceptedOnce`, `FirstAnswersAreDefinite`, `CancelsStick`, for any calls, batches and
  retries, the first and the last for an exchange that accepts a salt once (`Dedupes`). `Signed`
  says that what was accepted bore the salt of its order, `Bounded` that requests belong to
  attempts made, `FirstRequest` where the only request of a first attempt can be, `Closed` that a
  `CancelOrder` or a `CancelAllOrders` is answered after it was done. `CancelsStick` excepts
  what the property excepts: a refusal misread, and lists.
- **Subscriptions** `TrackedIsServed`, `UnsubscriptionSticks`, for any users, channels, capacity and losses.
  The invariant says that somebody still owes the server the state of the map: for a tracked
  channel the queued message, the call about to write it or the reconnection that will
  subscribe it (`Owed`), for an unsubscribed one the message or the call (`Withdrawn`).
- **OrderAmounts** `PriceIsKept`, `NothingIsFree`, for all integer amounts, negative and tiny ones included,
  and any `Asked`, under `OrderAmountsAssumption`: `Cents` is a multiple of 100, and `Decimal18` at
  least fifty times `Precision` (a hundred times in the code; without it a quote amount could buy
  tokens for no dollars). They rest on two facts: rounded division is off by at most half a unit,
  and it is zero below half a unit.

Each model with theorems also has `TypeCorrect` for its `TypeOK` (`ClockTypeCorrect` for
`HeartbeatTypeOK`), `OrderAmounts` excepted, whose invariant says it.

Only model-checked: liveness (`Recovers`, `Drains`, `Progress`, `ServedInTheEnd`, `Returns`, `ValidationEnds`,
`RepairedInTheEnd`), which needs fairness and `ENABLED` and is out of the prover's reach. Every
invariant and every action property of the passing runs, and the refinement of `Service`, is a
theorem. The three violations are counterexamples TLC finds; a proof has nothing to add.

## 6. Not modelled

- `auth/`, order hashing and EIP-712 signatures: pure functions over byte strings.
- `markets/`, account, order and trade getters, JSON types: one stateless GET each.
- URL and query building, headers, facade, configuration setters, utilities, examples, logging and
  formatting.
- Last prices: a map entry a message overwrites, with no guard and no other reader.
- `SetPrivateKey` while orders are placed, torn `GetMarketSummary`, replacing the snapshot fetcher
  while fetches run: the code takes no lock there that an order of steps would depend on, and no
  doc, comment, test or example promises what happens.
- `Subscribe` before the first `Connect` has returned (section 3).
- The exchange, the network and the application are external: they do whatever a definition
  marked external in `PROJECT.json` allows.

## 7. Plan

Done, most important first: `WSClient` and its refinement, `Manager` with its channel, `Heartbeat`,
`RateLimiter`, `Subscriptions`, `Sync` with both tokens, `Requests` with batches, cancels and
transactions, `Lifecycle` with its client, `Quotes` with the health queries, `OrderAmounts`, and
theorems for the safety properties of them all.

Next, in this order. The number of runs is kept small: new operations join the run of the module
they extend.

1. `WSClient` and `Lifecycle` in one module, so that the `Start`s that race are those of `sdk.go`.
2. `Subscriptions` from before `Connect` returns, and with `Close`.
