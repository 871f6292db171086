# A verification project for squeaknode

TLA+ models of [squeaknode](../src/README.md), a node that publishes, shares and
sells *squeaks* (signed posts whose content is encrypted with a key that is sold over
Lightning), with the TLC configurations that check them and TLAPS proofs of the
properties that matter most. File and line references are to `src/`; where only
`x.py` is given it is under `src/squeaknode/`.

## The system

The node is one Python process (`node/squeak_node.py`). Threads of a gRPC server and two
web servers, of thread pools, timers and background tasks all work on one SQL database;
lnd, bitcoind, Twitter and other nodes are reached over the network. Two facts shape
almost everything below:

* each method of `db/squeak_db.py` takes a connection of its own and commits by itself,
  so that an operation of several statements can be interleaved with any other and can
  be cut short by a crash after each of them;
* `SqueakStore` has no lock. The only locks are in `PaymentProcessor`, `TwitterForwarder`
  and `TwitterForwarderTask`.

The user works with a web frontend, a React application with one redux store. Its actions are asynchronous
(`createAsyncThunk`): they ask the node over HTTP, and their replies go to the reducers whenever they come, which may
be in another order than they were asked for and while another page is open.

### Inventory

| component | state | operations | interacts with | hard about it | what makes it correct |
|---|---|---|---|---|---|
| squeak store (`node/squeak_store.py`, `db/squeak_db.py`, deletion worker) | table `squeak`: key, content, liked, age; signing profiles | make, save (with two limits), save a key, unlock, like, unlike, delete, retention | admin, downloads, Twitter forwarder; listeners | check and write are separate statements; retention deletes from a list read earlier; exceptions and crashes between the key and the unlock | keys and contents are right and stay put; retention spares what is protected and reaches the rest; limits |
| payment processor (`node/payment_processor.py`, `core/squeak_core.py`, worker) | tables `sent_offer`, `received_payment`; the current task, `stopped`, `payments_result`; lnd's subscription | start, stop, subscribe, insert a payment, mark the offer, reprocess, expiry | lnd; admin; seller side of the peer server | stop racing with subscribe; tasks that overlap; streams that break; restart from the last settle index | each payment of an offer is recorded once and in order, with no gaps; a stop stops |
| offers and purchases (`client/peer_downloader.py`, `squeak_store.pay_offer`, offer expiry worker) | tables `received_offer`, `sent_payment`; keys | ask a peer for a key or an offer, insert the offer, pay, record, mark, save the key, expire | peers; lnd; squeak store | overlapping downloads and payers; rows deleted under way; crash after the payment; dishonest sellers | what is paid is recorded and unlocks; open offers are unpaid and few |
| Twitter forwarder (`twitter/`, worker) | table `twitter_account`; `current_tasks`; `stopped`, `tweet_stream` of each task | add and delete accounts, restart, stop, open a stream, retry | admin; Twitter; squeak store | restarts overlap; a stream is dropped without the lock; requests hang | one task per account, none for deleted accounts |
| peer download (`client/network_controller.py`, `client/peer_downloader.py`, download worker) | none of its own | lookup, download squeaks, keys and offers of every peer | peers; squeak store | one failure ends the loop of a peer; runs overlap | what a peer serves gets stored |
| event listeners (`node/listener_subscription_client.py`) | callbacks by name; a bounded queue per subscriber | subscribe, notify, unsubscribe, poison pill | squeak store (publishers); admin and web streams | the dictionary changes during a notification; full queues block publishers | a subscriber gets each item once and in order |
| received payments subscription (`node/received_payments_subscription_client.py`) | a bounded queue, the last index | poll the table, put, get, poison pill | `received_payment`; admin streams | full queue of a consumer that left | each payment once, in order |
| node settings (`node/node_settings.py`) | table `config` | set, clear and read the sell price | controller | insert, then update | a price that is set is used |
| peer server (`server/`) | none | serve squeaks, keys, offers, lookups | controller | price and key are read in separate statements | sold keys are not given away |
| controller, node life cycle, workers (`node/`) | the wiring | delegate; start, stop | all | timers start the next run before the work of this one | - |
| queries and pagination (`db/squeak_db.py`) | none | timeline, profile, search, threads, by page | admin | position by height, time and hash while rows come, go and change | pages neither repeat nor skip |
| web frontend (`frontend/src/features/`, `frontend/src/components/`) | the redux store: one current squeak, profile and peer, lists, offers, sums and a status for each; the page that is open, its modal and chosen offer | open a page; like, delete, make, buy and download squeaks; make, import, rename, follow, export and delete profiles; save, switch and delete peers; list payments; accounts and price; log out | admin interface | replies do not say which page they are for and overtake each other; requests fail and get lost, mostly without a case for it; reducers that throw; fields read again while they are changed | once all is quiet the pages show what the node has; a page acts on its own squeak, profile or peer; no screen is blocked for ever; a list shows everything once and in order |
| profiles and peers (`core/profiles.py`, `core/peers.py`, `db/squeak_db.py`) | tables `profile`, `peer` | create, import, rename, follow, delete, export; save, switch, delete | squeak store; frontend | names and keys are unique by index, peers by a search before the insert that ignores the network | one peer for a host and port; ids are not used again |
| lightning and bitcoin clients, crypto (`lightning/`, `bitcoin/`, `core/`) | none | RPCs, keys, encryption | lnd, bitcoind | calls that fail after they took effect | - |
| admin interface (`admin/`) | sessions | convert and delegate, one request of the frontend each | frontend; controller | which requests raise, and what they read after a change | - |
| configuration, migrations (`config/`, `db/`) | - | read options, create tables at the start | - | - | - |

`PROJECT.json` has the same list with what is modelled of each component, the mapping of
every definition to source lines, and the hazards with the properties that would catch
them.

## The modules

| module | models | proofs |
|---|---|---|
| `SqueakStore` | the squeak table and the operations of the store | `SqueakStore_proofs` |
| `PaymentLedger` | what a seller is promised about its payments (abstract) | |
| `PaymentProcessor` | the payment processor; implements `PaymentLedger` | `PaymentProcessor_proofs` |
| `OfferPurchase` | how a key is got for free or bought | `OfferPurchase_proofs` |
| `TwitterForwarder` | the tasks that mirror tweets | `TwitterForwarder_proofs` |
| `Ordering` | ORDER BY and LIMIT of the queries, and the filters of lists | `Ordering_proofs` |
| `SqueakPages` | lists of squeaks read page by page: the queries and the frontend | `SqueakPages_proofs` |
| `Thunks` | the asynchronous calls of the frontend: dispatch, requests, replies, failures | |
| `SqueaksSlice` | squeaks in the frontend: their page, cards, offers, the form | |
| `ProfilesSlice` | profiles in the frontend: their page, the lists, the forms | |
| `PeersSlice` | peers in the frontend: the page of a peer and the list of saved ones | |
| `PaymentsSlice` | the lists of sent and received payments, page by page, and their sums | |
| `SettingsSlice` | Twitter accounts, the sell price, the network and address of the node, the session | |
| `AdminFrontend` | all slices in one store | `AdminFrontend_proofs`, `FrontendPages_proofs` |
| `MC...` | small instances for TLC | |

In all of them a SQL statement, an RPC or an access to a shared Python attribute is one
step; what a thread does next is `pc`, what it holds in local variables is `local` (or one
variable per attribute). Requests and faults are taken from the constants `Requests` and
`Faults`, so that a configuration chooses the environment; the number of faults is bounded
by `MaxFaults`. Mutants (`Operator_Mistake`) are forms of a definition with a plausible
bug, placed before the definition; each property is shown to be broken by one of them.

### SqueakStore

`squeaks` maps the hash of a row to its `secret_key`, `content`, `liked` and whether it is
older than the retention time (`aged`). A content is represented by the key it was
decrypted with, so *right* means "equal to `KeyOf[s]`". `signing` is the set of profiles with a private key.
`SaveSqueak` is `count_squeaks`, `count_key_block`, `insert` and `notify_squeak`, in the order of
`squeak_store.py:122-148`; `SaveSecretKey` reads the row, checks the key (the one that opens
the squeak) and writes it; `UnlockSqueak` reads the row, then the key, then writes the content
(167-210). A retention worker lists `Expired` in one step and deletes one squeak of its list
per step (604-613). Listeners may raise and the process may restart between any two steps.
UPDATE and DELETE of a row that is gone do nothing, as in SQL.

### PaymentProcessor

`settled` is lnd's sequence of settled invoices, a settle index its position. A task reads the
highest index (or 0), subscribes, tests `stopped`, and goes through the invoices: backlog and
new ones come in order, none as backlog when the index is 0 (`proto/lnd.proto:3327`).
`InsertReceivedPayment` and `SetSentOfferPaid` are the two statements of
`payment_processor.py:122-138`. `SetStopped` and `CancelResult` are the two accesses of
`stop_processing` (85-89), between which the task may do anything. `AcquireLock`, `SpawnTask` are
the parts of `start_processing` under the lock. lnd may end or break a stream, a statement may
fail, the process may crash.

The refinement to `PaymentLedger` maps the offers to `DOMAIN sentOffers` and the ledger to the received
payments: an entry is made at most once per invoice, with lnd's index, and never before an
earlier one that the node still has an offer for.

### OfferPurchase

`download_secret_key` is `HasSecretKey`, `AskSecretKey`, `ListOffers`, `AskOffer`, `InsertReceivedOffer`;
`pay_offer` is `PayOffer`, `PayInvoice`, `InsertSentPayment`, `SetReceivedOfferPaid`, and both end in
`save_secret_key` (`CheckSecretKey`, `SetSecretKey`). Invoices are named by their payment hash;
`Honest` are those whose preimage gives the right key. lnd pays an invoice once and only
before it expires. Peers change their price, rows expire or are deleted at any time.
Whether the unlock after a key succeeds is the business of `SqueakStore`.

### TwitterForwarder

Threads of `Restarter` are the ones `restart()` spawns, `Worker` is the thread of
`ProcessForwardTweetsWorker`. Under the lock of the forwarder they stop the tasks one by one
(`StopTask`, `CancelStream`: tweet_stream is tested, then read again), read the accounts and spawn tasks. A task tests
`stopped`, sets up its stream under its own lock and iterates; after an exception it drops the
stream without the lock (`DropStream`), waits and tries again.

### SqueakPages

`stored`, `unlocked` and `following` are what the queries of `squeak_db.py:294-354` and `414-542` look at, `Key` is the
position of a squeak (height, time, hash), `GetPage` is WHERE, ORDER BY and LIMIT. The lists of
`squeaksSlice.js` are `shown`, their status is `loading`. `Open` clears a list and asks for its first page (`Timeline.js:26`,
`SearchResults.js:43`), `LoadMore` asks for the rows below its last entry, with the text in the search box
(`SearchResults.js:84`), `Fulfilled` appends a reply to whatever the list is by then. History variables say
which squeaks have matched since a list was opened (`stable`) and which lists got a reply to another opening or
text (`mixed`): the code does not tell such replies apart, and the properties hold for the other lists.

### The frontend: Thunks, the slices, AdminFrontend

`Thunks` is what all slices share. `calls` are the thunks under way: each has the requests it still has to make
(`todo`), the last reply, and its status field (`currentSqueakStatus`, ...), which is in `loading` meanwhile. A thunk is dispatched by an act
of the user or the mounting of a page (`Dispatch`); the node runs its next request (`Answer`, or `Refuse` when the handler raises); the
connection may lose a request, before or after the node ran it (`Lose`); the reply goes to a reducer (`Settle`), which may throw
(`Crash`); an error goes to the `rejected` case of the slice if there is one (`Rejected`). These steps of different calls come in any order.

A slice has three parts. The *node*: one action per request, named as in `frontend/src/api/client.js`, which
does what the handler behind it does to the tables (`db/squeak_db.py`, `node/squeak_controller.py`, `admin/squeak_admin_server_handler.py`), in one
step; the steps within a handler are the business of `SqueakStore`, `OfferPurchase` and the others. The *reducers*: one action per `fulfilled` case.
The *pages*: one action per effect and click, with the condition under which the page offers it, since that is what
decides which calls can overlap. A form is taken to be open whenever its page is; the modal of the offers is modelled (`toggleBuyModal`,
`handleChangeOffer`, `ClickBuy`), because it outlives the change of its page and closes before the purchase ends.

The page of a squeak asks once for its newest replies, at most `ReplyLimit` (9 in the code, `Squeak.js:84`) in the order `Newer` of height, time and
hash (`Replies`; `squeak_db.py:619-680`), and has no way to get the others. The timeline, searches and the squeaks of a profile are
answered whole here; how they are continued part by part is the business of `SqueakPages`.

History variables say where the code makes no difference that a property would need:

* `doubt`: fields that were read or written by a call that overlapped with a change, or whose call failed; and the current peer when it was
  deleted or switched by its id on a page that still awaited its own answer (`PeerChanged`);
* `foreign` (squeaks), `awaited` (profiles), `peerAwaited` (peers): fields whose last answer was for another page, or has not come yet;
* `carried`: the chosen offer was chosen on another page or from the offers for another squeak;
* `unfilled`: the list of replies was full and has lost one; the reducer of a deletion takes it out and nothing takes its place until the next answer;
* `mixed` (payments): lists that got an answer to an opening before the present one;
* `crashed`: status fields left by a reducer that threw.

The properties leave out these fields and no others, so that they bound the damage: a reply that is late can only spoil what
these variables record, and it is repaired by the next undisturbed answer.

`AdminFrontend` has all slices in one `Next`. They share the calls under way and nothing else, neither in the store nor in the
tables the requests touch, as far as a slice shows them. A behaviour therefore follows the thunks of one *view*, a set of thunks whose calls
meet in the same fields; other thunks that a page dispatches along with them are dropped (`Followed`). The proofs take
`Views` as arbitrary, the set of all thunks included.

## The runs

| run | question | instance |
|---|---|---|
| `store_unlock` | are keys and contents right, and never changed while the row lives; how far is the limit overshot? | 2 threads, two public and a private squeak, listeners that raise, restarts; room for one squeak and one per key and block: two are reached, three are not |
| `store_live` | does retention spare what is protected and reach the rest; does a key end in a readable squeak? | a public squeak, 2 threads and a retention worker, users who like, delete, import profiles; no faults |
| `payments_safety` | one task that is not stopped, no cancel lost, no gaps, `PaymentLedger` | a node that has recorded a payment, 2 more invoices, 2 tasks, the worker and an admin who reprocesses, one fault of any kind |
| `payments_live` | do stopped tasks end; are payments recorded, and their offers marked? | a recorded payment, an invoice of the node and a foreign one, one task at a time, shutdown, 2 broken streams |
| `payments_reprocess` | violation | a fresh node, one invoice, one broken stream |
| `offers_safety` | how many open offers do overlapping downloads leave; how many payments can be lost? | 2 downloaders and a payer, 3 invoices of one peer, one of them dishonest, rows deleted and downloaded again, a crash or a broken call |
| `offers_live` | are open offers unpaid; does a paid offer unlock? | a downloader, 2 payers, 2 invoices of a peer that changes its price; no faults |
| `offers_crash` | violation | one crash |
| `forwarder` | one running task per account, no stopped task on an open stream; do added accounts get a task, do deleted ones lose it? | an account that is deleted and added, 2 restarts and the worker, 3 tasks, shutdown, a broken stream or a request that hangs |
| `forwarder_restart_fails` | violation | one broken stream |
| `pages` | does a list repeat, disorder or skip squeaks while rows come, go and change? | 3 squeaks, 2 of one block and second, pages of 1, up to 3 requests under way for the timeline or a search, one that fails; `OneList`: only one of the two lists is opened, since they share nothing but deletions |
| `frontend` | do the pages show what the node has once all is quiet; do they act on what they show; is a screen ever covered for nothing? | two squeaks, one that is made and in one view one more, one offer, two keys, three addresses on two networks, three payments of two authors, two handles; 28 views; two replies asked for where there can be three |

**Bounds.** The hazards are races of two threads over one row, one offer or one task, so two
threads of each kind and one or two of each datum are enough for every order of their steps. In
`forwarder` the third task is the one that a second restart starts. One fault shows what a fault
does at each point; that a second may hit the recovery is in `payments_live`, and in the proofs, which
put no bound on faults, threads or data (and so cover two overlapping workers of retention or expiry, which the
runs do not have). Symmetry is used in runs without liveness properties, over threads or tasks
that nothing tells apart. Deadlock is not checked: all requests may have been made and all threads
be idle, or all tasks may have ended, which is where the bounded system rightly stops.

In `frontend` a view has 3 to 5 acts of the user (`acts`) and none or one lost request (`faults`). An act is
possible while at most one other call is under way (`MaxCalls`), but a page dispatches up to three followed thunks at once, so that two to four calls overlap: enough
for a reply to be overtaken by another one, for a change between a read and its reply, and for the answer to a page that was left.
Three acts are a page, a change and the next page; four, with a deletion or a purchase before. Profiles and peers start in
any state in which the node can be, and so do the squeaks that `StoredFirst` lets a view start with: one or two of them, any or all, and in one
view all but one of three replies to a squeak whose page asks for two (`ReplyLimit`), where the third is made between
the others and any is deleted. A list that is cut off, one that becomes full and one that loses an entry when full are all reached.

**Fairness.** `LiveSpec` assumes that threads are scheduled (weak fairness of each
thread's steps), that timers keep firing, and that lnd and the peers answer; no request and no fault is
ever forced. In `TwitterForwarder` the threads compete for locks that are not handed out in order:
strong fairness says that a thread that waits gets its lock in the end. No liveness is claimed
under faults for which the code has no answer: exceptions of a statement in a payment task, requests
to Twitter that hang, a stream that breaks while a restart stops its task, crashes between two
statements of a payment. The liveness properties of the forwarder say so themselves (`faults > 0`), so that one
run checks safety with faults and liveness without. `AdminFrontend` has no liveness properties: nobody makes a user go on, and a
`fetch` that fails has no case in the slices, so that its status stays `loading`. What is said of it is said of the states with no call under way.

### What the runs found

* `payments_reprocess`: reprocessing sets the settle indices to 0, and for index 0 lnd sends
  no backlog: what was missed stays missing (`node/squeak_controller.py:392`).
* `offers_crash`: the key of a bought squeak exists only in memory between lnd's answer and
  `insert_sent_payment`; after a crash there the invoice cannot be paid again and the
  squeak stays locked (`squeak_store.py:221`).
* `forwarder_restart_fails`: `tweet_stream` is set to None without the lock while
  `stop_processing` is between its test and its use; the restart dies and a new
  account is never forwarded (`twitter_forwarder.py:123`).

Known limits that are not runs of their own. The counts of `save_squeak` and its insert are separate statements, so
concurrent downloads exceed `max_squeaks` ("The absolute maximum", `docs/configuration.md:11`), by how much is
`SqueakLimit`: the number of threads minus one. A list of the frontend that is opened again, or goes on with another
text, while a request is under way repeats and disorders squeaks, and one whose request fails cannot be continued
(`squeaksSlice.js:307-330`). A squeak that is gone when it is liked, unliked or bought makes
the reducer throw, since it reads the hash of an entry that is not there: after a purchase the overlay then stays over the screen for good
(`squeaksSlice.js:364`). Of the replies to a squeak the page shows the newest nine and offers no way to the others; when one of
nine is deleted, the tenth is not shown before the page is opened again (`Squeak.js:84`, `squeaksSlice.js:286`). A link from one squeak to another keeps the modal and the offer chosen in it
(`Squeak.js:72`); when it is bought there, the purchase reads the squeak of the page again and not the one that was bought (`squeaksSlice.js:178-188`),
so that the cards of that one stay locked: `ClickBuy` puts the lists in doubt then. The proof of `QuietSqueaksTrue` found this; the run
does too, since it has a view with a list and purchases. Answers to a page that was left replace what is shown on the present one. A deleted profile stays
in the lists until they are fetched again, and the private key that was exported on one page is displayed on the next profile's. A peer is looked for by
host and port, not by network (`squeak_db.py:1003`). The list of payments of one author is not read again on the way to another author's. A squeak that is liked after the retention worker has listed it is
deleted all the same (`squeak_store.py:607`). `ProtectedSqueaksStay` says nothing of squeaks that are on a list
when they become protected.

What the properties of the frontend do not say. Its `Quiet...` properties compare the pages with tables that
change by the calls of this one frontend only: downloads and retention in the background, expiry and a second browser change them as well, and no page hears
of it before it asks again. In particular `UnpaidOffers` leaves out that an offer expires (`squeak_db.py:1109`), so that an offer that is shown can be bought
too late; the purchase then fails, which is in the model (`Refuse`). Twitter accounts get a new id for ever in `SettingsSlice`, while SQLite may give the id of a deleted
last row again, the table being without `sqlite_autoincrement` (`db/models.py:201-208`); no property depends on it.
A squeak that is made opens its own page; should that page be the open one, its effects do not run again in the code (`Squeak.js:87`), while
`setMakeSqueakFulfilled` lets them: for this the user would have to get to the page of the new squeak before the answer, while the screen is covered.

## The proofs

All constants are arbitrary up to the named ASSUMEs of the modules (sets of threads are disjoint,
and finite where they are counted; data are what their names say).

* **SqueakStore.** `TypeCorrect`. `KeysAlwaysOpen` from `KeyInv`: besides the table, what a thread holds
  between reading a key and writing it is right (`HeldKeys`), since a key belongs to a squeak
  and not to a row: this is why deletion and a new download in between do no harm.
  `SecretsKept` and `ProtectionHolds` are action properties, by the actions that write the
  table. `LimitHolds` from `LimitInv`: rows plus threads that have passed the first count never
  exceed the bound, because a thread passes only when there is a free place.
* **PaymentProcessor.** `OneTaskRuns` and `CancelNeverLost` from `ControlInv`: the lock has one
  holder, every living task but the current one is stopped, and a stopped current task is about to be
  cancelled. `NoGapsHold` from `GapInv`, whose heart is the set `SafeIndices` of the indices up to
  which everything is handled: recorded indices, the index a task subscribed from and its position in the
  stream are all safe (`SafeInv`). Reprocessing sets the indices to 0 and with that gives up the promise: from then
  on the invariant, `NoGaps` and the ledger hold only that it happened (`Cleared`). The theorems assume
  `SomeRecorded`, a node that has recorded a payment before, since a task of a fresh node subscribes from
  0, for which lnd sends no backlog. `ImplementsLedger` follows: each step
  of the processor is a step of the ledger (`ClearIndices` among them) or a stutter.
* **OfferPurchase.** `OpenOffersAreUnpaid` from `PurchaseInv`: a thread that inserts an offer is the
  only one that knows its invoice, so a new open row is unpaid. `OpenOffersAreBounded` from `BoundInv`: the open
  offers of a peer for a squeak plus the threads that have found none and are about to insert one are at most as many
  as there are downloading threads. `LostPaymentsAreBounded` from `LostInv`: the settled invoices that are not in
  the sent payments are no more than the threads about to store one, plus one per payer and fault. Storing takes one off
  both sides only because no two threads are about to store the same payment (`InsertedOnce`).
* **TwitterForwarder.** `AccountsHaveOneTask` and `CancelNeverLost` from `ForwarderInv`: the lock of the
  forwarder has one holder; a task that was not told to stop is the one `current_tasks` has for its
  account (`TasksAreKnown`); no task is stopped while it opens its stream, because both hold the task's lock
  (`OpeningIsSafe`); and so a stopped task with an open stream has a thread that is about to cancel it (`StopsCancel`).
  A restart that dies leaves the lock and the dictionary in a state in which all of this still holds.
* **Ordering.** The answer of a query is not sorted by a recursive operator: its n-th element is the one that n - 1 others
  are before (`FirstOf`), the list that ORDER BY and LIMIT mean. `FirstOfOrdered` says for any order and any finite set what it
  contains: elements of the set, each once, in the order, and when the limit cuts it off, none of those left out is before one that
  is in it; `BeginningOfFirst`, that a list with this property is a beginning of that answer. Both rest on `EveryPlaceTaken`: each place from the first to the last has an element, by cardinalities alone, without induction.
* **SqueakPages.** `PagesTypeOK`, `PagesInOrder` and `PagesHaveNoGaps` from `PagesInv`. A list grows by whole replies, so the lists are in
  order because every request under way for the present opening asks for what is below the last entry (`FetchesContinue`), every
  reply is below what its request gave (`PagesFit`), and there is at most one of the two for a list that no answer to another opening was mixed into
  (`OneAtATime`). That nothing is skipped is said of the squeaks that stayed as they were since the list was opened
  (`stable`): a reply skips none of them below its request's position, whenever it was computed, and the list none above its last entry.
* **AdminFrontend.** `PagesShowTheirSqueak` from `PageInv`: besides what the page holds, every call under way that would write a field of the
  page has the argument it was dispatched with, and its next request and its reply are about that squeak (`CallsInv`), so that a
  reply that is not marked `foreign` is for the page. This rests on the node, too: the rows and offers it answers with belong to the squeak that was asked for.
  `ScreenOnlyCoveredByCalls` from `ScreenInv`: every thunk with a status that covers the screen is one whose rejection has
  a case, so that each way in which its call can end takes the status out of `loading`, but for a reducer
  that threw. This needs to be said of the calls under way, by name (`Covers`), since a rejection of any other thunk leaves its status. `PeersStayUnique` from `PeersInv`: the addresses of saved peers are
  their own, and only a host and port that is free is added. The assumptions are those of the slices: a squeak is not the name of a page,
  an offer belongs to one squeak. `QuietSettingsShowTheNode` from `SettingsInv`: a field shows what the node has, or is marked, or a call that
  will read it again has changed the table since. A call that is not `crossed` is the only writer from its first request to its
  reply (`CrossInv`: of two calls that overlap, one of which writes, one is crossed, and both if both write), so what it has read is still true when the
  reducer stores it. What the steps of the other slices, a lost request and a logout leave of these calls is `SliceElsewhere`.

  `ProfilePagesShowTheirProfile` and `PeerPagesShowTheirPeer` from `PagesInv`. `CallsAfter` says where a
  call comes from: it was there, was dispatched, was refused, or was answered. With it, what a call still asks for and
  what it has been told is invariant (`ProfileAsked`, `PeerAsked`). A profile is changed by its id, and the page
  shows it by its key: that an id names the key it was made for (`WellFormed`) holds for every profile stored, shown or under way.
  A peer that was switched is looked for by its id in the new list, so the proof needs that an id is of one
  address for ever, deletions included: there is a sequence of addresses, one per peer ever saved, that agrees with every peer stored,
  shown or under way (`PeersKnown`); it is extended by a save. The assumption is that a key or an address is not the name of a page.
  `PaymentListsStayInOrder` from `PaymentInv`: of a list into which no answer to another page was mixed, at most one part is under way
  (`LoadMore` waits for `loading` to end, and only the calls of the list hold its status, from `ScreenInv`), it asks for what is before the last
  payment that is shown, and its reply, if it has one, goes on there without a gap (`Continues`), whatever was recorded since.
  `QuietPeersShowTheNode` from `QuietPeersInv`: a call that is not `crossed` ends with what the node has, and if it changes a peer while the page of an address
  is up to date (`PageFresh`), it changes the peer that is saved for the page, which it finds again by its id (`PeerTrue`); a page that is up to
  date shows the saved peer, unless a call that changes peers is under way (`PeersFresh`). It needs `PeersInv`: ids and hosts are unique. A switch of a peer
  on a card is no exception, because the list is another page (`PageFresh` says that the page is of an address).
  `QuietProfilesShowTheNode` from `QuietProfilesInv`, where a reply changes the fields instead of replacing them: a call that changes a profile and is
  not `crossed` will end with its new state, and once this is stored in the fields they hold what the node has (`Behind`), before and
  after each of its two requests (`SetBehind`; an id names one key, from `ProfilesKeyed`). A profile that is made is in no list until that is read
  again: the call is no excuse for the list of those one can sign with if it makes a contact (`ProfilesFresh`), and while the page of a
  key is up to date only the contact that it offers is made (`ProfileTrue`), after which the page reads its profile (`PageViewInv`: the view has the thunk
  that does, or the page never had its answer). A deletion leaves the page with `None` if the profile was there (`DeletionTrue`).
* **FrontendPages.** `QuietSqueakPagesShowTheNode` from `QuietSqueakPageInv`: what is shown as current lacks nothing but the new state that a call which is not `crossed`
  will bring (`Awaits`), also when it was written by the first and not yet read by the second of its two requests; that a like or a purchase
  leaves the page with a row that is there, or with none, is where the assumption that a row is not `None` comes in. A purchase makes the offers stale until they are
  fetched again, and the sum too, but for the views in which the page reads it again (`SqueakViewInv`); the sum counts as fresh only when no call reads it.

  `QuietCardsShowTheNode` from `QuietCardsInv`, which adds the lists to that. A list is true but for the entries that a call which is
  not `crossed` will replace or take out (`ListTrue`), and a call that fetches a list ends with what the node has (`CardTrue`). The list of replies is
  sorted (`InOrder`), and no reply of the node that it lacks is before one that it has; it has as many as are asked for, or all there are, or it has lost one when it was full (`Leads`). This
  survives a deletion on either side, the node's first and then the list's (`LeadsWithout`, `RemovedLeads`), while a squeak that is made excuses the list until
  it is fetched (`RepliesShown`). Such a list is the beginning of the answer of the node (`LeadsIsPrefix`), because only one list of given length leads a set in an order
  (`BeginningOfFirst` in `Ordering_proofs`). A reducer replaces the first entry of a squeak only, so what is said of a list is said of the
  squeaks that are in it once, and the steps of the reducers are lemmas about such lists: `UpdatedShows`, `RemovedKeeps`, `AppendedShows`.
  The ancestors are not a recursion in the model but the one way up along `ReplyTo` (`Thread`): `WayExists` proves that there is one, since the lowest
  squeak without one would reply to a lower one that has one, which is where acyclicity comes in, and the lists that the queries answer hold true entries by `EntriesTrue` and `ThreadTrue`.

  `FrontendTyped` from `TypesInv`: what a slice holds came in a reply, so its type rests on what a call was made for (`Fits`) and on the reply it ends with
  (`Suits`). That two calls of one thunk are of different acts of the user is not so for thunks dispatched by the `then` of another, which keep its number:
  `Apart` says that such a call shares its number with no other while it is under way. One lemma per slice maps its
  steps to three shapes, a dispatch, an answer or refusal, and an end (`TypedStep`), and `CallTypesKept` shows once that these keep the types of the calls.

Some assumptions are there for the proofs and say no more than the code does: the statuses of the two lists of payments and the positions of
payments are not `None` (`PaymentsAssumption`), nor is a peer (`PeersAssumption`), a profile (`ProfilesAssumption`), or a row or an entry of a squeak (`SqueaksAssumption`), squeaks and offers are finite, no two squeaks have the same place in the order `Newer` (the hash decides), replies have no cycles (the hash of a squeak
covers that of the squeak it replies to), and a view with `setLogout` has the thunks of the settings alone (`LogoutAssumption`), since a
logout loads the whole frontend again, and is followed for what it does to the settings.

Only model-checked: the liveness properties (TLAPS does not reason about fairness here). Every invariant and every action
property that a passing run checks is also a theorem.

## Not modelled

* Elliptic curves, encryption and formats: a key is right or wrong for its squeak. The content of messages, wording and logging.
* Configuration, migrations, bitcoind, channels and wallets: I/O or values that pass through. The conversion of messages in the admin interface.
* Event listeners and the subscription to received payments: streams for gRPC clients, with queues of their own. Nothing in the node
  and no page of the frontend depends on them; only that a listener may raise is in `SqueakStore`.
* The loop of a download over peers and lookups: the modules take the downloads that happen, in any order and number.
* Of the frontend: markup, icons, the layout and the service worker; modals other than that of the offers; uploads of images; login, which is a form of
  the server; `squeakclient/requests.js`, which no component uses; thunks no page dispatches or whose effect is not
  in the tables (connections to peers, clearing the image of a profile).
* Of the database engine: the isolation of a single statement is assumed, and the growth of a table beyond the constants is not explored.

## Plan

Done, in this order: the store, the payment processor with its ledger, purchases, the forwarder, the lists of squeaks, and the frontend with
all slices. What would come next:

1. `Sale`: a buyer (`OfferPurchase`) and a seller (`PaymentProcessor`) composed over one lnd network.
2. `EventListener` and `PaymentSubscription`: the streams for gRPC clients, their bounded queues and the poison pill;
   that `initial_index` is the first payment of a stream (`received_payments_subscription_client.py:39`) against what the query does. The
   table it polls is the one `PaymentLedger` promises.
3. `PeerDownload`: the loop over the lookup of a peer, with its failures, and the overlap of the timed runs.
