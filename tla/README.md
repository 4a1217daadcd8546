# Formal models of Graffiti

TLA+ models of the Graffiti repository, checked by TLC, with theorems proved by
TLAPS. Source paths are relative to the root of the repository; `server` stands
for `implementations/decentralized/server`, `client` for
`implementations/decentralized/client`.

## 1. The system

Graffiti is an API (`api/src`) for objects that are posted to channels and
discovered from them, two implementations of it, and wrappers around either.

| Part | State | Operations | Works with |
|---|---|---|---|
| Storage bucket, `server/worker/api/storage-buckets` | a SQL table of keys, R2 objects with large values, a deletion marker, a chain of writes | put, delete, get, get many, export, delete the bucket | routes, the service table |
| Service instances, `server/worker/app/service-instances` | rows of buckets and inboxes | create, delete, list | buckets, inboxes |
| Inboxes, `server/worker/api/inboxes` | messages, tags, labels, a cache of inbox rows per worker | send, get, query, label, export | accounts, client streams |
| Inbox client, `client/src/1-services/4-inboxes*` | pages of a query in IndexedDB, a Web Lock per query, cursors | query, continue, export, label, send | inboxes, other tabs |
| Storage client, `client/src/1-services/3-storage-buckets.ts` | queues of gets | get (batched), put, delete, export | buckets |
| Discover protocol, `client/src/3-protocol/4-graffiti.ts` | labels in the personal inbox | post, get, delete, discover, continue | storage, inboxes, DIDs |
| Client sessions, `client/src/3-protocol/1-sessions.ts`, `login-attempt.ts` | logins in a cookie and in localStorage, attempts | login, logout, forget | authorization, tabs, sites |
| Server sessions, `server/worker/app/auth` | session rows, a cache per worker, OAuth codes, challenges | create, verify, revoke, exchange, passkeys | every route |
| Handles, `server/worker/app/handles` | handles and reservations | reserve, insert, replace | passkeys, PLC |
| Actors, `server/worker/app/actors` | the actor of an account and its key | create, import, attach, update | PLC directory |
| Local implementation, `implementations/local` | a PouchDB database with a clock | post, get, delete, discover, continue | - |
| Synchronize, `wrappers/synchronize` | listeners | dispatch of what is posted, deleted or read | any implementation |
| Vue plugin, `plugins/vue` | collected objects, polls, timers | watch, poll, restart | synchronize |
| Iframe RPC, `wrappers/iframe-rpc` | sessions, streams and listeners per frame | forward, replay, stream | any implementation |
| Data guard, `wrappers/data-guard` | a queue of decisions, remembered rules | authorize, remember, revoke, block | any implementation |

What is hard about it:

* **Awaits.** Nearly all of the code is single threaded and asynchronous: what
  was read before an `await` may be stale after it. The bucket serialises its
  writes by hand, but neither its reads nor the requests to R2 that a restart
  interrupts.
* **Workers.** Workers of the server share a database and nothing else; each
  keeps caches without a limit of time.
* **Tabs.** Tabs of a browser share IndexedDB, cookies and localStorage, and are
  closed at any step.
* **Numbers as cursors.** Inboxes, exports and the local database page by a
  number that is taken before the data becomes visible.
* **No transactions over two stores.** SQL and R2, a message and its tags, the
  PLC directory and the database, storage and inboxes are written one after the
  other.

What makes each part correct:

* bucket: acknowledged writes are what reads find; no bytes out of reach; a
  deleted bucket is empty and stays so; an export is complete;
* inboxes: a message is stored once, in the inbox it was sent to, and every
  query that asks for it gets it once;
* inbox client: the stream of a query, over shared pages and tabs, is the inbox
  in order, and it ends;
* local objects and lists: a continuation gives what the stream before did not,
  and a list on a page becomes what is stored;
* discover protocol: a message that is condemned was wrong, a withdrawn object
  is reported as withdrawn, and a copy that a reader accepts is its author's;
* server sessions: a revoked token dies within one activity check, a code
  becomes one session;
* handles and actors: a reserved name goes to nobody else, and the key that the
  server holds controls the document of its actor;
* client sessions: tabs neither take each other's logins along nor mix the tokens
  of two accounts;
* iframe RPC: what a frame was told of logins and logouts is what its host has,
  and every request for one is answered once;
* data guard: a request is forwarded only with a rule, a prompt or a direction
  that allows it, when its turn comes; decisions do not contradict each other;
  a rule that the user did not confirm is not revoked;
* pages: an answer that comes late, for something else, or not at all, is not
  taken for another, and in the end every page has its answers.

`PROJECT.json` lists the hazards line by line, and the properties for each.

## 2. Modules

| Module | Models | Left out of that code |
|---|---|---|
| `StorageBucket` | `bucket-do.ts`, the deletion of a bucket in `service-instances/management.ts` | sizes, etags |
| `InboxServer` | `inboxes/db.ts`, `inboxes/index.ts`, creation and deletion of inboxes, the tables in `migrations/0001.sql` | labels and `getMessage` (below), the export |
| `MessageDelivery` | abstract: what a stream of messages promises | |
| `InboxStream` | `4-inboxes.ts` (`messageStreamer` and what it calls), `4-inboxes/cache.ts` | send, get and label (below) |
| `LocalObjects` | `local/src/objects.ts` | `get`, media |
| `LiveDiscover` | extends `LocalObjects`: `synchronize/src/index.ts` and the Vue composable `discover.ts` over it | `synchronizeAll` |
| `MessageLabels` | `getMessage` and `labelMessage` of `inboxes/db.ts`, `get` and `label` of `4-inboxes.ts` | numbers of inboxes |
| `Announcements` | `client/src/3-protocol/4-graffiti.ts`: post, delete, discover, continue, labels | the copies of an object, media, the export |
| `ObjectCopies` | `3-object-encoding.ts` (`encode`, `validate`), masking, and what announcing, judging and deleting do with copies | bytes, sizes |
| `ServerSessions` | `server/worker/app/auth/session.ts`, `oauth.ts` and the tables | listing |
| `HandleReservations` | `handles/registration.ts`, `handles/management.ts`, `auth/webauthn.ts` | cryptography, listing passkeys |
| `ActorUpdates` | `actors/management.ts`, `actors/helpers.ts`; the PLC directory as external | did:web, listing |
| `ClientSessions` | `client/src/3-protocol/1-sessions.ts`, `login-attempt.ts` | Node.js |
| `IframeRpc` | `wrappers/iframe-rpc`: session events, their replay, requests for logins | other calls, streams, time outs |
| `DataGuard` | `data-guard/host/src/core`: `guard.ts`, `rules.ts`, `login-access.ts`, `graffiti.ts` | previews, grants of single items |
| `NestedSites` | `core/graffiti.ts`, `core/provenance.ts`, `client/src/source.ts`: logins of frames in frames, and data that passes between them | |
| `AuditPanel` | `ui/AuditPanel.vue` | layout, sorting but by date |
| `GuardLogin` | `bootstrap/*`, `data-guard/client/src/index.ts`: a login that leaves the page for the guard | the frame on the screen |
| `StorageBatch` | `3-storage-buckets.ts` (`get`), the route of batches | put, delete, export |
| `MediaViews` | `getMedia`, `postMedia`, `deleteMedia`, the composable `get-media.ts` | marshalling |
| `BrowserAccounts` | the web application's list of accounts and its selection | |
| `ConsentPage` | extends it: `auth/Oauth.vue` | wording |
| `CreateIdentity` | extends it: `CreateIdentity.vue` | wording |
| `HandleForms` | `handles/RegisterHandle.vue`, `handles/ReplaceHandle.vue` | wording |
| `ActorPages` | `actors/DisplayActor.vue`, `ReplaceActor.vue` and the pages around them | the editor of documents |
| `LocalIdentity` | `local/src/identity.ts` | Node.js |
| `LiveGet` | `synchronizeGet` of `synchronize/src/index.ts` and the Vue composable `get.ts` over it | the schema |
| `...Proofs` | theorems about `StorageBucket`, `ServerSessions`, `HandleReservations` and `ClientSessions`, `LocalObjects` and `LiveDiscover`, `ActorUpdates`, `InboxStream` and `InboxServer`, `Announcements`; `GuardProofs` about `MCDataGuard` and its three parts, `PagesProofs` about nine parts of `MCPages` | |
| `MC...` | small instances for TLC | |

`MCDataGuard` and `MCPages` hold several subjects that share neither state nor
steps: the initial predicate chooses one, and only its actions follow. They are
checked together because each alone is small; nothing is claimed of their
interleaving. The constant `Subjects` says which are checked. `MCPages` has
`GuardLogin`, `StorageBatch`, `MediaViews`, `ConsentPage`, `CreateIdentity`,
`HandleForms`, `ActorPages`, `ObjectCopies`, `LocalIdentity`, `LiveGet` and `MessageLabels`; `MCDataGuard` has
`DataGuard`, `NestedSites` and `AuditPanel`.

### StorageBucket

State: `entries` is the SQL table (`Missing`, a small value, or `InR2` for the
NULL value), `r2` the objects, `deleted` the marker, `row` the row of the
service database, `writes` the promise chain of `write()` with the running call
first, and a record for each call in flight. An action is the code from one
await to the next, as the runtime runs it. A request to R2 is `AwaitR2`, then
`R2Applies`, then the continuation: `R2Fails` may come before or after R2 has
done its work, because the caller cannot tell. `Restart` drops every call and
keeps SQL and R2.

`legal`, `allowed`, `untouched`, `raced` and `orphans` are history: what a read
may return, what an export vouches for, which reads were overtaken by a small
put and which bytes a refused put left behind. No guard of the code depends on
them.

Left out: sizes other than small and large, etags, 304, 400 and 413, the width
of `getValues`; a delete of several R2 objects is one step; a put of R2 that
lands after the restart of the object that asked for it. The worker's cached row
(`db.ts`) is covered by `Put` and `Delete`, which do not look at `row`.

### InboxServer

State: `inbox` and `owner` are the table of inboxes, `rows` the messages with
their rows of tags (`tags`: the number of an inbox, and a tag), `cache` the rows that
each worker remembers, `send` and `reader` the calls of clients. Tags are inserted
and found by numbers, as the tables have them, so after a deletion they may land on
another message (`TagsGoIn`), or find one of another inbox. A statement of the database is one
step; `sendMessage` has two, and `Crash` may come between them. `NextNumber` is
what SQLite does for an `INTEGER PRIMARY KEY` without `AUTOINCREMENT`.
`PageLimits` stands for the limits 10, 100, 500. The cursor is in the record of
the reader, since the client only brings it back. `early` is history: the
messages whose tags were not there when a page went past them; so is `astray`: the
reader was given a message of another inbox, which takes two inboxes that have had
one number. Answers 429 and
410 are in `InboxStream`.

### InboxStream and MessageDelivery

A tab runs one stream of one query at a time. `Start` looks at the record
without the lock; `AtWork` is the lock being granted and the record read again;
`ReportStale`, `ReusePage`, `AwaitRetry` and `Request` are the four ways out of
that; `Answered`, `CursorExpired` and `RequestFails` are what the request comes
to; `CacheMessages` and `WriteRecord` are the two writes of `storeQueryPage`;
`Replay` yields the unseen messages, and goes on or returns a cursor. A tab may
stop at any step (`Close`), the lock then is free. Versions and generations are
random in the code and fresh numbers here. A message is its place in the inbox,
and a cursor of the server a place: what `InboxServer` shows to be right about
cursors, and what it shows to be wrong, is left to it.

`MessageDelivery` says what a reader may rely on: messages come in order and none
is left out, whatever happens; and none comes twice until the cache is out of
order (`again`). `InboxStream` implements it: `Delivery == INSTANCE MessageDelivery
WITH ...` maps its streams to the abstract ones, with `again` as "no lock orders
the streams, or somebody has cleared the storage"; `DeliveryHolds` is the abstract
specification under that mapping, checked as a property and proved. The weaker
half is a finding of the proof (section 4): a stream that is fetching when its
record is deleted writes the record back with the old version.

### LocalObjects and LiveDiscover

`clock` is PouchDB's `update_seq`, `docs` the documents with the clock that their
writer read (`lastModified`) and the one that PouchDB gave to the write (`seq`).
A writer reads the clock (`ReadClock`), writes (`Put`) and returns; a stream reads
the clock (`ReadStartTime`), queries one channel after the other
(`QueryChannel`), yields what it found (`Yield`) and returns the clock as its
cursor. `known` is history: what a reader was told of each object.

A write is `Overtaken` when the clock went on between its reading and its
writing. The cursor of a stream in between is then past `lastModified`, and no
continuation returns the object: the properties leave such writes out, and that
they must is a limit of the code, not of the model.

`LiveDiscover` puts a page on top. Its readers are the runs of the watcher in
`useGraffitiDiscover`; the writers in `Page` dispatch to its listener, the others
are other tabs. `raw` is `objectsRaw`, `shown` what the page shows. A poll may
fail, a run may be replaced while its stream waits, a get may be in flight.
`late` is history: objects that the page was told of after their deletion by a
get, a post or an old stream that had read them before, or that were on the list
when a first stream, which returns no tombstones, began. Nothing in the code
orders these, and the properties leave them out.

### Announcements

One actor posts; its devices and others read. `stored` are the objects whose
bytes are in the storage bucket, `log` the messages of each inbox: the object,
the message that it withdraws (`tomb`) and, in the personal inbox, the list of
announcements (`anns`). `act` is the post or delete in progress: bytes first,
then the other inboxes in any order, then the personal inbox. `Process` is
`processOneLabeledMessage` for one message: `Judgement` is what the reader is
given, `Verdicts` the label calls it starts, which stay in `pending` until they
arrive in any order. A message is seen with the label of the device's cache, or
with that of the server when it comes in a new page (`paged`). `Receive` merges
the streams of the inboxes. An outage hits the check of a message: a storage bucket
out of reach is an error, a DID that does not resolve, or names no storage bucket,
is "not found" like bytes that are gone. `blamed` is history: objects whose check
failed for a reason that has nothing to do with them; `unresolved` those among
them that were taken for missing.

A query of an inbox is complete and in order here, and a label call one step at
the server and in the cache; `InboxServer` and `InboxStream` say how far that is
right. The messages in flight of `querySingleEndpoint` are checked one after the
other. Tickets, tags, signatures and the masking of objects are taken to be
right, every message is genuine, and the author is not among the recipients:
`ObjectCopies` is about these.

### ServerSessions, HandleReservations, ActorUpdates

A request is a list of statements to a database that all workers share, and
other requests run between any two of them. `ServerSessions`: a call is `Runs`
(the statement) and `Resume` (what the worker does with the answer); `cache` is
`sessionCache` of each worker, time passes in ticks, and a row that is the last
one gives its number to the next. `HandleReservations`: a tab shares the cookies
of its browser, and reservations, challenges and handles are rows with an age.
`ActorUpdates`: the PLC directory accepts an operation that builds on the latest
and is signed with a key of the document; the answer may be lost, after which
the caller knows as little as the code does. A request reads its rows, the
document, the latest operation, publishes and saves: five steps. `Update` brings the
services and aliases of the document along, as the page has them. `Elsewhere` is a
service that adds to the document with an exported key, `ImportElsewhere` another
provider that imports the actor with one, and puts its own key and handle in the
place of ours; `exchanged` is history: the keys that were replaced so.

### ClientSessions, IframeRpc

`ClientSessions`: a step of a page is its code up to the next await. The cookie is
read and written in one such step; `localStorage` has a copy per site. An attempt
is saved before the page leaves, and a callback restores it. Not modelled: pages
that the browser keeps to go back to, users who clear their cookies; the
revocation of all tokens of a login is one step, and opening a page merges
loading it and restoring its sessions.

`IframeRpc`: `hist` is what a host remembers and replays; an event passes the
listeners of a page in one step and the channel to each frame in a step of its
own. The states of requests are paths that each host extends on the way up and
shortens on the way down. `Reload`, `Mount` and `Attach` lose and replace pages,
frames and clients.

### DataGuard, NestedSites, AuditPanel

`DataGuard`: a request is prepared (its login is checked, rules are loaded),
waits for those before it, is decided by a rule or a prompt, and is checked
again before it is forwarded; a remembered decision is posted first, and those
that it replaces are deleted one by one. Other pages of the guard write and
delete rules, end logins, and the page may be loaded anew at any step.

`NestedSites`: a call of a frame gets the path of the frame on its way up (`Stamp`),
a session event is turned into one about the frame, or dropped, on its way down
(`Forward`). There is one account, and an event passes all frames in one step;
relays and the states of requests are in `IframeRpc`. `AuditPanel`: `Revoke` is one
deletion of the loop over the confirmed rules, and everything else on the page
may happen between two of them. A discovery is one step. A page shows the newest
rules, those with fewer than `PageSize` matching ones before them.

A write of a rule may fail, and it may take effect while its answer is lost
(`PostUnheard`): the page then does not know of it, as of what another page writes
(`elsewhere`).

In `DataGuard` remembered grants of single items, the counter of pending requests
and the media that a grant covers are left out, and a site logs out only accounts
that it was told of.

### Pages

The other modules are parts of pages that wait: for requests, which may be
answered late, in another order, with a failure, or after the page has gone on;
for other tabs; and for users. Each has a bound on what users, others and
failures do (`MaxAsks`, `MaxGets`, `MaxEvents`, `MaxPageEvents`, `MaxFormEvents`,
`MaxActorEvents`, `MaxIdentityEvents`, `MaxGetEvents`), and none on what the page does by itself.

* `GuardLogin`: `LoginThere` leaves for the guard, `SignIn` for an identity provider,
  `FinishOk` and `CancelChoice` come back, `Connect` redeems the receipt; receipts are cookies, a nonce is the number of the request.
  The chooser of a login that stays on the guard's page is one step. `Stated` are the
  requests to which the app gives a state. For one without, `Restored` drops a failure
  that comes before the frame is initialized, as the RPC host does, and a success
  arrives by the replay of the sessions only; `PagesSettle` promises nothing else
  (`IsTold`). The run has `Stated = {1}` and two requests; `{}` and `{2}` pass, too.
* `StorageBatch`: gets join a queue (`open`) until it is full or its timer fires;
  the 404 of an old server makes the client ask value by value.
* `MediaViews`: views share fetches in a cache with a limit, whose entries
  expire; arguments change, views poll, unmount, and authors replace media.
* `ConsentPage`, `CreateIdentity`: both extend `BrowserAccounts`, the list of accounts
  with its refreshes in flight and the selected account. The bucket and inbox
  lists of an account are one request.
* `HandleForms`: the seq of a check and the domain of a verification, as the code
  has them. `ActorPages`: history entries of a tab keep what it thinks was
  exported; requests are one step, and failures change nothing.
* `ObjectCopies`: hashes, tickets and signatures are what they were made from, so
  that two are equal only if these are; a URL has the spelling that `encode` gives it,
  or another of the same object. `Mix` builds a message out of parts of others, or
  sends one again to another inbox. Drafts name the author, or one actor twice.
  `Delete` takes the last valid copy in the inbox of the author, whoever sent it, and
  withdraws it and what it lists; `Get` labels what an inbox has of an object.
  `DeletionsReachReaders` leaves out the deletions that went by a message which no call had
  sent (`Misled`, section 4). Requests do not fail, and labels are set at once. Not
  modelled: records that are too large; `validate` ignores `allowed` of a public record.
* `LocalIdentity`: a login ends with loading the page; `todo`, `inHand` and `ticket`
  are what the new page reads, and when. Apps log out actors they were told of.
* `MessageLabels`: not a page, but as small: statements of the server, the tabs of a
  browser that share its cache of messages, and `said`, the history of what was
  labelled. With `MayRace` inboxes are deleted between the two statements of a label.
* `LiveGet`: the gets of a view that has gone on to other arguments stay on their
  way (`calls`), and what they find is dispatched like everything the page gets or
  deletes. What a get comes to is decided when the object is read, before it
  returns. `InProcess` says that gets run in the page: they compile a schema after
  the listener has compiled its own. `outdated` is history: a deletion by another
  tab is told to nobody.

## 3. Runs

`CHECK_DEADLOCK FALSE` everywhere: the clients of every model have a bounded
number of calls and then stop. `PROJECT.json` lists what each run checks.

| Run | Shows | Bounds |
|---|---|---|
| `Bucket` | no write lost, reads right, deletion and export complete, every call answered | 2 keys on pages of 1, a small and a large value, 2 writers, a reader, an exporter, 2 writes, 1 R2 failure, 1 restart |
| `InboxQueries` | `hasMore = false` means everything, and following it ends | 1 inbox and the shared one, 2 workers with caches, 2 senders, 3 messages, 1 crash, pages of 1 then 2, a schema that refuses two messages |
| `StreamTabs` | the streams implement `MessageDelivery`, and end | 2 tabs, 3 streams, 2 messages on pages of 1, 1 expiry, 1 clearing |
| `LiveList` | cursors cover what was not given; the list becomes what is stored | 1 object in 2 channels, a writer on the page and one elsewhere, 2 runs of the watcher, 2 calls |
| `Announce` | what readers are given, and the labels they set, agree with the storage bucket, but for actors that were not resolved | 2 objects, one refused by the schema; 2 inboxes, 2 devices, 1 delete, 1 discover with any number of continuations, 1 failure of any kind |
| `Sessions` | revoked tokens die in time, a code is spent once | 2 workers, 2 requests at a time, 4 in all, 2 tokens, 1 code, 2 ticks |
| `Handles` | no reserved name goes to another account | 2 names, 2 browsers, 4 sessions, 2 accounts, 2 ticks, 5 requests |
| `Actors` | the key of a row controls its document, unless another provider has exchanged it | 2 accounts, 2 actors, one foreign, 3 names, 4 keys, 3 requests, 1 operation of another service or provider, 1 lost answer |
| `PageSessions` | logins of other tabs survive, tokens are of one attempt | 2 tabs of a site, 2 actors with 2 and 1 providers, 2 attempts |
| `Guard` | decisions, forwards, nested sites, revocations | 2 sources, 4 kinds of requests, 2 requests, 2 rules, 1 event elsewhere; 3 frames, 5 events; pages of 1 rule, 4 events |
| `Frames` | each answer is given once, frames know what their host knows | a frame in a frame, 3 mounts, 1 request, 1 change, 1 reload, 1 attachment |
| `Pages` | eleven subjects: answers fit what was asked, and pages settle | the bounds of `Pages.cfg` |

The bounds are the smallest that let every action happen and every pair of
actors meet: two writers on one key and a third call behind them, a page that
ends before, at and after the last row, a continuation of a stream whose record
another tab has extended, replaced or deleted, a delete between the reader's
check of the announcement and that of the tombstone, a request that is decided
while the one behind it is prepared and the rule of the first is written, two
logins of two tabs that answer each other's page. `StreamTabs` has
`UseLock = TRUE`, which is the browser; without IndexedDB the code uses no lock,
and messages may be given again there, as after a clearing of the storage:
`SeenInOrder`, a theorem, says `UseLock` and `used.clears = 0`.

Larger instances that were checked without a run of their own, because they
take longer: `Bucket` with `LargeValues {l1, l2}`, `MaxWrites 3`, `MaxReads 2` and
no exporter, or with `MaxWrites 3` and no reader; `MaxDetours 2` of `GuardLogin`
(702 590 states); `MaxIdentityEvents 5` of `LocalIdentity` (1 435 769);
`MaxGetEvents 3` of `LiveGet` (238 922); `MaxSent 4`, `MaxPosts 1` and `MaxMixed 2` of
`ObjectCopies` (314 271); `InboxQueries` with two inboxes, but one worker, 2 sends and
2 messages (307 142); `MaxCalls 4` of `MessageLabels` (133 732);
`MaxSiteEvents 6` of `NestedSites` (345 000); `MaxAuditEvents 5` of `AuditPanel`
(223 451). All pass.

Every property of a run has a mutant in `PROJECT.json`: an operator next to the
definition it changes, for instance a chain that is not waited for (`MutNoQueue`)
or a cursor taken from the filtered results (`MutLastSeqOfResults`). TLC finds the
property violated with it.

Properties that hold on these instances, but are not in a cfg because another
property says more: `BoundariesAgree` (`HandleReservations`), `NoSilentSwitch`
(`ClientSessions`), `SiteLogoutIsLocal` (`DataGuard`), `FoundHasBytes`, `PollsAreFresh`
(`MediaViews`), `PageHasRules` (`AuditPanel`).
Others are not in a cfg because a theorem states them: `SeenInOrder` and
`RecordIsBacked` (`InboxStream`), `WithdrawnIsNotFound` (`Announcements`),
`NoNeedlessPrompt` (`DataGuard`), `ApprovalsWereAnswered` (`GuardLogin`), `DeletedBucketOnlyShrinks` and `NoLeakedBytes`
(`StorageBucket`), `PagesAscend` and `SentOnce` (`InboxServer`), `ListFollowsCursor`
(`LiveDiscover`). The type invariants are in no cfg either: those of
`StorageBucket`, `ServerSessions`, `HandleReservations`, `ClientSessions`, `LocalObjects`,
`LiveDiscover`, `ActorUpdates`, `InboxStream`, `InboxServer` and `DataGuard` are proved, that of `Announcements` is part of its inductive invariant,
and the others were checked with the constants of their runs.

### Fairness

* `StorageBucket!FairSpec`: R2 answers, and the event loop runs a continuation
  that can run. Clients need not call anything.
* `InboxServer!FairSpec`: a client told `hasMore` asks for the next page, which
  `messageStreamer` does by itself.
* `InboxStream!FairSpec`: Web Locks are granted in the order of the requests
  (strong fairness of `Work`), each request is answered or times out, and
  Retry-After passes.
* `LocalObjects!FairSpec`: PouchDB answers, and the reader takes the objects of
  its streams and continues them.
* `LiveDiscover!FairViewSpec`: PouchDB answers, autopoll is on, timers fire. A
  poll that failed need not be repeated by the page: the timer starts the watcher
  again.
* `DataGuard!FairSpec`: pages take their steps, a discovery of rules that failed
  is tried again as often as requests ask for it and succeeds at some time, and
  the user answers a prompt: that is what a request waits for.
* `IframeRpc!FairSpec`: the event loops run and messages arrive (`Progress`), in no
  particular order among pages.
* `MCPages!PagesSpec`: requests are answered, timers fire, callbacks run, pages
  load, and the guard's page finishes. Users need not do anything more.

## 4. Findings

`PROJECT.json` quotes the line of the repository that each of these contradicts.
For most, a run's instance has been chosen so that the case cannot happen, or the
property of the run leaves it out; the table says how to see it: take the cfg of
the run, change these constants and check the property alone.

| Property | Cfg, with | What happens |
|---|---|---|
| `ReadsObserveEitherSide` | `Bucket`: `Keys {1}`, `Writers {w1}`, `Exporters {}`, no failures or crashes | `getValue` finds a NULL row, awaits R2, and a small put deletes the object in between: 404, on neither side of the write |
| `AcknowledgedIsDelivered` | `InboxQueries`: `Ids {}`, `Workers {v1}`, `MaxRows 2`, `Messages {m1, m2}` | numbers are given before tags; a cursor skips what is tagged late, and what loses its tags is never queried |
| `SentToItsInbox` | `InboxQueries`: `Ids {i1, i2}`, `Accounts {1, 2}`, `Workers {v1}`, `Senders {s1}`, `Readers {}`, `MaxRows 1`, `MaxSends 1`, `Messages {m1}`, no crashes or queries | the number of a deleted inbox is reused while workers remember the old row |
| `InvalidIsIncorrect` | `Announce`: `Faults {"bucket"}` | an unreachable bucket makes a reader label the message as invalid, for ever |
| `TrashWasDeleted` | `Announce` | a DID that does not resolve makes a reader label the message of a stored object as trash, for ever |
| `ContinuationsMatch` | `Announce`: `Faults {"inbox"}` | `continueDiscover` has no schema for an inbox without a cursor |
| `PromptTellsHandle` | `Handles`: `Browsers {b1}`, `MaxTabs 2`, `MaxRequests 4` | the passkey prompt of one name registers another |
| `OthersAreKept` | `Actors`: `MaxRequests 2` | an operation of another service is overwritten |
| `AllControlled` | `Actors`: `FirstKeys 2`, `MaxRequests 4`, `MaxElsewhere 0`, `MaxLost 0` | two imports with two keys: the first account's key is gone |
| `TokensMatch` | `PageSessions`: `NewTabs TRUE`, `MaxAttempts 1` | an attempt in two tabs mixes their tokens |
| `OnlyTheRejectedEnds` | `PageSessions` | a late 401 ends a login that was completed after it was sent |
| `ChangesAreShared` | `Frames` with `Spec`: `MaxMounts 2`, `MaxReloads 0`, `MaxAttaches 0` | a frame is not told of a logout before it calls `initialize()` |
| `SitesAlwaysFollow` | `Guard` with the subject `frames` | a logout that fails leaves pages with an account that the guard refuses |
| `PollsBypassTheCache` | `Pages`, subject `media` | a poll is completed with a cached answer when the arguments change |
| `NoneHasAccess` | `Pages`, subject `consent` | the page keeps saying that no account has access |
| `RetriesCanSucceed` | `Pages`, subject `creation` | a lost answer makes every Retry fail with 409 |
| `NoKeyIsLost` | `Pages`, subject `actor` | going back to an old entry counts as an export of the new key |
| `SentCopiesAreValid`, `DeletionsNameTheirCopies` | `Pages`, subject `copies` | copies of an object for its author and `bob`, or for `bob` twice, do not all validate, and a deletion names the wrong one |
| `MisledDeletionsReach` | `Pages`, subject `copies` | a public object that was sent again to the inbox of its author is deleted by this copy: no tombstone names the others |
| `LoginsReturn` | `Pages`, subject `login` | a failed or canceled login of an app that gave no state is dropped before the frame is initialized |
| `AppsFollowLogouts` | `Pages`, subject `identity` | a tab is not told of a logout in another |
| `LabelsAreTheirs` (in `AnswersAreOwn`) | `Pages`, subject `labels`, with `MayRace TRUE` | a label is inserted for a message that was given the number of a deleted one |
| `PollsLoad` | `Pages`, subject `object`, with `InProcess = FALSE` | an object that is got before its listener was added is not shown |

Seen on the way, without a property:

* The export of an inbox names `message_seq` without a table in a join where two
  have it (`server/worker/api/inboxes/db.ts:411`). Without IndexedDB two streams of
  one query spoil each other's list (`4-inboxes.ts:288`). Writes of the local
  implementation that are overtaken are lost to continuations
  (`local/src/objects.ts:247`).
* A message may be given twice after the storage was cleared, or, without a lock,
  when the server rejects a cursor that another stream has as well: a fetch under
  way when the record is deleted stores its page with the version that it began
  with (`cache.ts`, `storeQueryPage`), so a continuation begun in between, which saw
  no record, takes the restored one for the one of its cursor and starts at its
  first message. `MessageDelivery` without `again` is violated by `StreamTabs` with
  `MaxLog 1` and `MaxStarts 4`: 3 starts are too few, and the proof found it.
* A worker deletes a session for inactivity from what it cached, although another
  worker has kept it alive (`auth/session.ts:99`); it deletes by number, and numbers
  are used again.
* An import rotates the key in the PLC directory before the row is saved: a
  conflict or a crash loses the new key. `update` reads the handle of the account
  before the document and the operation to build on, so that the handle in the
  directory may be an older one; a change of handle is published before its row is
  replaced.
* A logout that the server fails leaves the login out of the page's view; the
  logout event of a slow revocation hides a login that was completed meanwhile;
  leaving the page during a logout leaves tokens unrevoked.
* Open pages of the guard do not see a rule that its audit page revokes. Revoking
  what is shown stops at the first rule that is gone (`AuditPanel.vue:199`), and a
  filter that was cleared is back when the page with the link is loaded again. A
  rule that is deleted elsewhere makes `remember` reject after it has posted the
  new one. A logout for an account that the page was not told of publishes a
  login with the other sites.
* `RegisterHandle` shows the error of a check that was superseded (166-168), and
  `ReplaceHandle` that of a domain that is no longer typed (199-200): `StatusIsForName`
  and `ErrorIsForDomain`, subject `handle`. A second tab of the actor pages that is
  out of date replaces a key that was not exported (`NewKeysAreSaved` with two
  windows). After a late list, pieces of an identity are of another account when
  the new one was logged out (`PiecesOfOneAccount`). "Log out of all" that fails
  midway does not refresh the accounts.
* A failure leaves bytes of media behind in `postMedia` and `deleteMedia`; a `poll`
  after the view is unmounted is not answered. A value that is too large is
  another error in a batch than alone. A canceled login is answered at least
  once, a completed one at most once.

## 5. Theorems

TLAPS proves these for all finite or infinite sets of keys, clients, tokens and
so on, and all bounds, from the assumptions named in the modules.

`StorageBucketProofs`: `TypeOK`, `AcknowledgedWritesHold`, `ReadsObserveAWrite`,
`NoLeakedBytes`, `DeletedBucketIsEmpty`, `DeletedBucketOnlyShrinks` and
`ExportIsComplete`. Assumptions: keys
are positive numbers, values are distinct from the markers, pages are not empty.
None of the properties is inductive. `IInv` adds what a running call has to do
with the store:

* a call that is past its turn is the head of `writes`, and calls in the chain
  are there once: two calls never work on the same key at a time;
* a put that reserved a row (`inserted`) finds it NULL as long as it works; a put
  whose value is in R2 already finds it there; a sweep's page has no objects
  left once R2 has answered;
* a NULL row of a live bucket has bytes that are legal, unless the running call
  has still to upload them, or a refused put or delete has left them to be
  found again, and then `Missing` or the new value is legal as well;
* a waiting read has been told what was legal when it began and all since.

`ExportIsComplete` needs `ExportsVouch` besides: of the keys up to the cursor of an
export, those that no write has touched since their page are in its list exactly
if they have a row, and a write in the chain touches its key when it is called,
not when it runs.

Each action has a lemma, with one step for each conjunct of `IInv` it can
disturb. TLC has checked `IInv` on a small instance.

`ServerSessionsProofs`: `TypeOK` (`SessionTypes`), `RevokedDies` (`RevokedTokensDie`)
and `CodeIsSpentOnce` (`CodesAreSpentOnce`), from the order of the three times. The
invariant for the first is `Lives`: the row of a token is at its number, and gone
once the session has ended (`RowsAreOwn`), no activity is dated later than now
(`NothingIsAhead`), nobody has learned of activity after the end of a session
(`EndsAreLast`), and what was accepted since was accepted within one activity
check (`AcceptedIsRecent`). For the second it is `Spending`: a code is in the
table, or one call has taken it, or it may be spent (`CodesAreApart`); one that
was not given out is unspent (`NoTableMeansFresh`), and calls know only those that
were (`CallsHaveSharedCodes`); a code has one token, or refusals only
(`SpentOnce`).

The same module proves of `HandleReservations`, where temporary sessions reserve names,
`TypeOK` (`HandleTypes`) and the action property `NotScooped` (`NobodyIsScooped`), for any
names, browsers, tabs, sessions and accounts, and any positive life time of a reservation
(`LifetimePositive`, `BoundsOfHandles` in `MCHandleReservations`). `HandleInv`:

* a promise that still counts is the row of the name as it stands (`PromisesStand`):
  the other statements that take or free a row cannot match it before its time;
* a request has noted a time that is over (`TimesAreOver`), so that a statement which
  runs late compares with an older time than the clock, and takes less, not more;
* sessions in the cookies of a login were issued, and are not temporary
  (`SignedInAreIssued`), so that a change of handle is for an account.

A promise follows the reservation of its session. A session whose request was delayed
may reserve its name again with an older time than before, after the name came free, and
then the name is promised for that shorter time. A promise that kept the
later time would not hold, though on the instance of the run TLC does not reach it.

And of `ClientSessions`, the other end of those sessions, for any tabs, sites, actors,
providers and number of attempts (assumptions in `MCClientSessions`: every tab is of a
site, there are providers, and the markers are no actors): `TypeOK` (`BrowserTypes`),
`LoginsSurvive` (`LoginsAreKept`) and `TokensMatch` (`TokensAreOfOneAttempt`).

* Lists of logins have one login of an actor, and pages and callbacks are of attempts
  that have begun (`BrowserFits`). A step then keeps every login that it does not
  remove by name, and what a late logout or 401 of an older login removes is
  exempt (`Kept`, `late`; section 4, `OnlyTheRejectedEnds`). The theorem has a hypothesis of its own,
  `UndefinedIsNoList`: what a missing key reads as is no list of logins. TLC cannot
  evaluate it, as it compares a marker with sets.
* Tokens of one attempt: `AttemptInv`. A page does one thing at a time for its attempt,
  and asks for the token that comes next (`AttemptsFit`); tokens that were saved are of
  the attempt they are saved with (`SavedAreOfAttempts`); an attempt is in one place,
  a page (`InOnePage`), or the provider of a token or of a new account
  (`AtOneProvider`); and each login that is listed anywhere has tokens of
  one attempt (`ListsAreWhole`). The premise is `~NewTabs`, that a provider does not
  open its answer in a second tab: the property is false otherwise (section 4).

`LocalObjectsProofs`: `TypeOK` (`ObjectTypes`), `TombstonesStay` and `CursorsCover`
(`CursorsAlwaysCover`). The invariant is `Typed`, `PostsAreNew`, and `Covering`: every
number that a stream has read is in the past (`Sane`); what a stream has in its
hands and is out of date was written since it began (`Held`); what its next
cursor will stand for is known, or will still be asked for (`Promised`); and what
its present cursor stands for is known (`Kept`).

Then the list of a page in `LiveDiscover`, which a watcher keeps up to date with the
streams of `LocalObjects`: `ViewTypeOK` (`ListTypes`), `CursorsCover` once more
(`CursorsCoverLists`: pages abandon streams, polls fail) and `ListFollowsCursor`
(`ListsFollowCursors`). What the module says of objects and streams is used again
for each of the composed actions. `ViewInv` adds that runs to come have no stream,
and one with a stream listens for events (`RunsAreNew`), and what the list has to do with
the cursor (`ListHolds`): before the cursor of the page it is what is stored
(`ListKept`), and what the stream is about to tell is right, or is still
pending, before the number that it started with (`ListPromised`).

`ActorUpdatesProofs`: `ActorTypes` and `ControlKept` (`KeysStayInControl`). `IInv` says
of each request in flight (`Fits`) that a key which it generated is known to no
row, no other request and no user, that it has read at most one key of a
document that has one, and that between its publication and its row the document
has the new key. `ControlKept` is of documents to which nobody else has given a second
key, and exempts keys that another provider has exchanged: such a key was exported,
and no request has generated it (`ImportElsewherePreserves`). The directory's rule, that an operation builds on the latest
one, is what makes two requests exclude each other.

`InboxStreamProofs`: `TypeOK` (`StreamTypes`), `RecordIsBacked` (`ListedIsBacked`),
the refinement `DeliveryHolds` (`StreamsDeliver`) and `SeenInOrder`
(`EachMessageOnce`), for any number of tabs, any page size and with a lock or
without. Assumptions: `FreeIsNoTab`, `BoundsAreNumbers`, pages are not empty.
`IInv` is `Basics`, and `Order` as long as a lock orders the streams and nobody
clears the storage:

* `Basics`: the ids of a record, and the page after them, are stretches of the log
  (`PagesRun`), versions come from `fresh` (`VersionsAreOld`), no stream or cursor
  counts more than its reader was given (`CountsAreCovered`), and what is listed can
  be read (`AllBacked`). From these, nothing is left out.
* `Order`: who works on the record has the lock and the record as it is
  (`OneWorks`), a version that was replaced is not used again (`DeadStayDead`), what
  a stream with the version of the record has counted is listed in it
  (`CountsAreListed`) and is what its reader was given (`CountsAreExact`). From these,
  nothing comes twice.

The refinement has a lemma for each action: `Replay` is a `Deliver`, `Start` a
`Begin`, `Arrive` is `Arrive`, a clearing is `Reset`, and all others stutter.
`EachMessageOnce` then follows from the abstract specification alone.

The same module proves of `InboxServer`, whose pages those streams read, `TypeOK`
(`BoxesFit`), `EndMeansEverything` (`EndsMeanEverything`), `PagesAscend` (`PagesGoOn`) and
`SentOnce` (`MessagesAreOne`), for any inboxes, workers, senders and readers, any
list of page limits and any number of crashes. `MCInboxServer` declares its variables anew
and assumes that account numbers are positive, and that there are page limits, all
positive (`LimitsArePositive`). `BoxInv`:

* `RowsAreApart`, `InboxesAreApart`: rows differ in number and id, and in inbox or
  message; an inbox has a number of its own while it is there;
* `NumbersLast`: each inbox keeps one number in the caches of workers, in sends that
  have inserted a row and in what was acknowledged, also after its deletion: the
  row of an inbox is made once, so what a worker has cached is never another's;
* `ReaderFits`: pages come in the order of the numbers, up to the cursor; unless the reader
  was given a message of another inbox, the cursor is
  no larger than some number in the inbox, so that nothing is inserted behind it,
  and whatever of the inbox is behind it was given, is not asked for, or got its
  tags after its page was read (`Told`).

The last needs what numbers SQLite gives (`NextNumber`: larger than all that are there,
in any inbox) and what the least rows of a page are; these are lemmas about `Max` and
`Oldest`, by well-founded induction on the numbers.

`AnnouncementsProofs`: `TrashIsDeleted`, `DeletionsReach`, `PostsReach` and
`WithdrawnIsNotFound`, for any objects, inboxes, devices, accounts, schemas and
failures. Assumptions: the inboxes that devices read, and those to which objects are
announced, are inboxes, and `MaxLog` is a number (`BoundIsNatural`). The invariant:

* `LogsHold`: a tombstone is in an inbox, or about to be sent, only when the bytes
  of its object are gone, and names an earlier message about that object;
* `LabelsHold`: each label, on a server, in a cache or on its way, is deserved:
  trash is of deleted objects or of those that once were unresolved, valid is of announcements before the first tombstone
  of their inbox, invalid is of objects whose check failed;
* `ReadersHold`: an object that a device shows has an inbox that does not know of
  its withdrawal, or has not told yet, up to where it was read; an object that is
  stored, accepted and announced in what was read is shown, or is on its way.

What a check is told is true, or noted in `blamed` and `unresolved`, which only grow
(`Told`, `Doubts`). Logs only grow and bytes are never stored anew for an object that
is announced: a lemma each for labels, streams and views shows that what others do keeps them
(`Grows`), so that each action has to be looked at for its own reader only.

`GuardProofs` is about `MCDataGuard`, since two of its parts take steps only as
subjects of that module. Of `DataGuard`: `TypeOK` (`GuardTypes`), `AnswersStand`
(`DecisionsStand`, and `AllDecisionsStand` for the composition), `NoNeedlessPrompt`
(`PromptsAreNeeded`) and the action property `ForwardsAreAllowed` (`ForwardsPass`).
The invariant says that only the first request of the queue is being decided
(`OneIsDecided`), that the newest stored rule of a grant is what the user last had
remembered, older ones are those whose deletion failed, and what this page knows of
a source agrees with it unless another page has decided, or an answer was lost (`Memory`), and that a
request's state fits its rules (`Sound`, `Timely`): what it deletes, a newer rule
replaces. Of `AuditPanel`: `RevokesAreConfirmed`; while a revocation runs, its
session is that of the selected account, and what is left of it was confirmed
(`PanelInv`). Of `NestedSites`: `UnpromptedIsUpward`, from a fact about sequences: a
page whose path, extended by what it claims to be, is above another is above it
itself. Assumptions: the frames are a tree with its root (`SourcesAreATree`), paths are
sequences of segments, `None` is no decision and no account, rules have the fields that
`AuditPanel` sorts and filters by (`AuditTypes`).

`PagesProofs` is about nine parts of `MCPages`, for any accounts, names, domains, tabs,
keys, limits, messages, objects and bounds; a lemma says that a step is one of the subject and leaves the others as
they are (`StepsAreOfOne`). Each part has an invariant of its own:

* `HandleForms`: `OffersAreChecked` (`HandlesAreChecked`). What is shown as available
  was checked for the name as it is (`HandleInv`, `FormIsChecked`).
* `ConsentPage`: `ApprovalsAreForOwners` (`OwnersApprove`). Services are shown of the
  selected account only (`ConsentInv`), from every way in which a list selects another.
* `CreateIdentity`: `PiecesAreOfTheNewAccount` (`PiecesFollowTheAccount`). Lists name
  accounts, and until another tab disturbs, the new account stays selected by every
  list that is still on its way (`CreateInv`, `StaysSelected`).
* `LocalIdentity`: `IdentitiesAreAnswered` (`LoginsAreAnsweredOnce`). The ticket of a
  login is in one place: waiting, in the page that loads, or taken (`EachHasOnePlace`).
* `GuardLogin`: `AnswersFit` (`LoginsAreAnswered`), and `ApprovalsWereAnswered`
  (`ApprovalsAreAnswers`). A tab knows nonces of its own requests only, a marker of the
  way back is made by a failure (`TabsAreRight`), a receipt is for the site
  of its request (`ReceiptsAreOwn`), and answers, the receipt and the page together hold
  a success no more often than it was chosen (`SuccessesAreSpent`).
* `ActorPages`: `NewKeysAreSaved` (`KeysAreSaved`), under the premise that one tab is
  open: it is false with two (section 4). What a page knows of the row is the row, and
  whatever the history says was exported may go (`PageIsRight`, `MayGo`).
* `StorageBatch` and `MessageLabels`: `AnswersAreOwn` (`AnswersFitTheirAsks`). Of gets:
  calls are numbered in their order (`CallsAreNumbered`), a queue has calls of its own
  limit, never more than a server takes at once, and is closed when it is full
  (`QueuesFit`, `BatchesFit`), so that each settled call has the answer for its key
  (`AnswersRight`). Of labels: rows have an id and a number each (`RowsAreApart`), and a call
  has the number of its message, and stores what was said of it (`LabelCallIsTrue`). The
  premise is `~MayRace`, that no inbox is deleted between the two statements of a
  label: the property is false otherwise (section 4).
* `LiveGet`: the half of `ViewsAreOwn` that is about it (`ObjectsFit`). Calls of the last run
  are for its arguments, and what they have found may be read (`CallIsOwn`); what is
  shown is stored, or its deletion will be told to the listener (`ShownIsStored`);
  and a view that shows nothing yet waits for its poll (`LoadingIsPolled`).

Assumptions, in `MCPages`: cookies and new accounts are accounts, markers such as
`None` and `Failed` are no handle, account or number, and actors that the server makes
are numbered from 1 (`OwnAreNumbered`): it takes the least number that is free. Keys
that are asked for have a size or are missing, and limits are numbers (`AsksAreSizes`); labels are
positive numbers, and the markers of none are not (`LabelsAreNumbers`); `Null` and `Undefined`
are no object (`UrlsAreApart`).

TLC checked each invariant before it was proved. Only model-checked:

* liveness, under fairness: `StreamsEnd`, `RequestsEnd` and the like are out of the
  provers' reach;
* `SitesFollowApprovals` of `NestedSites`: an event passes all frames in one step, by
  a function defined by recursion over the path of a frame, and what such a function
  computes for every path needs an induction that the provers cannot be given;
* all properties of `IframeRpc`, and of `MediaViews` and `ObjectCopies`
  in `MCPages`. These two compute with `SelectSeq` and folds over sequences, which need
  such an induction too.

## 6. What could come next

`EachAnswerIsOnce` (`IframeRpc`) can be proved next, and needs an invariant over the
states of requests.
The export of an inbox pages like a query, once its statement is repaired. Calls and
streams of `iframe-rpc`, with a connection that times out, would extend `IframeRpc`.

## 7. Not modelled

Cryptography, encodings of bytes, HTTP parsing, limits of size and rate (429 is
in `InboxStream` as `wait`), layout and wording of pages, examples. DIDs and
handles on the client are lookups with a cache and no state besides. The routes of
inboxes and buckets parse what the modules above take as given. The list of
sessions, of passkeys, the editor of DID documents and the modal show what they
read. `synchronizeAll` is a listener without a filter. The logins of Node.js are a file that one process uses. Of
`iframe-rpc` the map of streams, the marshalling of calls and errors, the time out
of a connection, and a root whose sessions are not remembered from its
construction are left out.
