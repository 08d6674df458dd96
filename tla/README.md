# Verification of cwebserver

TLA+ models of the parts of `cwebserver` that carry its own logic, the TLC runs that
check them on small instances, and TLAPS proofs of the central results for every value
of the constants. `cwebserver` is a small HTTPS server in C: an accept loop hands sockets
to worker threads through a lock-free queue, and each worker does one TLS handshake,
reads one request and writes one page.

Paths are relative to `src/`.

Contents: 1 inventory, 2 plan, 3 modules and code, 4 runs and bounds, 5 fairness,
6 what the code does otherwise than it says, 7 proofs, 8 what is not modelled.

## 1. Inventory

| Part | Source | State | Operations | Interacts with |
|---|---|---|---|---|
| Socket queue | `kit_webServer.h:19-51` | ring of descriptors, `head`, `tail` | `spmcI32_init`, `_enqueue`, `_dequeue` | written by the accept loop, read by all workers |
| Worker | `kit_webServer.h:67-84` | back-off counter | poll, sleep, run the handler | queue, handler |
| Server set-up, shutdown | `kit_webServer.h:113-218, 323-329` | listening socket, TLS context, `ws_Context` | `ws_init`, `ws_shutdown` | starts the workers |
| Accept loop | `kit_webServer.h:220-231`, `webserver.c:114-188` | none | `ws_run`, `main` | queue, or the handler itself when there are no workers |
| Connection | `kit_webServer.h:233-321`, `webserver.c:18-112` | client socket, `SSL*`, `activeConnections` | `ws_nextConnection`, `ws_readData`, `ws_writeData`, `ws_closeClientConnection`, `g_handleSocket` | TLS layer, parser, HTML builder |
| TLS compatibility layer | `tlse.c:11907-12281` | pending output, state of the session | `SSL_new`, `SSL_accept`, `SSL_read`, `SSL_write`, `SSL_shutdown`, `SSL_free` | the socket; the TLS engine of tlse |
| Threads | `base.c:2666-2751` | `os_Thread`: name, start semaphore, handle | `os_threadCreate`, `os_threadEntry`, `os_threadShutdown` | semaphore, pthreads |
| Semaphores, mutexes | `base.c:2623-2650, 2805-2960` | count, mutex, condition | init, post, wait with timeout, destroy | threads |
| Memory arena, managed allocator | `base.c:1695-1965` | position, commit position, alignment, record depth | push, pop, scratch, record, managed allocation | string and HTML builders |
| HTML builder | `kit_webServer.h:340-584` | depth, start of the record | start and end of builder and tags | arena |
| HTTP header parser | `kit_webServer.h:586-732` | position in the header | `http_headerInit`, `_headerNext`, `_headerReset` | handler |
| Argument parser | `base.c:1573-1693` | position, mask of seen options | `arg_makeCtx`, `arg_nextOpt` | `main` |
| URL parser | `base.c:3740-3917` | none | `url_fromStr` and one function per part | |
| Strings | `base.c:8-1570` | arena | find, compare, parse, format, lists | everything |
| Time | `base.c:1968-2190` | none | `tm_toDenseTime`, `tm_fromDenseTime`, clocks | files |
| Files, processes, OS information | `base.c:2190-2610` and the Windows part | none | system calls | |
| Single-threaded server | `kit_tlseServer.h`, `tlseserver.c` | as connection | `sl_*` | predecessor, not built |
| Other programs | `_webserver.c`, `webclient.c` | | | earlier version; test client |
| Vendored | `tlse.c` (engine), `libtomcrypt.c`, `x509.c`, `sqlite3.c` | | | |

What is hard in each, and what makes it correct:

* **Socket queue.** One producer and many consumers without a lock, indices that come
  round, plain slots. Correct: each socket reaches exactly one worker, in order of
  accept; "full" and "empty" are said only when true; a slot is never read and written
  at once; whatever is queued is eventually taken.
* **Worker, accept loop, connection.** Many exits between `accept` and `close`, each of
  which must close the socket once and free the session; a full queue; silent and slow
  clients; a shared counter. Correct: every socket has one holder or is closed; replies
  fit what the client sent; every connection ends.
* **Set-up and threads.** Seven calls that can fail after different acquisitions;
  publication of `ws_Context` to threads; one thread slot for all workers, a name on the
  stack and a wait of one millisecond. Correct: errors leave nothing behind, workers see
  a complete context, each thread gets its own name and each wait its own post.
* **TLS layer.** Partial sends, sends that would block, receive timeouts in the middle
  of a handshake, errors that loops do not look at, a close alert nobody sends. Correct:
  bytes go out once and in order; a call that failed says so; every call returns.
* **Semaphore.** A wait that times out as a post comes; several waiters. Correct:
  permits are conserved, and a permit never sits beside a waiter that sleeps for ever.
* **Arena, HTML builder.** Alignment past the capacity, subtraction that wraps, records
  that nest. Correct: positions stay between header and capacity, live allocations do
  not overlap, the recorded text is exactly what was written.
* **Parsers.** Ends of input at every position, off-by-ones at line ends. Correct: no
  access outside the text, and the parts found are those a reference definition finds.

`PROJECT.json` lists every component with its status, and the hazards at their lines.

## 2. Plan

The order in which the modules were written, which is the order of importance. All of it
is done; what is left is named in section 8.

1. `SpmcQueue`, the ring with one action per shared access; `FifoQueue`, the queue it
   implements.
2. `WebServer`, accept loop, workers and connections; it uses `FifoQueue` for the queue,
   which composes it with the ring through the refinement.
3. `ServerStart`, `ws_init` and the threads.
4. `TlsSession`, one connection at the level of the TLS calls, the buffers and the socket.
5. `Semaphore`, which implements `CountingSemaphore`.
6. `ArenaOps`, the functions on an arena; `Arena`, scopes and blocks on it; `HtmlBuilder`,
   the page builder on it.
7. `HttpHeader`, `ArgParser`, `UrlParser`, `FilePath`, `DenseTime`: the sequential parts,
   put side by side in `Library`.
8. Proofs of the queue, its refinement, the start, the server, the semaphore and its
   refinement, the arena, the TLS session, the packed dates, the URL parser, the argument
   parser, the fixing of paths, the header parser and the page builder.

## 3. Modules and code

`PROJECT.json` maps every definition to its lines.

**`SpmcQueue`** models `SpmcQueueI32`. `items`, `head`, `tail` are the fields; `ppc` and
`cpc` say where the producer and each consumer are in `spmcI32_enqueue` and
`spmcI32_dequeue`; `chead` is the local `currentHead`. The items are the numbers
0, 1, 2, ... in order of successful enqueue, so "the same socket" is never ambiguous.
`EnqueueCheck` joins the loads of `tail` and `head`, because only the producer stores
`tail`. `DequeueCas` and `DequeueRead` are two actions: between them the slot has been
given up and is not yet read. The remaining variables are history: `enqueued` and `taken`
count publications and successful compare-and-swaps, `snap` is `taken` at the time a
consumer loaded `head`, `got` is what each consumer was handed. Memory is sequentially
consistent, as the atomic operations of clang on x86 give.

`overtaken` records that, in the middle of some consumer's dequeue, the producer came
round to it: it published `Capacity` items from the one that was oldest when the consumer
loaded `head`, or it is cleared to write the slot that the consumer has claimed and not yet
read. Nothing in the code prevents it with two or more consumers. With a full ring it is
near, whatever the capacity: a consumer is descheduled between its compare-and-swap and its
read, another one takes one item, and the next enqueue writes the slot. The safety
properties are stated until that happens, and section 6 has what happens then.
`OvertakenOnlyIfPassed` is about how it comes to that: only behind another consumer's take,
never by the producer alone, because the test for a full ring keeps one slot free.

**`FifoQueue`** is the abstract queue: `Put`, `Take`, `HandOver`. A dequeue takes effect
at once (the compare-and-swap); the consumer is handed the item later (the read).

**`WebServer`** has one action per system or TLS call of a server thread, with the code
up to the next call. `pool` is the set of workers that `ws_init` started; without workers
(`maxWorkers` 0) `ws_run` calls the handler itself and `Main` is the only one of
`Servers`. `pc[s]` is the place and the socket of thread `s`. The socket of a client has
the client's name. A client is known by the last thing it sent: one or two bytes, text
that is not TLS, the start of a handshake, its end, a request. Every call that can fail
may fail. `SSL_accept` and `SSL_read` return what `tlse.c:12149-12171` and
`tlse.c:12231-12259` can return for what the client sent; the receive timeout of two
seconds is a choice that is open while the data is missing. The content of the page and
the route are abstracted to the replies `400`, `403`, `200` and `content`, in the order
written. `SO_REUSEADDR` is set from one `char` with a length of an `int`; the call may fail
or not.

**`ServerStart`** has the calls of `ws_init` in order, each with its failure, and for
each worker the three parts of `os_threadCreate` (fill the slot, create, wait) and the
four of `os_threadEntry` (test, use and clear the name; post). `name` and `permits` are
the shared slot. The wait may time out at any time. `late` records that one did. After that
two threads can be between the test and the end of the use of one name; if one clears it
before the other uses it, `pthread_setname_np` gets NULL and the process ends (`Crashed`,
after which nothing moves). The default build does not optimise and reads the pointer again
for the use, as the model does.

**`TlsSession`** takes one connection apart where `WebServer` has one step: the loops of
`SSL_accept` and `SSL_read` over receives, the input that is cut into records, the
decrypted data, the output buffer and `_tls_ssl_private_send_pending`. The peer sends
records in pieces, at most `MaxRecords` of them; of the TLS engine only its effect on the
buffers remains (`Engine`): a record moves the handshake on, adds data, is an alert, or
fails. `sending` is the loop of a send in progress, `at` the call of `g_handleSocket`.
`blocking` is chosen once: a blocking socket is that of `kit_webServer.h`, a non-blocking
one that of `kit_tlseServer.h`, where a send may take nothing and leave the rest pending.

**`Semaphore`** has each critical section of `os_semaphorePost` and `os_semaphoreWait` cut
at every step in which the mutex changes hands, and one step per signal of the loop of a
post. Threads may wake spuriously, and a timed wait may expire at any time, also between
a signal and the return of the mutex. **`CountingSemaphore`** is what the callers rely on.

**`ArenaOps`** are the functions of an `Arena` as operators from one state of it to the
next, positions counted from the start of the arena. **`Arena`** adds what only the callers
know: the blocks in use and the open scopes (`mem_scoped`, `str_record`, the formatting
functions), in any nesting. **`HtmlBuilder`** runs the builder on the same operators, with
the memory itself, so that what a page contains is read off the memory and not off the
calls. A block of C that is left early runs no end of its macro (`LeaveBlock`).

**`HttpHeader`**, **`ArgParser`**, **`UrlParser`**, **`FilePath`**, **`DenseTime`** are the
sequential parts, each with the input as a variable that `Init` chooses, a step per call
(per function of the parser in `UrlParser`), and the properties stated against the input
itself: what a reader of the same text would say the words, fields, options or parts are.
A request is cut off anywhere, because the server reads once. Sizes in `UrlParser` are
unsigned and wrap around. A built string in `FilePath` is a block of a computed size and
what is then written to it, which need not agree; where `os_fixFilepath` asserts a size,
`Finish` either returns or ends in `aborted`.

What a property leaves open is said in its comment. `OptionsReported` defines by itself which
errors an option has (named before, or without its value) and lets any text of a numeric
option pass or fail; behind the named options it admits reports of required options that are
absent, no others and no more than there are options. It does not ask for them, because the
code never makes one (section 6): it would hold of the code with that corrected as well.
`PathFixed` says what the two replacements do and what is returned, of every path that is
returned; which paths are not returned is in section 6.

Where the code loops over its input (`Scan`, `Turns`, `ReplaceTurns`) or makes a number of
calls in one operation (`Recorded`, `Joined`), a recursive function gives what it has come to
after `n` turns. In `HtmlBuilder` the property reads a page in the same way: `Nesting` gives
the tags that are open after `n` letters.

**`Library`** puts these five and `HtmlBuilder` side by side: `part` says which one a
behaviour uses; the variables of the others are unused. **`MCLibrary`** gives it its
vocabularies; the other **`MC...`** modules hold only symmetry sets and constants.
**`...Proofs`** and **`DataInduction`** hold the proofs.

## 4. Runs

| Run | Instance | Shows |
|---|---|---|
| `queue_one` | 1 consumer, ring of 3, 6 items | a single consumer is never overtaken, the ring implements `FifoQueue` |
| `queue_many` | 2 consumers, ring of 3, 5 items | until a consumer is overtaken: empty is right, nothing is lost, doubled or reordered, every step is one of `FifoQueue`, every item reaches one of the consumers that compete; none is overtaken that was not passed |
| `queue_twice` | 2 consumers, ring of 2, 4 items | expected violation: one item, two consumers |
| `server_safety` | 2 clients, 2 workers, queue for 1 | sockets, sessions, replies and the connection count on every path; `ServerInv` holds |
| `server_live` | 2 clients, no worker or 1, queue for 1 | every connection ends; `ServerInv`, by which the count is exact with one thread |
| `server_silent` | 1 client, 1 worker | expected violation: a silent client holds a worker |
| `server_start` | 3 workers | error paths, publication, names, posts; `ws_init` returns and threads run, or one of them has crashed over the name |
| `tls_session` | 4 records of 2 pieces, five kinds of record, both kinds of socket | `TlsInv`; output and input whole and in order, at most alerts lost, no 403 beside a page, the connection ends |
| `semaphore` | 2 posters (2 and 1 permits), 3 waiters, one with a timeout | no lost wake-up, permits conserved, every call returns; implements `CountingSemaphore` |
| `arena` | 22 units, pages of 8, alignment 4, blocks of 0, 1 or 5, 3 blocks, 3 scopes | blocks apart and inside, memory committed, records without holes |
| `library` | see below | pages, words, fields, options, URL parts, paths and dates are whole and the right ones |
| `html_page_size` | 12 letters | expected violation: a page one byte too long |

`library` runs through: every page of up to 12 letters with two tags and one attribute
each; requests with up to four words in the first line, two fields, both ends of line,
cut off at every character; every command line of up to four arguments out of twelve,
over an option of each type; URLs of every combination of a few values of each part, and
all texts of up to five of six characters; every path of up to seven of four characters;
every date over fields of two or three values.

*Why the bounds are enough.* With a ring of 3 and 5 or 6 items the indices come round
twice or nearly so, the ring fills (2 items) and empties, and a consumer can be overtaken
by a whole round. Two consumers are the fewest that compete. A queue for one socket
with two clients and two workers gives a full queue, a refused socket, an idle worker and
both workers on sockets at once. Three threads through one slot allow two late ones.
`MaxItems` bounds the number of enqueues; `BackoffCap` is 10 in the code and 1 or 2 in the
runs, where only that it is a bound matters. Each client connects once. Four records are
a handshake, a request and one more; two pieces are the fewest that cut a record. Three
permits in two posts for three waiters leave none over, so that a lost one keeps somebody
asleep. An arena of 22 units has no whole number of pages or of alignments, three scopes
are a record in a record in a scratch. The vocabularies have one letter more than what
the code compares with, so that a match can be missed and can overlap.

The type invariants, `IInv`, `SInv`, `SemInv` and `ArenaInv` are proved (section 7), and are
left out of the runs, where they cost time and say nothing more; `ServerInv` and `TlsInv`
are in both. The type invariants of the modules in `Library` (in `PageIsWhole`,
`RequestIsWhole`, `OptionsReported`) are in the runs.

*Deadlock* is checked in the queue runs, `server_safety`, `server_silent` and `arena`. It
is not where the system ends: `server_start` (start-up is over), `server_live` (after the
last client `accept` blocks for ever), `tls_session`, `semaphore` (each thread makes one
call), `library` and `html_page_size` (the input is used up).

## 5. Fairness

* `SpmcQueue!FairSpec`: producer and consumers are threads that keep running, so each has
  weak fairness. A consumer polls for ever (`ws__worker`).
* `WebServer!FairSpec`: threads as before. `Accept` is weakly fair for each connection,
  because the kernel hands out the backlog in order and `main` loops over `ws_run`.
  Nothing is assumed of clients.
* `WebServer!TalkingSpec` adds that no client stays connected and silent for ever. The
  server relies on it: its first receive has no timeout (see `server_silent`). Clients may
  still fall silent at any later point; then the receive timeout acts.
* `ServerStart!FairSpec`: `ws_init` and each thread run. The wait may always time out, so
  `InitReturns` does not depend on the threads.
* `TlsSession!FairSpec`: the thread of the server runs, and a call that waits returns:
  receives have a timeout, and a send ends because the peer takes what is sent or goes
  away. The latter is an assumption, for the code sets no timeout for sends: a peer that
  stops reading holds its worker. The peer itself need not do anything.
* `Semaphore!FairSpec`: strong fairness for each thread. A thread that waits for the mutex
  is enabled only now and then; that it gets it in turn is what the mutex of the system
  gives. Nothing is assumed of expiry or of spurious wake-ups.

## 6. What the code does otherwise than it says

Shown by a run:

* `queue_twice`: a queue for "single producer, multiple consumers" hands an item out twice
  when a consumer is overtaken: the slot is read after the compare-and-swap has given
  it up (`kit_webServer.h:48-49`), and `head` can return to an old value.
* `server_silent`: the receive timeout ("rec timeout", `kit_webServer.h:270`) is set after
  the first receive, which therefore waits without end.
* `html_page_size`: the `Content-length` of a page counts one byte that was not written
  (`kit_webServer.h:371` counts from `startIdx - 1`).

Visible in the models, each as the definition named:

* Queue (`DequeueEmpty`): a worker sleeps under "No socket connection to handle"
  (`kit_webServer.h:73`) while a socket is queued, if an old `head` equals the new `tail`.
* Server (`Enqueue`, `NewSession`, `Handshake`, `Read`, `CountLoad`): a full queue leaks the
  socket (`kit_webServer.h:227`), as does a failing `SSL_new` (288-291); `SSL_accept` never
  returns 0, so the test for a failed handshake (294) never fires; a client that completed
  its handshake and is slow gets, in clear, "403 Forbidden: This server only accepts secure
  connections" (`webserver.c:32`); `activeConnections` loses increments and is never
  decremented.
* Start (`Wait`, `UseName`): a worker that starts more than a millisecond late reads its name
  from a buffer that is gone (`base.c:2735`), its post may end the wait for the next thread, and
  it ends the server if another thread clears the name between its test and its use of it
  (`base.c:2677-2682`).
* TLS (`AfterAcceptStep`, `Fail`, `Shutdown`): `SSL_accept` returns 1 after a critical error
  too, since -1 is not 0 (`tlse.c:12166`; `tlse.h:257` has "-1 for a critical error"); the
  close alert, and the alert of a handshake that failed, are written and never sent.
* HTML (`Attribute`): the attribute `lang` writes `props.dir`, and each attribute writes
  `props.id` for its name. A tag left early leaves the record open.
* Request (`HeaderInit`, `Scan`, `HeaderNext`): with LF line ends the first field loses its
  first character (`kit_webServer.h:643`); the rest of a line of four words is passed over;
  fields go on behind the blank line.
* Arguments (`Mask`, `MissingArg`, `Accepts`): "search for missing arguments"
  (`base.c:1673`) computes the mask of a required option as 0 (`base.c:1677`), so that none is
  ever reported, although `webserver.c:125-126` marks two as required; whether a number was
  accepted is judged by its size less one, so that `1x` passes and `12` does not.
* URL (`HostLen`, `ParseQuery`, `ParseUserPass`, `DefaultPort`): without a port the host runs
  into the path (`base.c:3811`); user, password, query and fragment are never found; the
  default port is that of the first scheme which differs (`base.c:3746`).
* Paths (`ReplaceAll`, `FixParent`, `Finish`): for `/././` one byte is allocated and three
  are written; a `..` is taken out at a position relative to the search; the assertion that
  the path became no shorter (`base.h:2833`), which is active as no build defines `NDEBUG`,
  ends the program for every path from which a `/./` was taken. Nothing in the repository
  calls `os_fixFilepath`.
* Dates (`FromSystem`, `Now`): days of the system count from 1 (documented: 0-30,
  `base.h:720`), milliseconds are rounded up to 1000 (`base.c:1985`), the minute is not set.

## 7. Proofs

`tlapm` checks eight modules, from these assumptions, each declared where the constant is:
`Capacity` is a positive natural and `MaxItems` a natural (`SpmcQueue`; `main` passes 1280);
`Capacity` is a natural (`ServerStart`); `Clients` and `Workers` are finite and `NoSocket`
and `Main` are not among them (`WebServer`); `Waiters` is finite (`Semaphore`); the alignment
divides the page and the header fits (`Arena`); a record has one piece or more, `MaxRecords`
is a natural and `Kinds` are among the six of the engine (`TlsSession`); every field of a
date has a value (`DenseTime`); the parts of URLs are texts, and a URL is shorter than the
largest number of 64 bits, `Width`; the options are a table of records, arguments are texts,
and `MaxArgs` and `MaxPath` are naturals; the arena of a page has room for its header, its
page size is positive and `MaxAttrs` is a natural; lines, keys and values of requests hold no end of
line, keys no space and no colon, lines end in CR LF or LF, and the path of the about page is
not empty (`Library`). `Consumers` is any set.

**`SpmcQueueProofs`.** The ring is proved for every capacity, every number of items, any
set of consumers and every schedule. `TypeOK` with `Counts` (`head = taken % Capacity`,
`tail = enqueued % Capacity`, and each local head is the count at its load, modulo
`Capacity`) is inductive by itself. The safety properties are not inductive: that a
compare-and-swap which finds its old index takes the oldest item depends on how far the
producer has gone since. `IInv` therefore adds, until a consumer is overtaken:

* `InStep`: `taken <= enqueued`, one slot stays free, no consumer is a round behind, and
  one that passed the empty test has an item ahead;
* `Memory`: queued, about to be published and claimed items are in their slots;
* `Delivery`: handed-out and claimed items are apart, and all of `0 .. taken - 1` are
  one or the other.

The heart is `CasTakesOldest`: equal remainders of two counts less than `Capacity` apart
are equal counts (`Apart`), so a successful compare-and-swap has `snap[c] = taken`. Theorems:
`TypeCorrect`, `Inductive`, and from it `RingSound`, `OnceSound`, `OrderSound`, `LossSound`,
`EmptySound`, `PassedSound`. The last rests on the free slot alone: what is published and not
taken, with what is about to be written, stays below `Capacity` also in the step in which a
consumer is overtaken (`SlotKeptFree`). `OneConsumer`: with a single consumer nobody is ever overtaken,
because `head` stands still under it and the free slot stops the producer; the
properties then hold without condition.

The refinement, in the same module: the mapping of `ImplementsFifo` is, by `IInv`, the
run of numbers from `taken` to `enqueued - 1` and the claimed counts (`Mapping`).
Publishing is `Put`, the compare-and-swap `Take`, the read `HandOver`, all else a stutter
(`StepRefines`). Hence `RefinesUntilOvertaken` in every schedule, `TimelyImplementsFifo` in
those without overtaking, and `OneConsumerImplementsFifo` without condition. This is what
lets `WebServer` use `FifoQueue` in place of the ring.

**`ServerStartProofs`.** `SInv` joins to the properties where `ws_init` is and what it
holds (`Phase`), which threads exist (`Existing`), and who owns the slot (`SlotInTurn`, which
also excludes the crash until a wait times out).
Theorems: `StartInductive`, `StartTypes`, `CleanupSound`, `PublicationSound`, `NamesSound`,
`PostsSound`, for any number of workers.

**`WebServerProofs`.** `ServerInv` is inductive for any clients, any pool and any queue.
What the properties need beyond themselves:

* `Homes` and `OnlyServers`: a thread has a socket exactly in the middle of handling one, a
  worker holds one exactly between the two steps of a dequeue, others do nothing;
* `OneHolder` and `OpenIsHeld`: no two places in the queue, workers or threads have the
  same socket, and a socket is open exactly while it has a place or was given up. Every
  step is one of a few moves of a socket (`NextMoves`), each of which keeps both
  (`HoldersKept`); counting the places (`Accounted`) gives `SocketsAccounted`;
* `FreshUntilServed` and `ServedInOrder`: what was written and made for a client follows
  from the place of the thread that has it, and a client nobody serves has nothing. With
  `OneHolder` a step of a thread concerns its own client only (`OwnServed`, `HandleServed`);
* `CountsBehind`: a loaded count is at most the number of counted connections, and equal to
  `activeConnections` if there is one thread.

Theorems: `ServerAlways`, `ServerTypes`, `ServerAccounts`, `ServerFrees`, `ServerAnswers`,
`ServerCounts`.

**`SemaphoreProofs`.** `NoLostWakeup` with who is inside the mutex (`SemInv`) is inductive:
a post signals before it counts, and `Pending` is what it owes. `SemaphoreRefines` maps
count and results to the abstract semaphore, where a call takes effect when it leaves the
mutex for the last time. Further `SemaphoreInductive`, `SemaphoreTypes`, `WakeupSound`.

**`ArenaProofs`.** `ArenaInv` for every capacity, page, alignment and nesting: the position
is a multiple of the alignment away from the header outside records, blocks and the
positions that open scopes remember are in order below it, and everything up to it is
committed. Theorems: `ArenaInductive`, `ArenaTypes`, `BlocksSound`, `CommitSound`,
`RecordsSound`.

**`LibraryProofs`.** Dates: packing is a number in mixed radix: `RoundTripSound` (unpacking is
its inverse on the documented ranges) and `OrderSound` (numbers compare as the times; a day
of 31 or a thousandth millisecond carries by one, which keeps times in order).

URLs: `UrlSound`, for all texts as parts, says that every part `url_fromStr` fills lies
within the URL, and that from one with a scheme, host, port and path it takes exactly these.
`UrlBounds` is inductive by itself: a size from a search without result is -1 or, wrapped
around, larger than any URL, and both are cut to what is there (`SubStrWithin`). The second
half needs where each function is and what it has left (`UrlProgress`). `Layout` says which
character of such a URL stands where, `RegularCharacters` where a separator does not; with
them each search ends where the part does (`FindCharRange`), and what is cut out there is the
part (`TextIs`). That the scheme, host and port hold no separator (`Separable`) is part of
the property: the search in a scheme `a:b` ends at its own `:`.

Arguments: `OptionsSound`, for every table of options and every command line. A call of
`arg_nextOpt` searches from `nextIdx` on: `TurnReached` and `SearchReached` say, by induction
over the turns of the loop, that it stops at the next argument that names an option, however
many values and unknown arguments it passes. `ArgsInv` is then that what was reported, marked
as seen and kept by `main` is at all times what the arguments before `nextIdx` say:
`FindOptionKeeps` for a call that finds one and `EndKeeps` for the last. The invariant has the
very report of the code (`Told`); that it is one of those the property admits is `ToldRight`.

Paths: `PathSound`, for paths of any length. `str_replaceAll` computes a size from the number
of matches, and fills the block in a loop of its own; `ReplaceLoop` is the induction over that
loop, for any set of positions its turns stay in. For `\` and `/` the set is the text so far
with slashes (`SlashesFixed`). For `/./` it is `DotTurns`: what is written is what stays of
the path, it is two characters shorter for each match begun so far, and no match reaches
behind the position, which is what makes the two loops agree and where overlapping matches
would break it (`ApartShape`). That far `..` does not matter. What is left of a path without
any has none (`NoDots`), so that the loop for these has nothing to do (`NothingAbove`), and it
is shorter than the path only if a character was dropped (`ShorterDropped`): so much for the
failing assertion.

Requests: `RequestSound`, for any request line, any fields, either end of line and a text cut
off anywhere. The property defines the words of a line by their boundaries, the scan of
`http_headerInit` stores them as it meets their ends. `ScanKeeps`, by induction over the
characters read, is that the scan is at all times between words, inside one, past the line, or
in more words than there is room for (`Scanned`), and that what it stored are the first words
as many as begun: a counting of the boundaries (`Begun`) links the number of a word to its
place. Hence `StoredWords`, which says nothing of the rest of the text, and `WordsAreWhole`.
For the fields, `From`, `Colon`, `Value` and `End` are the places of a field in what the
client sends. The needle of `http_headerNext` is at the next field, or no call from there on
finds anything and every later field was cut off (`AtField`, `Silent`): that is what stays
true when the text ends in the middle of a key, of a value or between CR and LF.
`FirstField` puts the needle there after `http_headerInit`, `NextField` moves it on by
one field with each call, and a reset returns to the first. The limits of the property are
those of the code: the fields are not found in order after a first line of four words or with
lines that end in LF.

Pages: `PageSound`, for an arena of any size and alignment, any tags, any number of attributes
and any order of calls, also when the arena fills up. `PageInv` is inductive: until the page
is handed out, what was written stands in the arena from its start without a gap, and the
letters written leave open exactly the blocks of C, as long as none was left early. The first
half is that of the arena: `PageHolds` is a store inside a record with the text in place, and
`PieceHolds`, `JoinHolds` and `JoinedHolds` carry it through a piece, a `str_join` and all
`str_join`s of a tag, by induction over their number; the two records `html_builderStart` opens
are what keeps every `str_join` from aligning. The second half is that a piece leads from some
open blocks to others whatever stands before it (`Moves`, `Carries`, from `NestingPrefix`):
a tag with all its attributes opens one block (`OpeningJoins`), its end closes it
(`PageCloses`), a text changes nothing. That `html_builderEnd` may judge by a count follows
because the depth is the number of open blocks exactly as long as no block was left early, and
larger from then on, so that it is 0 at the end only if none was (`PageEnds`). `PageLonger` is the finding of `html_page_size` for
every page: it is always one byte longer than what was written.

**`TlsSessionProofs`.** `TlsInv` is inductive for records of any number of pieces, any number
of records and both kinds of socket. Beyond the properties it has:

* `Parsing`: the pieces received and not yet parsed are less than a record, and the records
  parsed and the unparsed pieces together are what the socket delivered;
* `Writing`: while a send goes on, what is on the wire, what is left of the buffer and what
  was written after it are the output in order; a broken socket is left alone;
* `Pending`: what stays in the buffer between two calls is said by where the thread is, which
  is what lets a handler that stops only lose alerts.

A receive cuts any number of records off its input in one loop, a recursive function in
`TlsSession`; that the loop keeps the invariant (`ConsumeGood`) is an induction over its
turns on the lemma for one record (`ParseNextGood`). A loop that writes into the buffer keeps
`Flat`, the invariant taken apart into the part of the input and that of the output, so that
each lemma moves one of them. Theorems: `TlsInductive`, `StreamSound`, `ReadsSound`,
`LossOfAlerts`.

**`DataInduction`** is what the proofs about data rest on: a set of naturals with 0 and with
each successor is `Nat` (`SetInduction`) or an interval (`IntervalInduction`), and a function
that is given by its value at 0 and by its step exists and has that value and step
(`RecursionExists`, from the union of its finite approximations). `GatherExists` and
`GatherShape` are the case of a list gathered from left to right.

*Only model-checked*: the liveness properties (`EventuallyDelivered`, `ConnectionsEnd`,
`InitReturns`, `WorkersRun`, `SessionEnds`, `AllReturn`), since fairness and `ENABLED` are
outside the prover's reach. Every safety property of a passing run is a theorem.

## 8. Not modelled

* `ws_shutdown` and `os_threadShutdown`: `main` never leaves its loop.
* `SSL_connect`, `SSL_CTX_*` and the other calls of the compatibility layer the server does
  not make or that only set a field.
* The managed allocator, which nothing calls, and arenas on given memory, whose commit
  does nothing.
* UTF-8, string lists and the wording of numbers; hashes, random numbers, vectors and
  matrices: arithmetic on floats and bits or wording.
* Weak memory: `a32_store` on ARM compiles to an exchange with acquire order only
  (`base.h:2715`); the models are sequentially consistent.
* Running out of descriptors after many leaked sockets, and `accept` failing for that:
  each client connects once.
* Files, processes and OS information: system calls without state, but for the fixing of
  paths.
* The programs that are not built, and the vendored code (the engine of tlse,
  libtomcrypt, x509, SQLite), which is nearly all of the repository's lines.
