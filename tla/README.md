# Verification of owon-xdm1041-server

TLA+ models of the server that shares one OWON XDM1041 multimeter between raw
SCPI clients and a web interface, the TLC runs that check them and the proofs
TLAPS checks.  Source paths below are relative to `src/owon_xdm1041_server/`.

## The system

| component | state it keeps | operations | talks to |
|---|---|---|---|
| `device/manager.py` DeviceManager | an `asyncio.Lock` | start, stop, query, write; reconnect and drop on failure | transport |
| `device/transport.py` SerialTransport | `_serial` | open, close, transact; each blocking call in an executor thread | pyserial, the meter |
| `device/driver.py` Driver | none | typed operations, several made of more than one query | manager |
| `device/commands.py` | none | parse and build SCPI commands, units | driver, REST |
| `web/poller.py` Poller | `_task`, `_subscribers` | subscribe, poll loop, stop | driver, broadcaster |
| `web/broadcast.py` Broadcaster | the subscriptions and their bounded queues | register, unregister, publish | poller, handlers, recorder |
| `web/recorder.py` Recorder | `_task` | start, stop, insert each reading | broadcaster, database |
| `web/api.py`, `web/views.py` | none | REST, `/ws/live`, HTML controls | driver, poller, database |
| `storage/db.py` Database | one aiosqlite connection | insert, history, aggregate, count | SQLite |
| `scpi/server.py` ScpiServer | `_server`, one handler per client | forward each line | manager |
| `runner.py`, `web/app.py` | the wiring | start-up and shutdown order | all |
| `web/static/dashboard.js` | socket, stale timer | connect, reconnect, show | `/ws/live` |

Everything but pyserial's blocking calls and SQLite runs on one event loop, so
what is concurrent is: tasks at their awaits, threads that outlive the await
that started them, and the meter itself, which answers when it likes.

What makes each part correct:

* manager and transport: one thread at a time on a `Serial`; no call gets the
  answer to another; a failure drops the connection and the next call
  reconnects and puts the meter in LOCAL mode; no call waits for ever, whoever
  is cancelled, unless a write blocks for ever; no port stays open unseen.
* poller and broadcaster: one poll loop exactly while somebody is subscribed;
  a slow subscriber loses its own readings only; live clients are fed; an
  unwatched meter is left alone.
* driver and REST: a value is tagged with the function it was measured in, a
  snapshot is one the meter was in, an aggregate is over the rows it says.
* SCPI server: one client's line order is its answer order; one bad command
  harms nobody else.
* runner: shutdown ends, and closes the port last (not when a signal interrupts the
  start-up, see Findings); the database is open as long as somebody writes to it.
* dashboard: one connection or one retry, and a badge that tells the truth.

## Modules

| module | what it is |
|---|---|
| `DeviceManager` | manager, transport, executor threads, wire and meter |
| `SingleFlight` | abstract: what the manager promises its callers |
| `MCDeviceManager` | symmetry for its runs |
| `DeviceManagerProofs` | its theorems: types, the lock, failures, whose answer a call returns |
| `PortProofs` | the theorem that no port is left open unseen |
| `ServiceProofs` | the theorems about what the manager's callers get: SingleFlight, whole lines, a free front panel |
| `LiveFeed` | poller, broadcaster, `/ws/live` handlers, recorder |
| `OnDemand` | abstract: what the live stream promises its viewers |
| `MCLiveFeed` | symmetry for its runs |
| `LiveFeedProofs` | the theorems about the poller's reference count, about gaps in the stream and that it implements OnDemand |
| `Meter` | driver and REST endpoints over the meter's settings and the table of readings |
| `Storage` | what the database answers from that table |
| `MCMeter` | symmetry for its runs |
| `MeterProofs` | the theorem about what a reply says of the settings |
| `DurabilityProofs` | the theorems about what a reply says of the table of readings |
| `ScpiServer` | the SCPI socket's client handlers, over `SingleFlight` |
| `Lifecycle` | extends `ScpiServer`: runner, lifespan, recorder, requests, live streams, signals |
| `LifecycleProofs` | the theorems about both |
| `Dashboard` | `dashboard.js` in one page of a browser |
| `DashboardProofs` | the theorems about it |

### DeviceManager

A task is `idle`, `waiting` for the lock, or holds it in `opening`, `greeting`
(the SYST:LOC of `_connect`), `transacting` or `closing`: the awaits of
`_transact`, `_connect` and `_safe_close`.  `Request` and `Acquire` run the body
up to its first await (`Enter`), `Opened` ... `Closed` run from the end of an
awaited thread to the next await.  `asyncio.Lock` is `holder` and the queue
`waiters`: a released lock is taken by the first waiter, and a newcomer queues
behind it.

`asyncio.to_thread` is `queued` (handed to the executor, not started), then a
worker's `thread[w]`, which goes through the pyserial calls one at a time:
`reset`, `write` (with flush), `read`.  The thread reads `self._serial` itself,
as its first step (`Port`).  Every call may raise (`IoError`); on an object that
was closed it always does.  `wire` is what the meter has received and not
executed, `input` what it sent and nobody read.  Each entry remembers the
thread that waits for it, until that thread gives up (`Forget`): that is how a
result is `own`, `foreign` or a `fragment`.  An entry of `input` is a whole line, the
beginning of one or the rest of one: an answer may come in two pieces, and what the
meter still has to send of it is a `Rest` on the wire.  `readline` returns a whole line,
or what it has when the timeout expires (`ReadFragment`); it fails only when it has
nothing (`Timeout`).  After a fragment the connection is kept and the rest comes when it
comes, also after the next reset.  `TornLine` is a line two threads read from at once.

`Cancel` is `Poller._stop`'s `task.cancel()`: it raises at whatever await the
task is in.  A queued job is dropped, a running one is not: its thread goes on
with the lock free.  `Faults` switches what the environment may do: `io`,
`silent` (no answer), `late` (an answer may arrive after the port was opened again),
`partial` (an answer may arrive in two pieces), `close` (`Serial.close` raises), `wedge`
(a write that never returns).  A read may time out, and a port may be opened, at any
moment, whatever the meter is doing.  Without `late`, what it still had to send then is
lost when the port is opened (`Lost`): an assumption about the meter, which nothing in the
code guarantees, and finding 2 is what happens without it.

Abstracted: durations, bytes, the texts of errors, retries inside pyserial.

### LiveFeed

A handler of `/ws/live` is `out`, `accepting`, `waiting` for a reading,
`sending` it, or `stopping`: in the await of `Poller._stop`.  `Subscribe` is
`Poller.subscribe` up to the first `queue.get`; `SendFailed` runs `__aexit__`,
the decrement and `_stop` up to its await.  A poll-loop task is `polling`,
`sleeping`, `cancelled` (its CancelledError is pending) or `ended`; a poll
either publishes or fails, whatever DeviceManager did to it.  The recorder is a
subscriber of the broadcaster that the poller does not count; its `sending` is
the await of `insert_reading`.  `link` is what the server's protocol layer
knows of the connection; `Disconnect` may happen at any time, and only
`send_json` notices.

Readings are numbers.  `MaxReading` stands for its own number and all later
ones, so that the loop can go on for ever in a finite model.

### Meter and Storage

A request is the list `todo` of the awaits its handler has left: transactions with
the meter (`FUNC1?`, `MEAS1?`, `RATE?`, `AUTO?`, `RANGE?`, or the `set` of a control
endpoint) and statements of the database (`insert`, `commit`, `aggregate`).  One
transaction is one step: that they do not overlap is DeviceManager's promise
(`SingleFlight`).  Between two steps other requests take theirs, and `TurnKnob`
changes a setting as the front panel or a raw SCPI client does.  The poll loop with
the recorder is a client that requests `measurement`: FUNC1?, MEAS1?, insert, commit.
`Fail` ends a request at any await (HTTP 500), `RANGE?` included: `get_range` swallows a
DeviceError, which leaves the range unknown, and an OSError of `Serial.close` passes.  `Crash` loses the rows that were not committed.

All tasks share one aiosqlite connection, so `rows` is one sequence and `committed` the
length of its committed part: a commit covers whatever others have inserted.  The clock
is the wall clock: a timestamp may be any of `Times`, also an earlier one.  `since[c]`
is a history variable: the settings the meter has had since c's request began, or
since c's own change.  `of` in a reading is one, too: the function it was measured in.
Means, units and the display text of ranges are left out; a range is named by the
function it belongs to.

### ScpiServer and Lifecycle

`ScpiServer` is one handler per client: `reading` a line, `calling` the manager,
`draining` an answer, `closing`.  The manager is `INSTANCE SingleFlight`, the
specification `manager_serialised` shows DeviceManager to implement: callers are
served in turn, one at a time, and each call has one of the `Endings`.  An ending is
`own` (a response), `odd` (a response whose encoding as ASCII raises), `ok`,
`DeviceError` (swallowed by `handle_command`) or another exception (which ends the
handler).  The task takes it and it is forgotten (`Return`).  A client may pipeline lines, close its side (`eof`: what it sent is still
read, an unterminated last line included), be reset (`lost`: what was not read is
gone), and not read its answers: beyond `Window` unread ones `drain` waits, as does
`wait_closed`.  `replies` holds line numbers: whose answer it is, not its text.

`asyncio.Server.wait_closed` (Python 3.12.1 or later) waits until no connection is
`Attached`; a connection is from accept to `connection_lost`, so a handler may outlive
its connection, in a call.

`Lifecycle` adds the other callers of the manager and the states of `serve`: `starting`,
`serving` (the gather), `stopping` (`serve_forever` is cancelled, then `scpi.stop`),
`closing` (`manager.stop`), `exited`, `killed`.  `web` is uvicorn: `starting`, `serving`,
`draining` (a signal came; it waits for the handlers), `ended`; `lifespan` and
`recorder` are the application's.  uvicorn 0.29 or later raises the signal again when it
has ended: SIGINT cancels the main task through `asyncio.run`, SIGTERM kills.  A signal
that comes while uvicorn starts makes it bind its listener all the same and return without
its shutdown.  SIGTERM then kills at once.  After SIGINT the web server is `abandoned`:
nobody waits for it, and requests and live streams go on arriving while the main task is
in `scpi.stop` and `manager.stop` and while `asyncio.run` cancels what is left, the
lifespan included (`ShutDown`).  `Gone` is the end of all handlers, when
`asyncio.run` or a kill ends them.  A request is
`_take_reading`: a call, then an insert.  A live stream whose connection is closed is
`gone` until the next reading is sent to it; the poll loop runs while there is a handler.
What a poll loop is in detail is LiveFeed's, and what its cancellation does to the
transaction it is in is DeviceManager's: here a handler ends between two polls.

### Dashboard

One action is one callback: `OnOpen`, `OnMessage`, `OnClose`, the watchdog (`Stale`), the
retry (`Reconnect`).  Timers are counted down by `Tick`; a timer that is due fires at some
time later, so it may be overtaken by other callbacks.  A socket is `lost` when its
connection is gone and its close event is still to be dispatched; messages that
arrived before come first.  The badge `stale` is "live — no data".  `silence` is a
history variable: the ticks since the last sign of life.

## Runs

| run | instance | shows |
|---|---|---|
| `manager_serialised` | 3 tasks, 2 threads, 1 port; io, silent | one thread per port, own answers, LOCAL mode, refinement of SingleFlight, and the invariant of the proofs, when answers are whole and in time |
| `manager_cancelled` | 2 tasks, one cancelled at any await, 2 threads, 2 ports; io, close, late, partial, wedge; start and non-ASCII writes | no leaked port, a sound lock queue, failures drop the connection |
| `manager_returns` | 2 tasks, one cancelled at any await, 2 threads, 2 ports; io, close, partial, wedge | every call returns, unless a flush never does |
| `manager_two_threads` | 2 tasks, one cancelled, no faults | **violated**: cancelling the poll loop puts two threads on one port |
| `manager_late_answer` | 2 tasks, late answers | **violated**: a late answer is returned to another call |
| `manager_partial_line` | 2 tasks, answers in two pieces | **violated**: a cut-off line is returned as a response |
| `feed` | 2 clients, recorder, queues of 1, 3 readings | reference counting, order and counted gaps, refinement of OnDemand; clients are fed and an unwatched meter is left alone, if it answers |
| `feed_unwatched` | the same without the assumption on the meter | **violated**: a dead client keeps the poll loop alive |
| `meter` | 2 clients, 1 change at the panel, 2 rows, crashes | what a reply says was so, after the client's own change; returned readings stay, are counted; history is the newest rows |
| `meter_attribution` | 2 clients, 1 change at the panel | **violated**: a reading tagged with another function |
| `server` | 1 SCPI client with 2 lines, 1 request, 1 live stream, 1 signal | answers paired with queries, manager.stop last and an open database for every insert (both with the exception of the interrupted start-up), everybody served, shutdown ends |
| `dashboard` | 3 sockets, 3 timers, watchdog 3 ticks, retry 1 | one connection, a true badge, silence shown, reconnects |

Bounds.  Three tasks make a queue of two behind the holder, the least in which
order shows.  Two threads are the least that can collide; a third orphan adds
nothing to a pairwise property.  `MaxWire = 2` lets an abandoned command sit in
front of a new one.  `manager_cancelled` and `manager_returns` have 1: their properties
say nothing of what is on the wire, a longer one only delays answers, and a thread that
is kept from writing by a full one waits as `flush` does; what the first checks is proved
for all values (`NoWaiterLost`, `DropsConnection`, `PortProofs`).  One query and one write are enough: the properties tell
answers apart by the call, not by the text.  A queue of one is full after one reading: with
three readings, one in hand, one queued and one refused occur together.
For the meter, two clients are one that reads and one that interferes; with the panel
there are three hands on it.  Two functions, one of which has no RANGE?, are all the
cases `get_range` knows.  `meter` has the endpoints `status` (a reading, an insert,
an aggregate and the settings in one request) and `function` (a change, then the settings);
the other endpoints run parts of these two, and the theorems are about all of them.  `history`
is checked for every limit from -1 to the number of rows; SQLite takes a negative one, which
`web/api.py:251` lets through, as none.
Two rows show an insert between another's insert and commit, and rows inside
and outside the window and the limit.
For the server, two lines are one that is answered and one pipelined behind it; the
request, the poll loop and the main task are the other clients of the manager, so that
four callers contend; `Window = 0` makes every unread answer hold up its handler.  One
signal is a run: a second Ctrl-C only takes shortcuts of uvicorn.  For the page, the
watchdog is longer than the retry, as in the code, and a third socket and timer are
never in use at once (`OneConnection`), only there to be reused.

Fairness.  Every ready task runs and every thread moves (weak fairness per task
and thread): the event loop is first come first served and the threads are the
operating system's.  The meter executes what it receives.  Nothing forces a
request, a cancellation, a disconnect, an I/O error or a wedged write (`Run` is what
a thread does when nothing fails): what ends a read of a silent meter is the timeout.
`EveryCallReturns` excepts what nothing can end: a call behind one whose flush never
returns (no timeout is set for writes), and the time when such flushes hold every thread
of the executor; a cancelled caller leaves its thread behind, so this takes two of them.  `LiveSpec` adds that a
meter polled again and again answers again and again (strong fairness of
`PollSucceeds`); `feed_unwatched` shows what is lost without it.  That every poll
ends is `EveryCallReturns` of DeviceManager.  In `Lifecycle` every ready task runs, every
call that is served ends, `database.connect` returns or raises, and again a polled meter
answers in the end (`PollAnswered`); clients need not send, read or leave, which is why
`EverybodyServed` excepts the one that does not read and `ShutdownEnds` the run in which
one stays connected for ever.  In `Dashboard` the clock goes on, every callback that is
due runs and an attempt to connect ends; nothing has to arrive.

`start` is not in `manager_serialised`: when its SYST:LOC fails it leaves the
port open (`_connect` without the handler of `_reconnect`), and a query after
that would find a meter in REMOTE mode.  Only the `probe` command calls `start`,
and it exits on failure.  Nor is SYST:REM among the commands: a raw SCPI client
that sends it locks the panel until the next reconnect.

## Findings

1. `web/poller.py:82` with `device/manager.py:69`: the cancelled poll loop frees
   the lock before its thread is done (`manager_two_threads`).
2. `device/transport.py:93`: the input buffer is reset before, not after, the
   late answer arrives (`manager_late_answer`).  After an I/O error it need not even be late:
   the next call opens the port again at once.
3. `device/transport.py:102`: only an empty read is a timeout
   (`manager_partial_line`).  The connection is kept, so the rest of the line may arrive after
   the next reset and be returned to the next call: TLC finds `NoInterleavedResponses`
   violated as well when the same instance checks it.
4. `web/api.py:270`: a disconnect is noticed only by sending (`feed_unwatched`).
5. `device/driver.py:90`: FUNC1? and MEAS1? are two transactions (`meter_attribution`).

Not a run of its own, for the same reason as 5: the four queries of `read_state`
(`device/driver.py:96`, "a full, coherent snapshot") are four transactions, and two changes
between them give a combination the meter never had.

Nor is another consequence of 1, at `device/manager.py:59`.  When the poll loop is cancelled
in the SYST:LOC of `_connect` before a thread has started it, the job is dropped;
`_reconnect` does not close the port, because CancelledError is not a TransportError, and
`is_open` keeps later calls from greeting it.  Queries are then served with the front panel
locked, against `device/manager.py:10` ("never locked out").  TLC finds it when the instance
of `manager_two_threads` checks `FrontPanelFreed`.

A signal during the start-up of the web server has one more consequence, at `runner.py:67`.  uvicorn
returns with its listener open, and with SIGINT requests are answered while `serve` is in its
`finally`.  One that waits behind `manager.stop` (`runner.py:70`) opens the port again after it, and
one that comes while `asyncio.run` ends the lifespan may find the database closed.
The process ends all the same (`ShutdownEnds`).  `StopIsLast` and `DatabaseOutlivesWriters` except
these cases; without the exceptions TLC finds them in the instance of `server`.

## Proofs

`DeviceManagerProofs` proves, for any finite or infinite sets of tasks, threads,
Serial objects and commands:

* `TypeCorrect`, `NoWaiterLost`, `DropsConnection`: without any restriction, with
  cancellation and all faults.
* `SingleThread`: with `Cancellable = {}`.
* `Invariance` and `OwnAnswers`: with `Cancellable = {}`, no late answers and no answer
  in two pieces.

These restrictions are the findings 1, 2 and 3: the properties are false
without any one of them.  The argument for `OwnAnswers`: the lock has one holder and the
holder one job (`LockInv`, `NoOrphans`); the job fits the place the holder is in
(`JobInv`); on a connection no transaction has failed on, the meter owes at most
the one answer the reading thread waits for, and the buffer is empty from the
reset to that answer (`Owed`).  A failed transaction breaks `Usable`, which is why
the connection has to be dropped: the mutant that keeps it violates
`NoInterleavedResponses`.  A query that times out must be a failure, too: the mutant
that returns the empty line violates `IInv`.  The reset before each command is not what the argument
needs; it only helps where the assumptions fail.  `IInv` is checked by TLC in `manager_serialised` and
each of its conjuncts has a step lemma, one case per action.

`ServiceProofs` builds on these and proves for any sets of tasks, threads, Serial objects
and commands, without cancellation:

* `ImplementsSingleFlight`: the manager implements `SingleFlight` without its fairness,
  when no answer is late and none comes in two pieces.  The holder is `served`, the queue is `line`, the results are the
  endings.  A step of the meter or a thread and every await of the holder is a stutter;
  a request that finds the lock free takes the call at once, because then nobody waits
  (`WaitersInLine`, `LockInv`); `Return` leaves.  What the refinement needs beyond `IInv` is
  that whoever is in a call has no result yet (`NoResultYet`) and that no thread has
  read a foreign line.
* `WholeLinesReturned`: `CompleteLines`, with late answers too, when no answer comes in
  two pieces.  `manager_partial_line` shows what is lost otherwise.
* `PanelFreed`: `FrontPanelFreed` with every fault, late and torn answers included, under `LocalOnly`
  (`start` and SYST:REM left out, see above).  Once a connection is no longer being
  greeted, a SYST:LOC has been executed or is ahead, on the wire, of every
  command somebody waits for (`Freed`): the greeting was written before the first query,
  and the wire keeps the order.  So an answer that somebody waits for was sent by a meter
  in LOCAL mode (`PanelInv`), and it stays in it, because nobody sends SYST:REM.  The
  meter may be in REMOTE mode when the server starts.  The argument needs that what is on
  its way is addressed to threads that read (`Addressed`).

`PortProofs` proves `NoPortLeaks` with cancellation and all faults.  `NoLeakedPort` is
not inductive: a thread that ends drops the Serial object it used.  So the threads
that merely use a port do not count: an open one is the manager's, is about to be
closed, is being closed, or was opened for the task that waits for it (`Held`); a
thread that has ended holds a port only then (`JobsInv`).

`LiveFeedProofs` proves `FeedTypeCorrect`, `ReferenceCounted` (`RunningIffWatched`) and
`GapsCounted` (`NoSilentGap`) for any finite set of clients and any queue size.  The
reference count is strengthened by the fact that a loop some handler awaits in `_stop`
is cancelled or ended, so it is never `self._task`.  The gaps: nothing is on its way
to a client that is not registered, a reading that is published is queued or counted
as missed, and what a handler has in hand lies between what it has sent and what is
queued (`Flow`).

`ImplementsOnDemand` proves `StreamsOnDemand` for the same constants: `Subscribe` is `Join`,
`SendFailed` is `Leave`, `Sent` is `Receive`, a poll that publishes is `Sample`, everything
else stutters.  It rests on the two invariants: the meter is sampled exactly while
somebody watches because of the reference count, and what is sent is newer than what
was sent before and at most the newest because of `Flow`.

`MeterProofs` proves `ReadsThrough`: `ReadThrough` for any sets of clients, functions,
rates and times and any number of changes at the panel.  A change replaces the
history `since[c]` by the settings it made; that costs no setting the client has
read, because `set` is the first await of its request (`ClientInv`).  Until the
request ends, every setting it has to read is either read, and in the history, or
still in `todo` (`Told`, `Complete`).

`DurabilityProofs` adds `ReturnedStaysStored`, `SummaryHasReading` and, for a finite set
of clients, `MeterTypeCorrect`.  They follow from the order of the awaits a request has
left (`InOrder`): a reading that is taken is inserted later, an insert is committed
later, and nothing is taken after an insert or an aggregate.  Until its commit the
reading is among the rows, afterwards among the committed ones, which a crash leaves
(`Kept`).  That a minimum and a maximum exist is derived from the least element of a
set of naturals.

`HistoryIsNewest` proves `NewestOldestFirst`, which is about the operators of `Storage` alone:
`Newer` is a strict total order of the rows, by time and then by id, so counting the
newer ones numbers a finite set of rows from 0 without gaps (`RankGrows`,
`NewestFirstSorts`), and that for any limit, a negative one being none; `history` takes the first of them, as many as the limit allows, and turns them
round (`HistoryOf`).

`LifecycleProofs` proves, for any sets of clients, requests and streams and any number
of lines, `ServerTypeCorrect`, `AnswersAlwaysPaired`, `StopIsAlwaysLast` and
`DatabaseAlwaysOutlives`.  The first lemmas say what each step of the abstract manager
does to those inside it (`CallEnters`, `TakeServes`, `LeaveFrees`).  Answers: a handler
that waits for the manager waits for the line it has taken last, and the ending it
gets is one of that line's kind (`ClientOK`).  The last call: whoever is inside the
manager is where its code called it (`Callers`); when `scpi.stop` has returned no client
is attached and no handler of the web server is left (`Stage`, `WebOK`), so nobody can
join behind the main task (`LastCall`).  After an interrupted start-up there may be
handlers at an abandoned listener: `LastCall` excepts it, and the database is open for them until
`asyncio.run` ends (`Up`).  `GoneEmpties` says that the end of the
handlers leaves nobody in the manager, `ReturnForgets` that a caller takes its ending along.  The assumption it rests on is the one of the
model: `SingleFlight` for the manager.

`DashboardProofs` proves `OneConnectionAlways` and `BadgeAlwaysTruthful` for any numbers of
sockets and timers and any delays: the watchdog that is armed is the only one, it is
armed at the last sign of life, so it cannot be due before `silence` is `StaleMs`.

Only model-checked: everything under fairness (EveryCallReturns, LiveClientsFed,
IdleWhenUnwatched, EverybodyServed, ShutdownEnds, SilenceShown, Reconnects and the fair
part of ServedInTurn), because the prover handles neither fairness nor ENABLED.  Every
invariant and every action property of a passing run is a theorem, under the restrictions
named above.

## Not modelled

* pydantic settings and the factory: they build the objects once, no behaviour over time.
* Templates, styles and the history page: presentation.  Its one hazard, two answers to
  Refresh out of order, shows older data until the next click.
* The mock: a test double; its interpreter is the reference for the command set.
* A taken web port, where uvicorn calls `sys.exit`, a second signal, and a connection
  that dies without a word: the page shows "no data" and waits.
* `identify` and the probe: queries that change nothing.
* Durations, bytes, units, means and the texts of commands and errors.
