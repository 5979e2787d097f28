-------------------------------- MODULE Meter --------------------------------
(***************************************************************************)
(* The Driver's operations and the endpoints that call them, over one      *)
(* shared meter and one shared database connection.                        *)
(*                                                                         *)
(* A request is a sequence of awaits: single transactions with the meter   *)
(* (which the DeviceManager serves one at a time) and statements of the    *)
(* database.  Between any two of them other requests take their steps, and *)
(* somebody at the front panel may press a button.                         *)
(***************************************************************************)
EXTENDS Storage

CONSTANTS
  Clients,      \* tasks that make requests: HTTP clients, and the poll loop with the recorder
  Paths,        \* the endpoints they call
  Functions,    \* measurement functions
  NoRangeQuery, \* the functions in which the meter does not answer RANGE?
  Rates,        \* measurement rates
  AutoRanges,   \* whether auto-range is on, a subset of BOOLEAN
  Times,        \* what time.time() returns
  Values,       \* what MEAS1? returns
  Seconds,      \* the smoothing window
  MaxRows,      \* bound: rows in the database
  MaxTurns      \* bound: changes at the front panel

ASSUME MeterConstants ==
  /\ NoRangeQuery \subseteq Functions /\ "unknown" \notin Functions \cup {None}
  /\ Times \subseteq Nat /\ Values \subseteq Nat
  /\ Seconds \in Nat \ {0}
  /\ None \notin Clients /\ None \notin Functions \cup Rates /\ None \notin Times \cup Values
  /\ AutoRanges \in SUBSET BOOLEAN /\ TRUE \in AutoRanges /\ None \notin AutoRanges
  /\ MaxRows \in Nat /\ MaxTurns \in Nat

VARIABLES
  meter,      \* the meter's settings
  request,    \* what each client asked for
  todo,       \* the awaits that are left of it
  status,     \* how it ended
  reading,    \* the measurement it has taken
  state,      \* the settings it has read
  summary,    \* the aggregate it has been given
  rows,       \* the table of readings, as the shared connection sees it
  committed,  \* how many of them are committed
  turns,      \* changes at the front panel so far
  since       \* history: the settings the meter had since each request began,
              \* or since its own change took effect

replyVars == <<reading, state, summary>>
tableVars == <<rows, committed>>
vars == <<meter, request, todo, status, replyVars, tableVars, turns, since>>

Settings == [function: Functions, rate: Rates, auto: AutoRanges]

Requests ==
  [path: {"measurement", "status", "state", "auto-range"} \cap Paths, arg: {None}]
    \cup [path: {"smoothed"} \cap Paths, arg: Functions \cup {None}]
    \cup [path: {"function"} \cap Paths, arg: Functions]
    \cup [path: {"rate"} \cap Paths, arg: Rates]

NoRequest == [path |-> "none", arg |-> None]
NoReading == [ts |-> None, function |-> None, value |-> None, of |-> None]
NoState   == [function |-> None, rate |-> None, auto |-> None, range |-> None]
NoSummary == [count |-> 0, min |-> None, max |-> None]

-----------------------------------------------------------------------------
(* The awaits of each request, in order; "FUNC?" is the FUNC1? of read_state *)

Steps == {"FUNC1?", "MEAS1?", "insert", "commit", "aggregate",
          "set", "FUNC?", "RATE?", "AUTO?", "RANGE?"}

TakeReading == <<"FUNC1?", "MEAS1?", "insert", "commit">>
ReadState   == <<"FUNC?", "RATE?", "AUTO?", "RANGE?">>

\* Mutant: the settings are read before they are changed.
ReadThenSet == ReadState \o <<"set">>

\* set_function, set_rate and enable_auto_range
SetThenRead == <<"set">> \o ReadState

Awaits(path) ==
  CASE path = "measurement" -> TakeReading
    [] path = "smoothed"    -> TakeReading \o <<"aggregate">>
    [] path = "status"      -> TakeReading \o ReadState \o <<"aggregate">>
    [] path = "state"       -> ReadState
    [] OTHER                -> SetThenRead

Pending(c) == status[c] = "pending"

\* rows there will be when every pending request has inserted its own
Claimed == Len(rows) + Cardinality({c \in Clients : "insert" \in Range(todo[c])})

Request(c) ==
  /\ ~Pending(c)
  /\ \E r \in Requests :
       /\ "insert" \in Range(Awaits(r.path)) => Claimed < MaxRows
       /\ request' = [request EXCEPT ![c] = r]
       /\ todo' = [todo EXCEPT ![c] = Awaits(r.path)]
  /\ status' = [status EXCEPT ![c] = "pending"]
  /\ reading' = [reading EXCEPT ![c] = NoReading]
  /\ state' = [state EXCEPT ![c] = NoState]
  /\ summary' = [summary EXCEPT ![c] = NoSummary]
  /\ since' = [since EXCEPT ![c] = {meter}]
  /\ UNCHANGED <<meter, tableVars, turns>>

\* the next await of c is `step`, and it succeeds
Does(c, step) ==
  /\ Pending(c) /\ Head(todo[c]) = step
  /\ todo' = [todo EXCEPT ![c] = Tail(@)]
  /\ status' = [status EXCEPT ![c] = IF Len(todo[c]) = 1 THEN "ok" ELSE @]
  /\ UNCHANGED <<request, turns>>

-----------------------------------------------------------------------------
(* Transactions with the meter *)

ReadFunction(c) ==
  /\ Does(c, "FUNC1?")
  /\ reading' = [reading EXCEPT ![c].function = meter.function]
  /\ UNCHANGED <<meter, state, summary, tableVars, since>>

\* The value, and the timestamp from_measurement gives it.
Measure(c) ==
  /\ Does(c, "MEAS1?")
  /\ \E v \in Values, ts \in Times :
       reading' = [reading EXCEPT ![c].value = v, ![c].ts = ts, ![c].of = meter.function]
  /\ UNCHANGED <<meter, state, summary, tableVars, since>>

GetFunction(c) ==
  /\ Does(c, "FUNC?")
  /\ state' = [state EXCEPT ![c].function = meter.function]
  /\ UNCHANGED <<meter, reading, summary, tableVars, since>>

GetRate(c) ==
  /\ Does(c, "RATE?")
  /\ state' = [state EXCEPT ![c].rate = meter.rate]
  /\ UNCHANGED <<meter, reading, summary, tableVars, since>>

GetAutoRange(c) ==
  /\ Does(c, "AUTO?")
  /\ state' = [state EXCEPT ![c].auto = meter.auto]
  /\ UNCHANGED <<meter, reading, summary, tableVars, since>>

\* Mutant: RANGE? is sent in every function, and its answer taken for granted.
AskRange(c) ==
  /\ Does(c, "RANGE?")
  /\ state' = [state EXCEPT ![c].range = meter.function]
  /\ UNCHANGED <<meter, reading, summary, tableVars, since>>

\* Not asked in the functions of NoRangeQuery; "unknown" when the meter does
\* not answer.  A range is named by the function it belongs to.
GetRange(c) ==
  /\ Does(c, "RANGE?")
  /\ \E r \in {meter.function, "unknown"} :
       /\ r # "unknown" => {state[c].function, meter.function} \cap NoRangeQuery = {}
       /\ state' = [state EXCEPT ![c].range = r]
  /\ UNCHANGED <<meter, reading, summary, tableVars, since>>

Changed(r) ==
  CASE r.path = "function" -> [meter EXCEPT !.function = r.arg]
    [] r.path = "rate"     -> [meter EXCEPT !.rate = r.arg]
    [] OTHER               -> [meter EXCEPT !.auto = TRUE]

\* the meter's settings become m; c, if any, made the change
Becomes(m, c) ==
  /\ meter' = m
  /\ since' = [d \in Clients |-> IF d = c THEN {m}
                                 ELSE IF Pending(d) THEN since[d] \cup {m} ELSE since[d]]

Set(c) ==
  /\ Does(c, "set")
  /\ Becomes(Changed(request[c]), c)
  /\ UNCHANGED <<replyVars, tableVars>>

\* A front-panel button, or a raw SCPI client.
TurnKnob ==
  /\ turns < MaxTurns
  /\ \E m \in Settings \ {meter} :
       /\ Cardinality({k \in DOMAIN m : m[k] # meter[k]}) = 1
       /\ Becomes(m, None)
  /\ turns' = turns + 1
  /\ UNCHANGED <<request, todo, status, replyVars, tableVars>>

-----------------------------------------------------------------------------
(* Statements of the one aiosqlite connection, which runs them in turn *)

\* Mutant: a reading taken on demand is not recorded.
NoInsert(c) ==
  /\ Does(c, "insert")
  /\ UNCHANGED <<meter, replyVars, tableVars, since>>

Insert(c) ==
  /\ Does(c, "insert")
  /\ rows' = Append(rows, reading[c])
  /\ UNCHANGED <<meter, replyVars, committed, since>>

\* Mutant: the commit is forgotten.
NoCommit(c) ==
  /\ Does(c, "commit")
  /\ UNCHANGED <<meter, replyVars, tableVars, since>>

\* A commit is the connection's: it commits what others have inserted, too.
Commit(c) ==
  /\ Does(c, "commit")
  /\ committed' = Len(rows)
  /\ UNCHANGED <<meter, replyVars, rows, since>>

Window(c) ==
  [since |-> IF reading[c].ts > Seconds THEN reading[c].ts - Seconds ELSE 0,
   until |-> None,
   function |-> IF request[c].arg # None THEN request[c].arg ELSE reading[c].function]

Summarise(c) ==
  /\ Does(c, "aggregate")
  /\ summary' = [summary EXCEPT ![c] = Aggregate(rows, Window(c))]
  /\ UNCHANGED <<meter, reading, state, tableVars, since>>

-----------------------------------------------------------------------------
(* Failures *)

\* An await raises and the request ends with it.  What was to be changed or
\* inserted may have been.  get_range swallows a DeviceError of RANGE?
\* (GetRange), but not the OSError of a close that failed after it.
Fail(c) ==
  /\ Pending(c)
  /\ status' = [status EXCEPT ![c] = "failed"]
  /\ todo' = [todo EXCEPT ![c] = <<>>]
  /\ \/ UNCHANGED <<meter, since>>
     \/ Head(todo[c]) = "set" /\ Becomes(Changed(request[c]), c)
  /\ UNCHANGED <<request, replyVars, tableVars, turns>>

\* The process dies and is started again: what was not committed is gone.
Crash ==
  /\ status' = [c \in Clients |-> IF Pending(c) THEN "failed" ELSE status[c]]
  /\ todo' = [c \in Clients |-> <<>>]
  /\ rows' = SubSeq(rows, 1, committed)
  /\ UNCHANGED <<meter, request, replyVars, committed, turns, since>>

-----------------------------------------------------------------------------

Init ==
  /\ meter \in Settings
  /\ request = [c \in Clients |-> NoRequest]
  /\ todo = [c \in Clients |-> <<>>]
  /\ status = [c \in Clients |-> "none"]
  /\ reading = [c \in Clients |-> NoReading]
  /\ state = [c \in Clients |-> NoState]
  /\ summary = [c \in Clients |-> NoSummary]
  /\ rows = <<>> /\ committed = 0
  /\ turns = 0
  /\ since = [c \in Clients |-> {}]

Transact(c) == ReadFunction(c) \/ Measure(c) \/ GetFunction(c) \/ GetRate(c)
                 \/ GetAutoRange(c) \/ GetRange(c) \/ Set(c)

Store(c) == Insert(c) \/ Commit(c) \/ Summarise(c)

Next ==
  \/ \E c \in Clients : Request(c) \/ Transact(c) \/ Store(c) \/ Fail(c)
  \/ TurnKnob
  \/ Crash

Spec == Init /\ [][Next]_vars

-----------------------------------------------------------------------------
(* Properties *)

ReadingType == [ts: Times \cup {None}, function: Functions \cup {None},
                value: Values \cup {None}, of: Functions \cup {None}]

StateType == [function: Functions \cup {None}, rate: Rates \cup {None},
              auto: AutoRanges \cup {None},
              range: (Functions \ NoRangeQuery) \cup {"unknown", None}]

SummaryType == [count: 0 .. MaxRows, min: Values \cup {None}, max: Values \cup {None}]

\* The values the variables take; a range is never one the meter does not tell.
TypeOK ==
  /\ meter \in Settings
  /\ request \in [Clients -> Requests \cup {NoRequest}]
  /\ DOMAIN todo = Clients /\ \A c \in Clients : todo[c] \in Seq(Steps)
  /\ status \in [Clients -> {"none", "pending", "ok", "failed"}]
  /\ reading \in [Clients -> ReadingType]
  /\ state \in [Clients -> StateType]
  /\ summary \in [Clients -> SummaryType]
  /\ rows \in Seq(ReadingType) /\ committed \in 0 .. Len(rows)
  /\ turns \in 0 .. MaxTurns
  /\ since \in [Clients -> SUBSET Settings]

Answered(c) == status[c] = "ok"

\* The settings c was told of, one field at a time
Had(c, k, v) == \E m \in since[c] : m[k] = v

\* "The meter is the single source of truth", "After any write, verify don't
\* assume" (DESIGN.md): every setting in a reply was the meter's while the
\* request ran, in the reply to a change not before the change took effect.
ReadThrough ==
  \A c \in Clients : Answered(c) =>
    /\ reading[c].function # None => Had(c, "function", reading[c].function)
    /\ state[c].function # None =>
         /\ \A k \in {"function", "rate", "auto"} : Had(c, k, state[c][k])
         /\ state[c].range # "unknown" => Had(c, "function", state[c].range)

\* A reading that was returned to a client is in the database and stays there,
\* although its insert and its commit are two statements of a connection it
\* shares, and whatever crashes.
ReturnedIsStored ==
  \A c \in Clients : Answered(c) /\ reading[c] # NoReading =>
    \E i \in 1 .. committed : rows[i] = reading[c]

\* "the smoothing window has data even when no /ws/live client is driving the
\* poller" (api.py): the summary beside a reading counts that reading.
SummaryCountsReading ==
  \A c \in Clients :
    /\ Answered(c) /\ request[c].path \in {"status", "smoothed"}
    /\ request[c].arg \in {None, reading[c].function}
    => /\ summary[c].count > 0
       /\ summary[c].min <= reading[c].value /\ reading[c].value <= summary[c].max

ListsNewest(table) ==
  \A s, u \in Times \cup {None}, f \in Functions \cup {None},
     limit \in -1 .. Len(table) :
    LET q     == [since |-> s, until |-> u, function |-> f]
        found == {table[i] : i \in Where(table, q)}
        list  == History(table, q, limit)
    IN  /\ Len(list) = Limited(limit, Cardinality(Where(table, q)))
        /\ Range(list) \subseteq found
        /\ \A i, j \in 1 .. Len(list) : i < j => list[i].ts <= list[j].ts
        /\ \A r \in found \ Range(list), i \in 1 .. Len(list) : r.ts <= list[i].ts

\* history returns the newest rows that match, at most `limit` when that is not
\* negative, oldest first, whatever the order in which readings with older and
\* newer timestamps are inserted.
NewestOldestFirst == [][Len(rows') > Len(rows) => ListsNewest(rows')]_vars

\* db.py: "each tagged with the function actually in effect when it was taken".
Attributed == \A i \in 1 .. Len(rows) : rows[i].function = rows[i].of

=============================================================================
