----------------------------- MODULE MeterProofs -----------------------------
(***************************************************************************)
(* ReadThrough for any number of clients, functions, rates and rows.       *)
(*                                                                         *)
(* A setting that a client has been told of was the meter's since the      *)
(* client's request began.  A control endpoint starts that history anew    *)
(* when its change takes effect, which is harmless because "set" is its    *)
(* first await: it has read nothing yet.  The reply is complete because    *)
(* every setting not yet read is still among the awaits that are left.     *)
(***************************************************************************)
EXTENDS Meter, TLAPS

-----------------------------------------------------------------------------
(* Sequences of awaits *)

\* The tail of a nonempty sequence of awaits.
LEMMA TailOf ==
  ASSUME NEW q \in Seq(Steps), q # <<>>
  PROVE  /\ Tail(q) \in Seq(Steps) /\ Len(Tail(q)) = Len(q) - 1
         /\ \A i \in 1 .. Len(q) - 1 : Tail(q)[i] = q[i + 1]
         /\ Head(q) = q[1] /\ Len(q) \in Nat \ {0}
  OBVIOUS

\* the requests that read the settings
Reads == {"status", "state", "function", "rate", "auto-range"}

Has(q, s) == \E i \in 1 .. Len(q) : q[i] = s

\* What the proof needs to know of the awaits q of an endpoint: a change comes
\* first, and the settings are read exactly by those that say so.
Fits(path, q) ==
  /\ q \in Seq(Steps) /\ q # <<>>
  /\ \A i \in 1 .. Len(q) : q[i] = "set" => i = 1
  /\ path \in Reads => Has(q, "RATE?") /\ Has(q, "AUTO?") /\ Has(q, "RANGE?")
  /\ path \notin Reads => ~Has(q, "FUNC?")

\* The elements of a concatenation.
LEMMA JoinHas ==
  ASSUME NEW q \in Seq(Steps), NEW r \in Seq(Steps)
  PROVE  /\ q \o r \in Seq(Steps)
         /\ \A s : Has(q \o r, s) <=> Has(q, s) \/ Has(r, s)
         /\ q # <<>> => q \o r # <<>>
         /\ Len(q \o r) = Len(q) + Len(r)
         /\ \A i \in 1 .. Len(r) : (q \o r)[Len(q) + i] = r[i]
<1>1. q \o r \in Seq(Steps) /\ Len(q \o r) = Len(q) + Len(r) /\ Len(q) \in Nat /\ Len(r) \in Nat
  OBVIOUS
<1>2. \A i \in 1 .. Len(q) : (q \o r)[i] = q[i]
  OBVIOUS
<1>3. \A i \in 1 .. Len(r) : (q \o r)[Len(q) + i] = r[i]
  OBVIOUS
<1>4. \A i \in 1 .. Len(q \o r) : i \in 1 .. Len(q) \/ (i - Len(q) \in 1 .. Len(r) /\ i = Len(q) + (i - Len(q)))
  BY <1>1
<1>5. \A i \in 1 .. Len(r) : Len(q) + i \in 1 .. Len(q \o r)
  BY <1>1
<1>6. \A i \in 1 .. Len(q) : i \in 1 .. Len(q \o r)
  BY <1>1
<1>7. ASSUME NEW s PROVE Has(q \o r, s) <=> Has(q, s) \/ Has(r, s)
  BY <1>2, <1>3, <1>4, <1>5, <1>6 DEF Has
<1> QED  BY <1>1, <1>3, <1>7

\* The awaits of _take_reading.
LEMMA TakeHas ==
  /\ TakeReading \in Seq(Steps) /\ TakeReading # <<>>
  /\ \A s : Has(TakeReading, s) <=> s \in {"FUNC1?", "MEAS1?", "insert", "commit"}
<1>1. TakeReading \in Seq(Steps) /\ Len(TakeReading) = 4
  BY DEF TakeReading, Steps
<1>2. /\ TakeReading[1] = "FUNC1?" /\ TakeReading[2] = "MEAS1?"
      /\ TakeReading[3] = "insert" /\ TakeReading[4] = "commit"
  BY DEF TakeReading
<1>3. 1 .. 4 = {1, 2, 3, 4}
  OBVIOUS
<1> QED  BY <1>1, <1>2, <1>3 DEF Has

\* The awaits of read_state.
LEMMA ReadHas ==
  /\ ReadState \in Seq(Steps) /\ ReadState # <<>>
  /\ \A s : Has(ReadState, s) <=> s \in {"FUNC?", "RATE?", "AUTO?", "RANGE?"}
<1>1. ReadState \in Seq(Steps) /\ Len(ReadState) = 4
  BY DEF ReadState, Steps
<1>2. /\ ReadState[1] = "FUNC?" /\ ReadState[2] = "RATE?"
      /\ ReadState[3] = "AUTO?" /\ ReadState[4] = "RANGE?"
  BY DEF ReadState
<1>3. 1 .. 4 = {1, 2, 3, 4}
  OBVIOUS
<1> QED  BY <1>1, <1>2, <1>3 DEF Has

\* A sequence of one await.
LEMMA OneHas ==
  ASSUME NEW x \in Steps
  PROVE  /\ <<x>> \in Seq(Steps) /\ <<x>> # <<>>
         /\ \A s : Has(<<x>>, s) <=> s = x
<1>1. <<x>> \in Seq(Steps) /\ Len(<<x>>) = 1 /\ <<x>>[1] = x
  OBVIOUS
<1> QED  BY <1>1 DEF Has

\* Every endpoint's sequence of awaits fits.
LEMMA AwaitsOf ==
  ASSUME NEW p \in Reads \cup {"measurement", "smoothed"}
  PROVE  Fits(p, Awaits(p))
<1> DEFINE last  == <<"aggregate">>
           first == <<"set">>
           both  == TakeReading \o ReadState
<1>a. last \in Seq(Steps) /\ last # <<>> /\ \A s : Has(last, s) <=> s = "aggregate"
  BY OneHas, "aggregate" \in Steps DEF Steps
<1>b. first \in Seq(Steps) /\ first # <<>> /\ Len(first) = 1 /\ \A s : Has(first, s) <=> s = "set"
  BY OneHas, "set" \in Steps DEF Steps
<1>c. both \in Seq(Steps) /\ both # <<>> /\ \A s : Has(both, s) <=> Has(TakeReading, s) \/ Has(ReadState, s)
  BY TakeHas, ReadHas, JoinHas
<1>1. CASE p = "measurement"
  <2>1. Awaits(p) = TakeReading
    BY <1>1 DEF Awaits
  <2> QED  BY <2>1, <1>1, TakeHas DEF Fits, Reads, Has
<1>2. CASE p = "smoothed"
  <2>1. Awaits(p) = TakeReading \o last
    BY <1>2 DEF Awaits
  <2> HIDE DEF last
  <2>2. Awaits(p) \in Seq(Steps) /\ Awaits(p) # <<>>
        /\ \A s : Has(Awaits(p), s) <=> Has(TakeReading, s) \/ Has(last, s)
    BY <2>1, <1>a, TakeHas, JoinHas
  <2> QED  BY <2>2, <1>2, <1>a, TakeHas DEF Fits, Reads, Has
<1>3. CASE p = "state"
  <2>1. Awaits(p) = ReadState
    BY <1>3 DEF Awaits
  <2> QED  BY <2>1, <1>3, ReadHas DEF Fits, Reads, Has
<1>4. CASE p = "status"
  <2>1. Awaits(p) = both \o last
    BY <1>4 DEF Awaits
  <2> HIDE DEF both, last
  <2>2. Awaits(p) \in Seq(Steps) /\ Awaits(p) # <<>>
        /\ \A s : Has(Awaits(p), s) <=> Has(both, s) \/ Has(last, s)
    BY <2>1, <1>a, <1>c, JoinHas
  <2>3. /\ Has(ReadState, "RATE?") /\ Has(ReadState, "AUTO?") /\ Has(ReadState, "RANGE?")
        /\ ~Has(ReadState, "set") /\ ~Has(TakeReading, "set") /\ ~Has(last, "set")
    BY <1>a, TakeHas, ReadHas
  <2>4. /\ ~Has(Awaits(p), "set") /\ Has(Awaits(p), "RATE?") /\ Has(Awaits(p), "AUTO?")
        /\ Has(Awaits(p), "RANGE?")
    BY <2>2, <2>3, <1>c
  <2> QED  BY <2>2, <2>4, <1>4 DEF Fits, Reads, Has
<1>5. CASE p \in {"function", "rate", "auto-range"}
  <2>1. Awaits(p) = first \o ReadState
    BY <1>5 DEF Awaits, SetThenRead
  <2> HIDE DEF first
  <2>2. Awaits(p) \in Seq(Steps) /\ Awaits(p) # <<>>
        /\ \A s : Has(Awaits(p), s) <=> Has(first, s) \/ Has(ReadState, s)
    BY <2>1, <1>b, ReadHas, JoinHas
  <2>3. Has(Awaits(p), "RATE?") /\ Has(Awaits(p), "AUTO?") /\ Has(Awaits(p), "RANGE?")
    BY <2>2, ReadHas
  <2>4. ASSUME NEW i \in 1 .. Len(Awaits(p)), Awaits(p)[i] = "set"
        PROVE  i = 1
    <3> SUFFICES ASSUME i # 1 PROVE FALSE
      OBVIOUS
    <3>a. Len(ReadState) \in Nat
      BY ReadHas
    <3>b. Len(Awaits(p)) = Len(first) + Len(ReadState)
      BY <2>1, <1>b, ReadHas, JoinHas
    <3>1. Len(Awaits(p)) = 1 + Len(ReadState) /\ Len(ReadState) \in Nat
      BY <3>a, <3>b, <1>b
    <3>2. i - 1 \in 1 .. Len(ReadState)
      BY <3>1
    <3>3. Awaits(p)[i] = ReadState[i - 1]
      BY <2>1, <1>b, <3>1, <3>2, ReadHas, JoinHas
    <3>4. Has(ReadState, "set")
      BY <2>4, <3>2, <3>3 DEF Has
    <3> QED  BY <3>4, ReadHas
  <2> QED  BY <2>2, <2>3, <2>4, <1>5 DEF Fits, Reads
<1> QED  BY <1>1, <1>2, <1>3, <1>4, <1>5 DEF Reads

-----------------------------------------------------------------------------
(* The inductive invariant *)

Types ==
  /\ meter \in Settings
  /\ request \in [Clients -> Requests \cup {NoRequest}]
  /\ todo \in [Clients -> Seq(Steps)]
  /\ status \in [Clients -> {"none", "pending", "ok", "failed"}]
  /\ reading \in [Clients -> ReadingType]
  /\ state \in [Clients -> StateType]
  /\ since \in [Clients -> SUBSET Settings]

\* everything c has been told was so since its request began
Told(c) ==
  /\ reading[c].function # None => Had(c, "function", reading[c].function)
  /\ state[c].function # None => Had(c, "function", state[c].function)
  /\ state[c].rate # None => Had(c, "rate", state[c].rate)
  /\ state[c].auto # None => Had(c, "auto", state[c].auto)
  /\ state[c].range \notin {None, "unknown"} => Had(c, "function", state[c].range)

\* a pending request has an await left; when it is a change, nothing was read
Order(c) ==
  /\ todo[c] # <<>>
  /\ meter \in since[c]
  /\ \A i \in 1 .. Len(todo[c]) : todo[c][i] = "set" =>
       i = 1 /\ reading[c] = NoReading /\ state[c] = NoState

Expects(c, s) == Pending(c) /\ Has(todo[c], s)

\* every setting has been read or is still to be read
Complete(c) ==
  IF request[c].path \in Reads
    THEN /\ state[c].rate # None \/ Expects(c, "RATE?")
         /\ state[c].auto # None \/ Expects(c, "AUTO?")
         /\ state[c].range # None \/ Expects(c, "RANGE?")
    ELSE state[c].function = None /\ ~Has(todo[c], "FUNC?")

ClientInv(c) ==
  /\ Pending(c) => Order(c)
  /\ Pending(c) \/ Answered(c) => Told(c) /\ Complete(c)

SInv == Types /\ \A c \in Clients : ClientInv(c)

-----------------------------------------------------------------------------
(* It holds at the start, and it implies the property *)

\* Nobody has asked for anything.
LEMMA InitInv == Init => SInv
  BY MeterConstants DEF Init, SInv, Types, ClientInv, Pending, Answered, NoReading, NoState, ReadingType, StateType

\* An answered client has been told every setting, and all were so.
LEMMA InvImplies == SInv => ReadThrough
<1> SUFFICES ASSUME SInv, NEW c \in Clients, Answered(c)
             PROVE  /\ reading[c].function # None => Had(c, "function", reading[c].function)
                    /\ state[c].function # None =>
                         /\ \A k \in {"function", "rate", "auto"} : Had(c, k, state[c][k])
                         /\ state[c].range # "unknown" => Had(c, "function", state[c].range)
  BY DEF ReadThrough
<1>1. Told(c) /\ Complete(c) /\ ~Pending(c)
  BY DEF SInv, ClientInv, Answered, Pending
<1> QED  BY <1>1 DEF Told, Complete, Expects

-----------------------------------------------------------------------------
(* One await *)

\* An await takes one element off the list and leaves the other clients alone.
LEMMA DoesOf ==
  ASSUME Types, NEW c \in Clients, NEW s \in Steps, Does(c, s), Order(c)
  PROVE  /\ todo' \in [Clients -> Seq(Steps)]
         /\ status' \in [Clients -> {"none", "pending", "ok", "failed"}]
         /\ request' = request
         /\ \A d \in Clients \ {c} : todo'[d] = todo[d] /\ status'[d] = status[d]
         /\ status'[c] \in {"pending", "ok"}
         /\ status'[c] = "pending" => todo'[c] # <<>>
         /\ status'[c] = "ok" => \A x : Has(todo[c], x) => x = s
         /\ \A x : Has(todo'[c], x) => Has(todo[c], x)
         /\ \A x : Has(todo[c], x) /\ x # s => Has(todo'[c], x)
         /\ ~Has(todo'[c], "set")
         /\ Has(todo[c], s) /\ (s = "set" => reading[c] = NoReading /\ state[c] = NoState)
<1> DEFINE q == todo[c]
<1>1. q \in Seq(Steps) /\ q # <<>>
  BY DEF Types, Order
<1>2. todo' = [todo EXCEPT ![c] = Tail(q)] /\ Head(q) = s /\ request' = request /\ Pending(c)
  BY DEF Does
<1>3. status' = [status EXCEPT ![c] = IF Len(q) = 1 THEN "ok" ELSE @]
  BY DEF Does
<1>4. /\ Tail(q) \in Seq(Steps) /\ Len(Tail(q)) = Len(q) - 1
      /\ \A i \in 1 .. Len(q) - 1 : Tail(q)[i] = q[i + 1]
      /\ q[1] = s /\ Len(q) \in Nat \ {0}
  BY <1>1, <1>2, TailOf
<1>5. todo'[c] = Tail(q) /\ todo' \in [Clients -> Seq(Steps)]
      /\ \A d \in Clients \ {c} : todo'[d] = todo[d]
  BY <1>2, <1>4 DEF Types
<1>6. /\ status' \in [Clients -> {"none", "pending", "ok", "failed"}]
      /\ \A d \in Clients \ {c} : status'[d] = status[d]
      /\ status'[c] = IF Len(q) = 1 THEN "ok" ELSE "pending"
  BY <1>2, <1>3 DEF Types, Pending
<1>7. \A i \in 1 .. Len(q) - 1 : i + 1 \in 1 .. Len(q) /\ i + 1 # 1
  BY <1>4
<1>8. \A i \in 1 .. Len(q) : i = 1 \/ (i - 1 \in 1 .. Len(q) - 1 /\ (i - 1) + 1 = i)
  BY <1>4
<1> HIDE DEF q
<1>9. ASSUME NEW x, Has(Tail(q), x) PROVE Has(q, x) /\ x # "set"
  <2>1. PICK i \in 1 .. Len(q) - 1 : q[i + 1] = x
    BY <1>9, <1>4 DEF Has
  <2>2. q[i + 1] = "set" => i + 1 = 1
    BY <1>7 DEF Order, q
  <2> QED  BY <2>1, <2>2, <1>7 DEF Has
<1>10. ASSUME NEW x, Has(q, x), x # s PROVE Has(Tail(q), x)
  <2>1. PICK i \in 1 .. Len(q) : q[i] = x
    BY <1>10 DEF Has
  <2>2. i - 1 \in 1 .. Len(q) - 1 /\ Tail(q)[i - 1] = x
    BY <2>1, <1>4, <1>8, <1>10
  <2> QED  BY <2>2, <1>4 DEF Has
<1>11. Len(q) = 1 => \A x : Has(q, x) => x = s
  BY <1>4 DEF Has
<1>12. Len(q) # 1 => Tail(q) # <<>>
  <2>1. Len(<<>>) = 0
    OBVIOUS
  <2>2. Len(q) # 1 => Len(Tail(q)) # 0
    BY <1>4
  <2> QED  BY <2>1, <2>2
<1>13. Has(q, s) /\ (s = "set" => reading[c] = NoReading /\ state[c] = NoState)
  <2>1. 1 \in 1 .. Len(q)
    BY <1>4
  <2> QED  BY <2>1, <1>4 DEF Has, Order, q
<1> QED  BY <1>2, <1>5, <1>6, <1>9, <1>10, <1>11, <1>12, <1>13 DEF q

\* A client that does nothing keeps its invariant while its history grows.
LEMMA Still ==
  ASSUME NEW d \in Clients, ClientInv(d), status'[d] = status[d], todo'[d] = todo[d],
         request'[d] = request[d], reading'[d] = reading[d], state'[d] = state[d],
         since[d] \subseteq since'[d], Pending(d) => meter' \in since'[d]
  PROVE  ClientInv(d)'
<1>1. ASSUME NEW k, NEW v, Had(d, k, v) PROVE Had(d, k, v)'
  BY <1>1 DEF Had
<1>2. Told(d) => Told(d)'
  BY <1>1 DEF Told
<1>3. Complete(d) => Complete(d)'
  BY DEF Complete, Expects, Pending, Has
<1>4. Order(d) /\ Pending(d) => Order(d)'
  BY DEF Order
<1> QED  BY <1>2, <1>3, <1>4 DEF ClientInv, Pending, Answered

\* The client that takes a step keeps its invariant if what it is told is so,
\* and if the await that reads a setting really sets it.
LEMMA Moves ==
  ASSUME Types, NEW c \in Clients, NEW s \in Steps, Does(c, s), ClientInv(c),
         Told(c)', meter' \in since'[c],
         state'[c].rate # None \/ (state'[c].rate = state[c].rate /\ s # "RATE?"),
         state'[c].auto # None \/ (state'[c].auto = state[c].auto /\ s # "AUTO?"),
         state'[c].range # None \/ (state'[c].range = state[c].range /\ s # "RANGE?"),
         state'[c].function = state[c].function \/ s = "FUNC?",
         state[c].rate # None => state'[c].rate # None,
         state[c].auto # None => state'[c].auto # None,
         state[c].range # None => state'[c].range # None
  PROVE  ClientInv(c)'
<1>1. Pending(c) /\ Order(c) /\ Complete(c)
  BY DEF Does, ClientInv
<1>2. /\ request' = request
      /\ status'[c] \in {"pending", "ok"}
      /\ status'[c] = "pending" => todo'[c] # <<>>
      /\ status'[c] = "ok" => \A x : Has(todo[c], x) => x = s
      /\ \A x : Has(todo'[c], x) => Has(todo[c], x)
      /\ \A x : Has(todo[c], x) /\ x # s => Has(todo'[c], x)
      /\ ~Has(todo'[c], "set")
      /\ Has(todo[c], s)
  BY <1>1, DoesOf
<1>3. Pending(c)' => Order(c)'
  BY <1>2 DEF Order, Pending, Has
<1>4. ASSUME NEW x, x # s, Has(todo[c], x) PROVE Expects(c, x)'
  BY <1>2, <1>4 DEF Expects, Pending, Has
<1>5. Complete(c)'
  <2>1. CASE request[c].path \in Reads
    <3>1. /\ state[c].rate # None \/ Has(todo[c], "RATE?")
          /\ state[c].auto # None \/ Has(todo[c], "AUTO?")
          /\ state[c].range # None \/ Has(todo[c], "RANGE?")
      BY <1>1, <2>1 DEF Complete, Expects
    <3>2. state'[c].rate # None \/ Expects(c, "RATE?")'
      BY <3>1, <1>4
    <3>3. state'[c].auto # None \/ Expects(c, "AUTO?")'
      BY <3>1, <1>4
    <3>4. state'[c].range # None \/ Expects(c, "RANGE?")'
      BY <3>1, <1>4
    <3> QED  BY <3>2, <3>3, <3>4, <2>1, <1>2 DEF Complete
  <2>2. CASE request[c].path \notin Reads
    <3>1. state[c].function = None /\ ~Has(todo[c], "FUNC?")
      BY <1>1, <2>2 DEF Complete
    <3>2. state'[c].function = None /\ ~Has(todo'[c], "FUNC?")
      BY <3>1, <1>2
    <3> QED  BY <3>2, <2>2, <1>2 DEF Complete, Has
  <2> QED  BY <2>1, <2>2
<1> QED  BY <1>3, <1>5 DEF ClientInv

\* A step that does not change the meter only concerns the client that takes it.
LEMMA Rest ==
  ASSUME SInv, NEW c \in Clients, NEW s \in Steps, Does(c, s),
         meter' = meter, since' = since, ClientInv(c)',
         reading' \in [Clients -> ReadingType], state' \in [Clients -> StateType],
         \A d \in Clients \ {c} : reading'[d] = reading[d] /\ state'[d] = state[d]
  PROVE  SInv'
<1>1. Types /\ Order(c)
  BY DEF SInv, ClientInv, Does
<1>2. /\ todo' \in [Clients -> Seq(Steps)]
      /\ status' \in [Clients -> {"none", "pending", "ok", "failed"}]
      /\ request' = request
      /\ \A d \in Clients \ {c} : todo'[d] = todo[d] /\ status'[d] = status[d]
  BY <1>1, DoesOf
<1>3. Types'
  BY <1>1, <1>2 DEF Types
<1>4. ASSUME NEW d \in Clients \ {c} PROVE ClientInv(d)'
  <2>1. ClientInv(d) /\ (Pending(d) => meter' \in since'[d])
    BY DEF SInv, ClientInv, Order
  <2> QED  BY <1>2, <2>1, Still
<1> QED  BY <1>3, <1>4 DEF SInv

-----------------------------------------------------------------------------
(* The actions *)

\* FUNC1? and MEAS1? of a measurement.
LEMMA ReadingStep ==
  ASSUME SInv, NEW c \in Clients, ReadFunction(c) \/ Measure(c)
  PROVE  SInv'
<1>0. /\ Types /\ meter \in since[c] /\ Told(c) /\ ClientInv(c)
      /\ state \in [Clients -> StateType]
  BY DEF SInv, Types, ClientInv, Order, ReadFunction, Measure, Does
<1>1. CASE ReadFunction(c)
  <2> DEFINE new == [reading[c] EXCEPT !.function = meter.function]
  <2>1. /\ Does(c, "FUNC1?") /\ meter' = meter /\ since' = since
        /\ state' = state /\ reading' = [reading EXCEPT ![c] = new]
    BY <1>1, <1>1 DEF ReadFunction
  <2>a. /\ reading[c] \in ReadingType /\ meter.function \in Functions
        /\ meter.rate \in Rates /\ meter.auto \in AutoRanges
    BY <1>0 DEF Types, Settings
  <2>2. new \in ReadingType /\ new.function = meter.function
    BY <2>a, MeterConstants DEF ReadingType
  <2>3. /\ reading'[c] = new /\ reading' \in [Clients -> ReadingType]
        /\ \A d \in Clients \ {c} : reading'[d] = reading[d]
    BY <2>1, <2>2, <1>0 DEF Types
  <2> HIDE DEF new
  <2>4. Told(c)'
    BY <2>1, <2>2, <2>3, <1>0 DEF Told, Had
  <2>5. ClientInv(c)'
    BY <2>1, <2>2, <2>3, <2>4, <1>0, Moves DEF Steps
  <2> QED  BY <2>1, <2>3, <2>5, <1>0, Rest DEF Steps
<1>2. CASE Measure(c)
  <2>0. PICK v \in Values, ts \in Times : reading' = [reading EXCEPT ![c].value = v, ![c].ts = ts, ![c].of = meter.function]
    BY <1>2 DEF Measure
  <2> DEFINE new == [reading[c] EXCEPT !.value = v, !.ts = ts, !.of = meter.function]
  <2>1. /\ Does(c, "MEAS1?") /\ meter' = meter /\ since' = since
        /\ state' = state /\ reading' = [reading EXCEPT ![c] = new]
    BY <2>0, <1>2 DEF Measure
  <2>a. /\ reading[c] \in ReadingType /\ meter.function \in Functions
        /\ meter.rate \in Rates /\ meter.auto \in AutoRanges
    BY <1>0 DEF Types, Settings
  <2>2. new \in ReadingType /\ new.function = reading[c].function
    BY <2>a, <2>0, MeterConstants DEF ReadingType
  <2>3. /\ reading'[c] = new /\ reading' \in [Clients -> ReadingType]
        /\ \A d \in Clients \ {c} : reading'[d] = reading[d]
    BY <2>1, <2>2, <1>0 DEF Types
  <2> HIDE DEF new
  <2>4. Told(c)'
    BY <2>1, <2>2, <2>3, <1>0 DEF Told, Had
  <2>5. ClientInv(c)'
    BY <2>1, <2>2, <2>3, <2>4, <1>0, Moves DEF Steps
  <2> QED  BY <2>1, <2>3, <2>5, <1>0, Rest DEF Steps
<1> QED  BY <1>1, <1>2

\* The four queries of read_state.
LEMMA SettingsStep ==
  ASSUME SInv, NEW c \in Clients,
         GetFunction(c) \/ GetRate(c) \/ GetAutoRange(c) \/ GetRange(c)
  PROVE  SInv'
<1>0. /\ Types /\ meter \in since[c] /\ Told(c) /\ ClientInv(c)
      /\ reading \in [Clients -> ReadingType]
  BY DEF SInv, Types, ClientInv, Order, GetFunction, GetRate, GetAutoRange, GetRange, Does
<1>1. CASE GetFunction(c)
  <2> DEFINE new == [state[c] EXCEPT !.function = meter.function]
  <2>1. /\ Does(c, "FUNC?") /\ meter' = meter /\ since' = since
        /\ reading' = reading /\ state' = [state EXCEPT ![c] = new]
    BY <1>1, <1>1 DEF GetFunction
  <2>a. /\ state[c] \in StateType /\ meter.function \in Functions
        /\ meter.rate \in Rates /\ meter.auto \in AutoRanges
    BY <1>0 DEF Types, Settings
  <2>2. new \in StateType /\ new.function = meter.function /\ meter.function # None
        /\ new.rate = state[c].rate
        /\ new.auto = state[c].auto
        /\ new.range = state[c].range
    BY <2>a, MeterConstants DEF StateType
  <2>3. /\ state'[c] = new /\ state' \in [Clients -> StateType]
        /\ \A d \in Clients \ {c} : state'[d] = state[d]
    BY <2>1, <2>2, <1>0 DEF Types
  <2> HIDE DEF new
  <2>4. Told(c)'
    BY <2>1, <2>2, <2>3, <1>0 DEF Told, Had
  <2>5. ClientInv(c)'
    BY <2>1, <2>2, <2>3, <2>4, <1>0, Moves DEF Steps
  <2> QED  BY <2>1, <2>3, <2>5, <1>0, Rest DEF Steps
<1>2. CASE GetRate(c)
  <2> DEFINE new == [state[c] EXCEPT !.rate = meter.rate]
  <2>1. /\ Does(c, "RATE?") /\ meter' = meter /\ since' = since
        /\ reading' = reading /\ state' = [state EXCEPT ![c] = new]
    BY <1>2, <1>2 DEF GetRate
  <2>a. /\ state[c] \in StateType /\ meter.function \in Functions
        /\ meter.rate \in Rates /\ meter.auto \in AutoRanges
    BY <1>0 DEF Types, Settings
  <2>2. new \in StateType /\ new.rate = meter.rate /\ meter.rate # None
        /\ new.function = state[c].function
        /\ new.auto = state[c].auto
        /\ new.range = state[c].range
    BY <2>a, MeterConstants DEF StateType
  <2>3. /\ state'[c] = new /\ state' \in [Clients -> StateType]
        /\ \A d \in Clients \ {c} : state'[d] = state[d]
    BY <2>1, <2>2, <1>0 DEF Types
  <2> HIDE DEF new
  <2>4. Told(c)'
    BY <2>1, <2>2, <2>3, <1>0 DEF Told, Had
  <2>5. ClientInv(c)'
    BY <2>1, <2>2, <2>3, <2>4, <1>0, Moves DEF Steps
  <2> QED  BY <2>1, <2>3, <2>5, <1>0, Rest DEF Steps
<1>3. CASE GetAutoRange(c)
  <2> DEFINE new == [state[c] EXCEPT !.auto = meter.auto]
  <2>1. /\ Does(c, "AUTO?") /\ meter' = meter /\ since' = since
        /\ reading' = reading /\ state' = [state EXCEPT ![c] = new]
    BY <1>3, <1>3 DEF GetAutoRange
  <2>a. /\ state[c] \in StateType /\ meter.function \in Functions
        /\ meter.rate \in Rates /\ meter.auto \in AutoRanges
    BY <1>0 DEF Types, Settings
  <2>2. new \in StateType /\ new.auto = meter.auto /\ meter.auto # None
        /\ new.function = state[c].function
        /\ new.rate = state[c].rate
        /\ new.range = state[c].range
    BY <2>a, MeterConstants DEF StateType
  <2>3. /\ state'[c] = new /\ state' \in [Clients -> StateType]
        /\ \A d \in Clients \ {c} : state'[d] = state[d]
    BY <2>1, <2>2, <1>0 DEF Types
  <2> HIDE DEF new
  <2>4. Told(c)'
    BY <2>1, <2>2, <2>3, <1>0 DEF Told, Had
  <2>5. ClientInv(c)'
    BY <2>1, <2>2, <2>3, <2>4, <1>0, Moves DEF Steps
  <2> QED  BY <2>1, <2>3, <2>5, <1>0, Rest DEF Steps
<1>4. CASE GetRange(c)
  <2>0. PICK r \in {meter.function, "unknown"} : 
         /\ r # "unknown" => {state[c].function, meter.function} \cap NoRangeQuery = {}
         /\ state' = [state EXCEPT ![c].range = r]
    BY <1>4 DEF GetRange
  <2> DEFINE new == [state[c] EXCEPT !.range = r]
  <2>1. /\ Does(c, "RANGE?") /\ meter' = meter /\ since' = since
        /\ reading' = reading /\ state' = [state EXCEPT ![c] = new]
    BY <2>0, <1>4 DEF GetRange
  <2>a. /\ state[c] \in StateType /\ meter.function \in Functions
        /\ meter.rate \in Rates /\ meter.auto \in AutoRanges
    BY <1>0 DEF Types, Settings
  <2>2. new \in StateType /\ new.range = r /\ r # None
        /\ new.function = state[c].function
        /\ new.rate = state[c].rate
        /\ new.auto = state[c].auto
    BY <2>a, <2>0, MeterConstants DEF StateType
  <2>3. /\ state'[c] = new /\ state' \in [Clients -> StateType]
        /\ \A d \in Clients \ {c} : state'[d] = state[d]
    BY <2>1, <2>2, <1>0 DEF Types
  <2> HIDE DEF new
  <2>4. Told(c)'
    BY <2>1, <2>2, <2>3, <1>0 DEF Told, Had
  <2>5. ClientInv(c)'
    BY <2>1, <2>2, <2>3, <2>4, <1>0, Moves DEF Steps
  <2> QED  BY <2>1, <2>3, <2>5, <1>0, Rest DEF Steps
<1> QED  BY <1>1, <1>2, <1>3, <1>4

\* Statements of the database.
LEMMA TableStep ==
  ASSUME SInv, NEW c \in Clients, Store(c)
  PROVE  SInv'
<1>0. PICK s \in {"insert", "commit", "aggregate"} : Does(c, s)
  BY DEF Store, Insert, Commit, Summarise
<1>1. meter' = meter /\ since' = since /\ reading' = reading /\ state' = state
  BY DEF Store, Insert, Commit, Summarise, replyVars
<1>2. /\ Types /\ ClientInv(c) /\ Told(c) /\ meter \in since[c] /\ s \in Steps
      /\ reading \in [Clients -> ReadingType] /\ state \in [Clients -> StateType]
  BY <1>0 DEF SInv, Types, ClientInv, Order, Does, Steps
<1>3. Told(c)'
  BY <1>1, <1>2 DEF Told, Had
<1>4. ClientInv(c)'
  BY <1>0, <1>1, <1>2, <1>3, Moves
<1> QED  BY <1>0, <1>1, <1>2, <1>4, Rest

\* A change leaves the meter in one of its settings.
LEMMA ChangedOf ==
  ASSUME NEW r \in Requests \cup {NoRequest}, meter \in Settings
  PROVE  Changed(r) \in Settings
<1>1. CASE r.path = "function"
  <2>1. r.arg \in Functions
    BY <1>1 DEF Requests, NoRequest
  <2> QED  BY <1>1, <2>1 DEF Changed, Settings
<1>2. CASE r.path = "rate"
  <2>1. r.arg \in Rates
    BY <1>2 DEF Requests, NoRequest
  <2> QED  BY <1>2, <2>1 DEF Changed, Settings
<1>3. CASE r.path \notin {"function", "rate"}
  BY <1>3, MeterConstants DEF Changed, Settings
<1> QED  BY <1>1, <1>2, <1>3

\* A change of the meter extends the history of every pending request and
\* starts that of the client that made it.
LEMMA BecomesOf ==
  ASSUME Types, NEW m \in Settings, NEW c, Becomes(m, c)
  PROVE  /\ meter' \in Settings /\ since' \in [Clients -> SUBSET Settings]
         /\ c \in Clients => meter' \in since'[c]
         /\ \A d \in Clients : d # c =>
              since[d] \subseteq since'[d] /\ (Pending(d) => meter' \in since'[d])
  BY DEF Becomes, Types

\* A change at the front panel.
LEMMA KnobStep == SInv /\ TurnKnob => SInv'
<1> SUFFICES ASSUME SInv, TurnKnob PROVE SInv'
  OBVIOUS
<1>1. PICK m \in Settings : Becomes(m, None)
  BY DEF TurnKnob
<1>2. /\ request' = request /\ todo' = todo /\ status' = status
      /\ reading' = reading /\ state' = state
  BY DEF TurnKnob, replyVars
<1>3. Types /\ None \notin Clients
  BY MeterConstants DEF SInv
<1>4. /\ meter' \in Settings /\ since' \in [Clients -> SUBSET Settings]
      /\ \A d \in Clients : since[d] \subseteq since'[d] /\ (Pending(d) => meter' \in since'[d])
  BY <1>1, <1>3, BecomesOf
<1>5. Types'
  BY <1>2, <1>3, <1>4 DEF Types
<1>6. ASSUME NEW d \in Clients PROVE ClientInv(d)'
  BY <1>2, <1>4, Still DEF SInv
<1> QED  BY <1>5, <1>6 DEF SInv

\* A new request.
LEMMA RequestStep ==
  ASSUME SInv, NEW c \in Clients, Request(c)
  PROVE  SInv'
<1>1. PICK r \in Requests :
        /\ request' = [request EXCEPT ![c] = r]
        /\ todo' = [todo EXCEPT ![c] = Awaits(r.path)]
  BY DEF Request
<1>2. /\ status' = [status EXCEPT ![c] = "pending"]
      /\ reading' = [reading EXCEPT ![c] = NoReading]
      /\ state' = [state EXCEPT ![c] = NoState]
      /\ since' = [since EXCEPT ![c] = {meter}]
      /\ meter' = meter
  BY DEF Request
<1>3. r.path \in Reads \cup {"measurement", "smoothed"}
  BY DEF Requests, Reads
<1>4. Fits(r.path, Awaits(r.path))
  BY <1>3, AwaitsOf
<1>5. Types
  BY DEF SInv
<1>6. NoReading \in ReadingType /\ NoState \in StateType
  BY DEF NoReading, NoState, ReadingType, StateType
<1>7. Types'
  BY <1>1, <1>2, <1>4, <1>5, <1>6 DEF Types, Fits
<1>8. /\ todo'[c] = Awaits(r.path) /\ request'[c] = r /\ status'[c] = "pending"
      /\ reading'[c] = NoReading /\ state'[c] = NoState /\ meter' \in since'[c]
  BY <1>1, <1>2, <1>5 DEF Types
<1>9. ClientInv(c)'
  <2>1. Order(c)'
    BY <1>4, <1>8 DEF Order, Fits
  <2>2. Told(c)'
    BY <1>8 DEF Told, NoReading, NoState
  <2>3. Complete(c)'
    BY <1>4, <1>8 DEF Complete, Expects, Pending, Fits, NoState, Has
  <2> QED  BY <2>1, <2>2, <2>3 DEF ClientInv
<1>10. ASSUME NEW d \in Clients \ {c} PROVE ClientInv(d)'
  <2>1. /\ status'[d] = status[d] /\ todo'[d] = todo[d] /\ request'[d] = request[d]
        /\ reading'[d] = reading[d] /\ state'[d] = state[d] /\ since'[d] = since[d]
    BY <1>1, <1>2, <1>5 DEF Types
  <2>2. ClientInv(d) /\ (Pending(d) => meter' \in since'[d])
    BY <1>2, <2>1 DEF SInv, ClientInv, Order
  <2> QED  BY <2>1, <2>2, Still
<1> QED  BY <1>7, <1>9, <1>10 DEF SInv

\* A control endpoint's change.
LEMMA SetStep ==
  ASSUME SInv, NEW c \in Clients, Set(c)
  PROVE  SInv'
<1>1. /\ Does(c, "set") /\ Becomes(Changed(request[c]), c)
      /\ reading' = reading /\ state' = state
  BY DEF Set, replyVars
<1>2. Types /\ ClientInv(c) /\ Order(c) /\ "set" \in Steps
  BY <1>1 DEF SInv, ClientInv, Does, Steps
<1>4. /\ todo' \in [Clients -> Seq(Steps)]
      /\ status' \in [Clients -> {"none", "pending", "ok", "failed"}]
      /\ request' = request
      /\ \A d \in Clients \ {c} : todo'[d] = todo[d] /\ status'[d] = status[d]
      /\ reading[c] = NoReading /\ state[c] = NoState
  BY <1>1, <1>2, DoesOf
<1>5. Changed(request[c]) \in Settings
  BY <1>2, ChangedOf DEF Types
<1>6. /\ meter' \in Settings /\ since' \in [Clients -> SUBSET Settings]
      /\ meter' \in since'[c]
      /\ \A d \in Clients \ {c} :
           since[d] \subseteq since'[d] /\ (Pending(d) => meter' \in since'[d])
  BY <1>1, <1>2, <1>5, BecomesOf
<1>7. Types'
  BY <1>1, <1>2, <1>4, <1>6 DEF Types
<1>8. Told(c)'
  BY <1>1, <1>4 DEF Told, NoReading, NoState
<1>9. ClientInv(c)'
  BY <1>1, <1>2, <1>6, <1>8, Moves DEF Steps
<1>10. ASSUME NEW d \in Clients \ {c} PROVE ClientInv(d)'
  BY <1>1, <1>4, <1>6, Still DEF SInv
<1> QED  BY <1>7, <1>9, <1>10 DEF SInv

\* A request that fails, its change made or not.
LEMMA FailStep ==
  ASSUME SInv, NEW c \in Clients, Fail(c)
  PROVE  SInv'
<1>1. /\ status' = [status EXCEPT ![c] = "failed"]
      /\ todo' = [todo EXCEPT ![c] = <<>>]
      /\ request' = request /\ reading' = reading /\ state' = state
      /\ (meter' = meter /\ since' = since) \/ Becomes(Changed(request[c]), c)
  BY DEF Fail, replyVars
<1>2. Types /\ Changed(request[c]) \in Settings
  BY ChangedOf DEF SInv, Types
<1>3. /\ meter' \in Settings /\ since' \in [Clients -> SUBSET Settings]
      /\ \A d \in Clients \ {c} :
           since[d] \subseteq since'[d] /\ (Pending(d) => meter' \in since'[d])
  <2>1. CASE meter' = meter /\ since' = since
    BY <2>1, <1>2 DEF SInv, Types, ClientInv, Order
  <2>2. CASE Becomes(Changed(request[c]), c)
    BY <2>2, <1>2, BecomesOf
  <2> QED  BY <1>1, <2>1, <2>2
<1>4. <<>> \in Seq(Steps)
  OBVIOUS
<1>5. Types'
  BY <1>1, <1>2, <1>3, <1>4 DEF Types
<1>6. ClientInv(c)'
  BY <1>1, <1>2 DEF ClientInv, Pending, Answered, Types
<1>7. ASSUME NEW d \in Clients \ {c} PROVE ClientInv(d)'
  <2>1. status'[d] = status[d] /\ todo'[d] = todo[d]
    BY <1>1, <1>2 DEF Types
  <2> QED  BY <1>1, <1>3, <2>1, Still DEF SInv
<1> QED  BY <1>5, <1>6, <1>7 DEF SInv

\* A crash of the process.
LEMMA CrashStep == SInv /\ Crash => SInv'
<1> SUFFICES ASSUME SInv, Crash PROVE SInv'
  OBVIOUS
<1>1. /\ status' = [c \in Clients |-> IF Pending(c) THEN "failed" ELSE status[c]]
      /\ todo' = [c \in Clients |-> <<>>]
      /\ meter' = meter /\ request' = request /\ reading' = reading
      /\ state' = state /\ since' = since
  BY DEF Crash, replyVars
<1>2. <<>> \in Seq(Steps) /\ Len(<<>>) = 0
  OBVIOUS
<1>3. Types'
  BY <1>1, <1>2 DEF SInv, Types
<1>4. ASSUME NEW c \in Clients PROVE ClientInv(c)'
  <2>1. ~Pending(c)' /\ (Answered(c)' => Answered(c) /\ ~Pending(c))
    BY <1>1 DEF Pending, Answered
  <2>2. Answered(c) /\ ~Pending(c) => Told(c) /\ Complete(c)
    BY DEF SInv, ClientInv
  <2>3. Told(c) => Told(c)'
    BY <1>1 DEF Told, Had
  <2>4. ~Pending(c) /\ Complete(c) => Complete(c)'
    BY <1>1, <1>2 DEF Complete, Expects, Has
  <2> QED  BY <2>1, <2>2, <2>3, <2>4 DEF ClientInv
<1> QED  BY <1>3, <1>4 DEF SInv

\* Every step preserves the invariant.
LEMMA NextInv == SInv /\ [Next]_vars => SInv'
<1> SUFFICES ASSUME SInv, [Next]_vars PROVE SInv'
  OBVIOUS
<1>1. ASSUME NEW c \in Clients, Request(c) \/ Transact(c) \/ Store(c) \/ Fail(c)
      PROVE  SInv'
  BY <1>1, RequestStep, ReadingStep, SettingsStep, SetStep, TableStep, FailStep DEF Transact
<1>2. CASE TurnKnob
  BY <1>2, KnobStep
<1>3. CASE Crash
  BY <1>3, CrashStep
<1>4. CASE UNCHANGED vars
  <2>1. Types'
    BY <1>4 DEF vars, replyVars, SInv, Types
  <2>2. ASSUME NEW c \in Clients PROVE ClientInv(c)'
    BY <1>4, Still DEF SInv, vars, replyVars, ClientInv, Order
  <2> QED  BY <2>1, <2>2 DEF SInv
<1> QED  BY <1>1, <1>2, <1>3, <1>4 DEF Next

\* Every setting in a reply was the meter's while the request ran, and in the
\* reply to a change not before the change took effect: the driver trusts no
\* cache and the control endpoints verify after they write.
THEOREM ReadsThrough == Spec => []ReadThrough
<1>1. Spec => []SInv
  BY InitInv, NextInv, PTL DEF Spec
<1> QED  BY <1>1, InvImplies, PTL

=============================================================================
