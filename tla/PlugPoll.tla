------------------------------ MODULE PlugPoll ------------------------------
(***************************************************************************)
(* Polling the plugs in time (shelly.py: fetch_async; app.py: poll, accept, *)
(* expire): connecting, an answer that may trickle, redirects and digest   *)
(* rounds, the timeouts of httpx and the total timeout around them, the    *)
(* wait for the lock behind a slow disk, and the sleep between two polls.  *)
(* MeterRuntime has what these steps do to the state; here a poll yields a *)
(* reading or fails.                                                       *)
(*                                                                         *)
(* Tick is one unit of time.  The event loop is prompt: time does not pass *)
(* while a task can run.  How long a save takes is open.                   *)
(***************************************************************************)
EXTENDS Integers, Sequences

CONSTANTS
    Plugs,
    Connect, Read,      \* HTTP_CONNECT_TIMEOUT_SECONDS, HTTP_READ_TIMEOUT_SECONDS
    Total,              \* HTTP_TOTAL_TIMEOUT_SECONDS, or Unset
    Unset,
    Interval,           \* POLL_INTERVAL_SECONDS
    Stale,              \* STALE_AFTER_SECONDS
    Rounds,             \* bound: further requests of a poll, 30 redirects in the code
    Quick,              \* an answer within Quick is no reason to lose a value
    NoReading

\* load_config demands the last but one; SteadyIsShown needs more.
ASSUME PollAssumption ==
    /\ {Connect, Read, Interval, Stale} \subseteq Nat \ {0}
    /\ Total \in (Nat \ {0}) \cup {Unset}
    /\ Rounds \in Nat /\ Quick \in Nat
    /\ Stale >= Interval
    /\ NoReading \notin [age : Nat, left : Nat]

VARIABLES
    stage,      \* "sleep", "connect", "exchange", "queued" or "persist"
    timer,      \* ticks until the sleep, or the timeout of httpx, ends
    budget,     \* ticks until asyncio.timeout(total_timeout) ends
    rounds,     \* further requests this poll may still make
    pending,    \* the reading of this poll: ticks since the plug measured it,
                \* ticks until it is stale
    queue,      \* the polls that hold (first) or wait for the lock
    latest,     \* the last accepted reading
    shown,      \* the bank shows it
    waited,     \* history: the reading of this poll had to wait for the lock
    excuse      \* history: since the last accepted reading a poll has failed, or
                \* was slow or delayed

pollVars == <<stage, timer, budget, rounds, pending>>
historyVars == <<waited, excuse>>
vars == <<pollVars, queue, latest, shown, historyVars>>

Min2(a, b) == IF a < b THEN a ELSE b

Less(ticks) == IF ticks = 0 THEN 0 ELSE ticks - 1

TotalTimeout == IF Total = Unset THEN 2 * (Connect + Read) ELSE Total

AgeMax == TotalTimeout + Stale + 1      \* ages are not told apart beyond it

\* A reading one tick later.
Older(r) ==
    IF r = NoReading THEN r
    ELSE [age |-> Min2(r.age + 1, AgeMax), left |-> Less(r.left)]

Fresh(readings) == {n \in Plugs : readings[n] # NoReading /\ readings[n].left > 0}

Init ==
    /\ stage = [n \in Plugs |-> "sleep"] /\ timer = [n \in Plugs |-> 0]
    /\ budget = [n \in Plugs |-> 0] /\ rounds = [n \in Plugs |-> 0]
    /\ pending = [n \in Plugs |-> NoReading] /\ queue = <<>>
    /\ latest = [n \in Plugs |-> NoReading] /\ shown = {}
    /\ waited = [n \in Plugs |-> FALSE] /\ excuse = [n \in Plugs |-> FALSE]
-----------------------------------------------------------------------------
(* fetch_async() *)

Fetching(n) == stage[n] \in {"connect", "exchange"}

\* The next request of a poll: max_keepalive_connections = 0, so it connects.
Request(n, left) ==
    /\ stage' = [stage EXCEPT ![n] = "connect"]
    /\ timer' = [timer EXCEPT ![n] = Connect]
    /\ rounds' = [rounds EXCEPT ![n] = left]
    /\ pending' = [pending EXCEPT ![n] = NoReading]

StartPoll(n) ==
    /\ stage[n] = "sleep" /\ timer[n] = 0
    /\ Request(n, Rounds)
    /\ budget' = [budget EXCEPT ![n] = TotalTimeout]
    /\ UNCHANGED <<queue, latest, shown, historyVars>>

Connected(n) ==
    /\ stage[n] = "connect"
    /\ stage' = [stage EXCEPT ![n] = "exchange"]
    /\ timer' = [timer EXCEPT ![n] = Read]
    /\ UNCHANGED <<budget, rounds, pending, queue, latest, shown, historyVars>>

\* What the plug has measured when the first byte of its answer comes.
Arriving(n) == IF pending[n] = NoReading THEN 0 ELSE pending[n].age

\* A part of the answer, however small: the read timeout starts anew.
Trickle(n) ==
    /\ stage[n] = "exchange"
    /\ timer' = [timer EXCEPT ![n] = Read]
    /\ pending' = [pending EXCEPT ![n] = [age |-> Arriving(n), left |-> 0]]
    /\ UNCHANGED <<stage, budget, rounds, queue, latest, shown, historyVars>>

\* A redirect, or the challenge of the digest authentication.
Again(n) ==
    /\ stage[n] = "exchange" /\ rounds[n] > 0
    /\ Request(n, rounds[n] - 1)
    /\ UNCHANGED <<budget, queue, latest, shown, historyVars>>

\* Mutant of Received: the time the poll started counts.
ReceivedAtStart(n) == Less(Stale - (TotalTimeout - budget[n]))

\* received = reading.monotonic_timestamp, taken when the payload is parsed.
Received(n) == Stale

\* The answer is complete and valid; accept() asks for the lock.
Complete(n) ==
    /\ stage[n] = "exchange"
    /\ stage' = [stage EXCEPT ![n] = "queued"]
    /\ pending' = [pending EXCEPT ![n] = [age |-> Arriving(n), left |-> Received(n)]]
    /\ timer' = [timer EXCEPT ![n] = 0]
    /\ queue' = Append(queue, n)
    /\ excuse' = [excuse EXCEPT ![n] = @ \/ TotalTimeout - budget[n] > Quick]
    /\ budget' = [budget EXCEPT ![n] = 0]
    /\ waited' = [waited EXCEPT ![n] = FALSE]
    /\ UNCHANGED <<rounds, latest, shown>>

\* The poll is over; the pause starts now.
Pause(n) ==
    /\ stage' = [stage EXCEPT ![n] = "sleep"]
    /\ timer' = [timer EXCEPT ![n] = Interval]
    /\ budget' = [budget EXCEPT ![n] = 0] /\ rounds' = [rounds EXCEPT ![n] = 0]
    /\ pending' = [pending EXCEPT ![n] = NoReading]

\* ShellyError: no connection, an error status, an unusable payload.
FetchFails(n) ==
    /\ Fetching(n)
    /\ Pause(n)
    /\ excuse' = [excuse EXCEPT ![n] = TRUE]
    /\ UNCHANGED <<queue, latest, shown, waited>>

\* Mutant of BudgetSpent: there is no asyncio.timeout.
BudgetSpentNever(n) == FALSE

BudgetSpent(n) == Fetching(n) /\ budget[n] = 0

TimedOut(n) == BudgetSpent(n) \/ (Fetching(n) /\ timer[n] = 0)

TimesOut(n) == TimedOut(n) /\ FetchFails(n)
-----------------------------------------------------------------------------
(* accept(), with the lock *)

\* publish()
Publish(readings) == shown' = Fresh(readings)

HasLock(n) == queue # <<>> /\ Head(queue) = n

\* Mutant of Accepted: the reading is as new as its turn.
AcceptedNow(n) == [pending[n] EXCEPT !.left = Stale]

Accepted(n) == pending[n]

\* The reading and the energy do not fit the registers.
Reject(n) ==
    /\ stage[n] = "queued" /\ HasLock(n)
    /\ queue' = Tail(queue)
    /\ Pause(n)
    /\ excuse' = [excuse EXCEPT ![n] = TRUE]
    /\ UNCHANGED <<latest, shown, waited>>

\* They do; the energy is saved if it has changed.
Accept(n) ==
    /\ stage[n] = "queued" /\ HasLock(n)
    /\ latest' = [latest EXCEPT ![n] = Accepted(n)]
    /\ Publish(latest')
    /\ excuse' = [excuse EXCEPT ![n] = waited[n]]
    /\ UNCHANGED waited
    /\ \/ /\ stage' = [stage EXCEPT ![n] = "persist"]
          /\ UNCHANGED <<timer, budget, rounds, pending, queue>>
       \/ queue' = Tail(queue) /\ Pause(n)

Persisted(n) ==
    /\ stage[n] = "persist" /\ HasLock(n)
    /\ queue' = Tail(queue)
    /\ Pause(n)
    /\ Publish(latest)
    /\ UNCHANGED <<latest, historyVars>>

\* expire(): never waits for the lock.
Expire ==
    /\ shown # Fresh(latest)
    /\ Publish(latest)
    /\ UNCHANGED <<pollVars, queue, latest, historyVars>>
-----------------------------------------------------------------------------
(* Time *)

Due ==
    \/ shown # Fresh(latest)
    \/ \E n \in Plugs : \/ stage[n] = "sleep" /\ timer[n] = 0
                        \/ TimedOut(n)
                        \/ stage[n] = "queued" /\ HasLock(n)

Tick ==
    /\ ~Due
    /\ timer' = [n \in Plugs |-> Less(timer[n])]
    /\ budget' = [n \in Plugs |-> Less(budget[n])]
    /\ pending' = [n \in Plugs |-> Older(pending[n])]
    /\ latest' = [n \in Plugs |-> Older(latest[n])]
    /\ waited' = [n \in Plugs |-> waited[n] \/ stage[n] = "queued"]
    /\ excuse' = [n \in Plugs |-> excuse[n] \/ stage[n] \in {"queued", "persist"}
                                            \/ (Fetching(n) /\ TotalTimeout - budget[n] >= Quick)]
    /\ UNCHANGED <<stage, rounds, queue, shown>>

Next ==
    \/ \E n \in Plugs :
          \/ StartPoll(n) \/ Connected(n) \/ Trickle(n) \/ Again(n) \/ Complete(n)
          \/ FetchFails(n) \/ TimesOut(n)
          \/ Accept(n) \/ Reject(n) \/ Persisted(n)
    \/ Expire \/ Tick

\* Time passes, the event loop runs what is ready, and every write ends.
Fairness ==
    /\ WF_vars(Tick) /\ WF_vars(Expire)
    /\ \A n \in Plugs :
          /\ WF_vars(StartPoll(n)) /\ WF_vars(TimesOut(n))
          /\ WF_vars(Accept(n) \/ Reject(n)) /\ WF_vars(Persisted(n))

Spec == Init /\ [][Next]_vars /\ Fairness
-----------------------------------------------------------------------------
(* Properties *)

Readings == [age : 0..AgeMax, left : 0..Stale]

\* The variables have their types.
TypeOK ==
    /\ stage \in [Plugs -> {"sleep", "connect", "exchange", "queued", "persist"}]
    /\ timer \in [Plugs -> Nat]
    /\ budget \in [Plugs -> 0..TotalTimeout] /\ rounds \in [Plugs -> 0..Rounds]
    /\ pending \in [Plugs -> Readings \cup {NoReading}]
    /\ latest \in [Plugs -> Readings \cup {NoReading}]
    /\ queue \in Seq(Plugs) /\ shown \subseteq Plugs
    /\ waited \in [Plugs -> BOOLEAN] /\ excuse \in [Plugs -> BOOLEAN]

\* Power that clients see was measured no longer ago than the total timeout and
\* STALE_AFTER_SECONDS together, though the answer trickled, was one of several,
\* and waited for the lock behind a disk that hangs (README: "auch eine
\* troepfelnde Antwort wird nach diesem Limit abgebrochen").
ShownIsRecent ==
    \A n \in shown : latest[n].age <= TotalTimeout + Stale

\* A plug's value vanishes for a reason only: polls that failed, were slower
\* than Quick, or waited for the lock or the disk.
SteadyIsShown ==
    [][Quick + Interval < Stale =>
           \A n \in shown \ shown' : excuse[n]]_vars

\* No plug, whatever it sends or does not send, stops its own polls or those
\* of others.
PollsGoOn == \A n \in Plugs : []<>(stage[n] = "sleep") /\ []<>(stage[n] # "sleep")
=============================================================================
