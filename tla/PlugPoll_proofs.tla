-------------------------- MODULE PlugPoll_proofs --------------------------
(***************************************************************************)
(* What clients see is recent, and a steady plug stays shown, whatever the *)
(* timeouts, the number of plugs and the number of requests a poll makes.  *)
(*                                                                         *)
(* While a poll runs, the age of its measurement and what is left of the   *)
(* total timeout never exceed that timeout together; from then on age and  *)
(* remaining validity grow and shrink at the same pace.  What is left of a *)
(* reading covers the pause and a quick answer after it.                   *)
(***************************************************************************)
EXTENDS PlugPoll, TLAPS

\* A measurement that is still arriving is younger than its poll.
ArrivingBound ==
    \A n \in Plugs :
        /\ stage[n] = "connect" => pending[n] = NoReading
        /\ pending[n] # NoReading /\ stage[n] = "exchange" =>
               pending[n].age + budget[n] <= TotalTimeout /\ pending[n].left = 0

Valid(r) == r # NoReading /\ r.left > 0 => r.age + r.left <= TotalTimeout + Stale

\* A reading that is not stale yet will not be too old when it is.
ValidBound == \A n \in Plugs : Valid(pending[n]) /\ Valid(latest[n])

ShownIsLatest == \A n \in shown : latest[n] # NoReading

Inv == TypeOK /\ ArrivingBound /\ ValidBound /\ ShownIsLatest /\ ShownIsRecent

LEMMA TotalTimeoutPositive == TotalTimeout \in Nat \ {0} /\ AgeMax \in Nat
BY PollAssumption DEF TotalTimeout, AgeMax

\* A tick keeps a reading a reading, no longer valid than before.
LEMMA OlderReading ==
    ASSUME NEW r \in Readings \cup {NoReading}
    PROVE  /\ Older(r) \in Readings \cup {NoReading}
           /\ Older(r) = NoReading <=> r = NoReading
           /\ Valid(r) => Valid(Older(r))
<1>1. CASE r = NoReading
  BY <1>1 DEF Older
<1>2. CASE r # NoReading
  <2>1. /\ r \in Readings /\ r.age \in 0..AgeMax /\ r.left \in 0..Stale
        /\ Older(r) = [age |-> Min2(r.age + 1, AgeMax), left |-> Less(r.left)]
    BY <1>2 DEF Readings, Older
  <2>2. /\ Min2(r.age + 1, AgeMax) \in 0..AgeMax /\ Min2(r.age + 1, AgeMax) <= r.age + 1
        /\ Less(r.left) \in 0..Stale /\ (Less(r.left) > 0 => Less(r.left) = r.left - 1)
        /\ (Less(r.left) > 0 => r.left > 0)
    BY <2>1, TotalTimeoutPositive, PollAssumption DEF Min2, Less
  <2>3. Older(r) \in Readings /\ Older(r) # NoReading
    BY <2>1, <2>2, TotalTimeoutPositive, PollAssumption DEF Readings
  <2>4. Valid(r) => Valid(Older(r))
    BY <1>2, <2>1, <2>2, TotalTimeoutPositive, PollAssumption DEF Valid
  <2> QED BY <1>2, <2>3, <2>4
<1> QED BY <1>1, <1>2

LEMMA ArrivingAge ==
    ASSUME TypeOK, ArrivingBound, NEW n \in Plugs, stage[n] = "exchange"
    PROVE  Arriving(n) \in 0..AgeMax /\ Arriving(n) + budget[n] <= TotalTimeout
BY TotalTimeoutPositive DEF TypeOK, ArrivingBound, Arriving, Readings

LEMMA QueueTail ==
    ASSUME queue \in Seq(Plugs), queue # <<>>
    PROVE  Tail(queue) \in Seq(Plugs)
OBVIOUS

LEMMA InitInv == Init => Inv
<1> SUFFICES ASSUME Init PROVE Inv
  OBVIOUS
<1>1. TypeOK
  BY TotalTimeoutPositive, PollAssumption DEF Init, TypeOK
<1> QED BY <1>1 DEF Init, Inv, ArrivingBound, ValidBound, Valid, ShownIsLatest, ShownIsRecent

\* What the steps that leave latest and shown alone do to the parts of Inv.
LEMMA LatestKept ==
    ASSUME Inv, UNCHANGED <<latest, shown>>, TypeOK', ArrivingBound',
           \A n \in Plugs : Valid(pending[n])'
    PROVE  Inv'
BY DEF Inv, ValidBound, Valid, ShownIsLatest, ShownIsRecent

\* Publishing makes exactly the fresh readings visible, and they are recent.
LEMMA PublishRecent ==
    ASSUME TypeOK', ValidBound', Publish(latest')
    PROVE  ShownIsLatest' /\ ShownIsRecent'
<1> SUFFICES ASSUME NEW n \in shown'
             PROVE  latest'[n] # NoReading /\ latest'[n].age <= TotalTimeout + Stale
  BY DEF ShownIsLatest, ShownIsRecent
<1>1. n \in Plugs /\ latest'[n] # NoReading /\ latest'[n].left > 0
  BY DEF Publish, Fresh
<1>2. latest'[n] \in Readings /\ latest'[n].age + latest'[n].left <= TotalTimeout + Stale
  BY <1>1 DEF TypeOK, ValidBound, Valid
<1> QED BY <1>1, <1>2, TotalTimeoutPositive, PollAssumption DEF Readings

LEMMA PauseInv ==
    ASSUME Inv, NEW n \in Plugs, Pause(n)
    PROVE  /\ stage' \in [Plugs -> {"sleep", "connect", "exchange", "queued", "persist"}]
           /\ timer' \in [Plugs -> Nat] /\ budget' \in [Plugs -> 0..TotalTimeout]
           /\ rounds' \in [Plugs -> 0..Rounds]
           /\ pending' \in [Plugs -> Readings \cup {NoReading}]
           /\ ArrivingBound' /\ \A m \in Plugs : Valid(pending[m])'
<1> USE DEF Inv, TypeOK, Pause
<1>1. /\ stage' \in [Plugs -> {"sleep", "connect", "exchange", "queued", "persist"}]
      /\ timer' \in [Plugs -> Nat] /\ budget' \in [Plugs -> 0..TotalTimeout]
      /\ rounds' \in [Plugs -> 0..Rounds]
      /\ pending' \in [Plugs -> Readings \cup {NoReading}]
  BY TotalTimeoutPositive, PollAssumption
<1>2. ArrivingBound'
  BY <1>1 DEF ArrivingBound
<1>3. \A m \in Plugs : Valid(pending[m])'
  BY DEF ValidBound, Valid
<1> QED BY <1>1, <1>2, <1>3
-----------------------------------------------------------------------------
(* The steps *)

LEMMA RequestInv ==
    ASSUME Inv, NEW n \in Plugs, NEW left \in 0..Rounds, Request(n, left),
           budget' \in [Plugs -> 0..TotalTimeout],
           \A m \in Plugs : m # n => budget'[m] = budget[m],
           UNCHANGED <<queue, latest, shown, historyVars>>
    PROVE  Inv'
<1>1. TypeOK'
  BY TotalTimeoutPositive, PollAssumption DEF Inv, TypeOK, Request, historyVars
<1>2. ArrivingBound'
  BY <1>1 DEF Inv, TypeOK, Request, ArrivingBound
<1>3. \A m \in Plugs : Valid(pending[m])'
  BY DEF Inv, TypeOK, Request, ValidBound, Valid
<1> QED BY <1>1, <1>2, <1>3, LatestKept

\* One step per action; Inv is inductive.
LEMMA NextInv == Inv /\ [Next]_vars => Inv'
<1> SUFFICES ASSUME Inv, [Next]_vars PROVE Inv'
  OBVIOUS
<1>1. ASSUME NEW n \in Plugs, StartPoll(n) PROVE Inv'
  <2>1. /\ Rounds \in 0..Rounds /\ budget' \in [Plugs -> 0..TotalTimeout]
        /\ \A m \in Plugs : m # n => budget'[m] = budget[m]
    BY <1>1, TotalTimeoutPositive, PollAssumption DEF StartPoll, Inv, TypeOK
  <2> QED BY <1>1, <2>1, RequestInv DEF StartPoll
<1>2. ASSUME NEW n \in Plugs, Connected(n) PROVE Inv'
  <2>1. TypeOK'
    BY <1>2, PollAssumption DEF Connected, Inv, TypeOK, historyVars
  <2>2. ArrivingBound' /\ \A m \in Plugs : Valid(pending[m])'
    BY <1>2 DEF Connected, Inv, TypeOK, ArrivingBound, ValidBound, Valid
  <2> QED BY <1>2, <2>1, <2>2, LatestKept DEF Connected
<1>3. ASSUME NEW n \in Plugs, Trickle(n) PROVE Inv'
  <2>1. Arriving(n) \in 0..AgeMax /\ Arriving(n) + budget[n] <= TotalTimeout
    BY <1>3, ArrivingAge DEF Trickle, Inv
  <2>2. TypeOK'
    BY <1>3, <2>1, PollAssumption DEF Trickle, Inv, TypeOK, Readings, historyVars
  <2>3. ArrivingBound'
    BY <1>3, <2>1 DEF Trickle, Inv, TypeOK, ArrivingBound
  <2>4. \A m \in Plugs : Valid(pending[m])'
    BY <1>3 DEF Trickle, Inv, TypeOK, ValidBound, Valid
  <2> QED BY <1>3, <2>2, <2>3, <2>4, LatestKept DEF Trickle
<1>4. ASSUME NEW n \in Plugs, Again(n) PROVE Inv'
  <2>1. rounds[n] - 1 \in 0..Rounds
    BY <1>4, PollAssumption DEF Again, Inv, TypeOK
  <2> QED BY <1>4, <2>1, RequestInv DEF Again, Inv, TypeOK
<1>5. ASSUME NEW n \in Plugs, Complete(n) PROVE Inv'
  <2>1. Arriving(n) \in 0..AgeMax /\ Arriving(n) + budget[n] <= TotalTimeout
    BY <1>5, ArrivingAge DEF Complete, Inv
  <2>2. TypeOK'
    <3>1. [age |-> Arriving(n), left |-> Received(n)] \in Readings
      BY <2>1, PollAssumption DEF Received, Readings
    <3>2. pending' \in [Plugs -> Readings \cup {NoReading}]
      BY <1>5, <3>1 DEF Complete, Inv, TypeOK
    <3>3. /\ stage' \in [Plugs -> {"sleep", "connect", "exchange", "queued", "persist"}]
          /\ timer' \in [Plugs -> Nat] /\ budget' \in [Plugs -> 0..TotalTimeout]
      BY <1>5, TotalTimeoutPositive DEF Complete, Inv, TypeOK
    <3>4. queue' \in Seq(Plugs)
      BY <1>5 DEF Complete, Inv, TypeOK
    <3>5. waited' \in [Plugs -> BOOLEAN] /\ excuse' \in [Plugs -> BOOLEAN]
      BY <1>5 DEF Complete, Inv, TypeOK
    <3> QED BY <1>5, <3>2, <3>3, <3>4, <3>5 DEF Complete, Inv, TypeOK
  <2>3. ArrivingBound'
    BY <1>5, <2>1 DEF Complete, Inv, TypeOK, ArrivingBound
  <2>4. \A m \in Plugs : Valid(pending[m])'
    BY <1>5, <2>1, TotalTimeoutPositive, PollAssumption
       DEF Complete, Received, Inv, TypeOK, ValidBound, Valid
  <2> QED BY <1>5, <2>2, <2>3, <2>4, LatestKept DEF Complete
<1>6. ASSUME NEW n \in Plugs, FetchFails(n) PROVE Inv'
  <2>1. TypeOK'
    BY <1>6, PauseInv DEF FetchFails, Inv, TypeOK
  <2> QED BY <1>6, <2>1, PauseInv, LatestKept DEF FetchFails
<1>7. ASSUME NEW n \in Plugs, Reject(n) PROVE Inv'
  <2>1. TypeOK'
    BY <1>7, PauseInv, QueueTail DEF Reject, HasLock, Inv, TypeOK
  <2> QED BY <1>7, <2>1, PauseInv, LatestKept DEF Reject
<1>8. ASSUME NEW n \in Plugs, Accept(n) PROVE Inv'
  <2>1. /\ stage' \in [Plugs -> {"sleep", "connect", "exchange", "queued", "persist"}]
        /\ timer' \in [Plugs -> Nat] /\ budget' \in [Plugs -> 0..TotalTimeout]
        /\ rounds' \in [Plugs -> 0..Rounds]
        /\ pending' \in [Plugs -> Readings \cup {NoReading}]
        /\ queue' \in Seq(Plugs)
        /\ ArrivingBound' /\ \A m \in Plugs : Valid(pending[m])'
    <3>1. CASE queue' = Tail(queue) /\ Pause(n)
      BY <1>8, <3>1, PauseInv, QueueTail DEF Accept, HasLock, Inv, TypeOK
    <3>2. CASE /\ stage' = [stage EXCEPT ![n] = "persist"]
               /\ UNCHANGED <<timer, budget, rounds, pending, queue>>
      BY <3>2 DEF Inv, TypeOK, ArrivingBound, ValidBound, Valid
    <3> QED BY <1>8, <3>1, <3>2 DEF Accept
  <2>2. TypeOK'
    BY <1>8, <2>1 DEF Accept, Accepted, Publish, Fresh, Inv, TypeOK
  <2>3. ValidBound'
    BY <1>8, <2>1 DEF Accept, Accepted, Inv, TypeOK, ValidBound, Valid
  <2>4. ShownIsLatest' /\ ShownIsRecent'
    BY <1>8, <2>2, <2>3, PublishRecent DEF Accept
  <2> QED BY <2>1, <2>2, <2>3, <2>4 DEF Inv
<1>9. ASSUME NEW n \in Plugs, Persisted(n) PROVE Inv'
  <2>1. TypeOK'
    BY <1>9, PauseInv, QueueTail DEF Persisted, HasLock, Publish, Fresh, Inv, TypeOK, historyVars
  <2>2. ArrivingBound' /\ ValidBound'
    BY <1>9, PauseInv DEF Persisted, Inv, ValidBound, Valid
  <2>3. Publish(latest')
    BY <1>9 DEF Persisted, Publish
  <2> QED BY <2>1, <2>2, <2>3, PublishRecent DEF Inv
<1>10. ASSUME Expire PROVE Inv'
  <2>1. TypeOK'
    BY <1>10 DEF Expire, Publish, Fresh, Inv, TypeOK, pollVars, historyVars
  <2>2. ArrivingBound' /\ ValidBound'
    BY <1>10 DEF Expire, pollVars, Inv, ArrivingBound, ValidBound, Valid
  <2>3. Publish(latest')
    BY <1>10 DEF Expire, Publish
  <2> QED BY <2>1, <2>2, <2>3, PublishRecent DEF Inv
<1>11. ASSUME Tick PROVE Inv'
  <2>1. \A n \in Plugs :
           /\ pending[n] \in Readings \cup {NoReading} /\ pending'[n] = Older(pending[n])
           /\ latest[n] \in Readings \cup {NoReading} /\ latest'[n] = Older(latest[n])
           /\ budget'[n] = Less(budget[n])
    BY <1>11 DEF Tick, Inv, TypeOK
  <2>2. TypeOK'
    <3>1. /\ timer' \in [Plugs -> Nat] /\ budget' \in [Plugs -> 0..TotalTimeout]
          /\ waited' \in [Plugs -> BOOLEAN] /\ excuse' \in [Plugs -> BOOLEAN]
      BY <1>11, TotalTimeoutPositive DEF Tick, Less, Inv, TypeOK
    <3>2. /\ pending' \in [Plugs -> Readings \cup {NoReading}]
          /\ latest' \in [Plugs -> Readings \cup {NoReading}]
      BY <1>11, <2>1, OlderReading DEF Tick
    <3> QED BY <1>11, <3>1, <3>2 DEF Tick, Inv, TypeOK
  <2>3. ValidBound'
    BY <2>1, OlderReading DEF Inv, ValidBound, Valid
  <2>4. ArrivingBound'
    <3> SUFFICES ASSUME NEW n \in Plugs
                 PROVE  /\ stage'[n] = "connect" => pending'[n] = NoReading
                        /\ pending'[n] # NoReading /\ stage'[n] = "exchange" =>
                               /\ pending'[n].age + budget'[n] <= TotalTimeout
                               /\ pending'[n].left = 0
      BY DEF ArrivingBound
    <3>1. stage' = stage /\ (pending'[n] = NoReading <=> pending[n] = NoReading)
      BY <1>11, <2>1, OlderReading DEF Tick
    <3>2. ASSUME pending[n] # NoReading, stage[n] = "exchange"
          PROVE  pending'[n].age + budget'[n] <= TotalTimeout /\ pending'[n].left = 0
      <4>1. /\ pending[n].age \in 0..AgeMax /\ pending[n].left = 0
            /\ pending[n].age + budget[n] <= TotalTimeout
        BY <2>1, <3>2 DEF Inv, ArrivingBound, Readings
      <4>2. budget[n] # 0 /\ budget[n] \in Nat
        BY <1>11, <3>2 DEF Tick, Due, TimedOut, BudgetSpent, Fetching, Inv, TypeOK
      <4>3. pending'[n] = [age |-> Min2(pending[n].age + 1, AgeMax), left |-> Less(0)]
        BY <2>1, <3>2, <4>1 DEF Older
      <4> QED BY <2>1, <4>1, <4>2, <4>3, TotalTimeoutPositive DEF Min2, Less
    <3> QED BY <3>1, <3>2 DEF Inv, ArrivingBound
  <2>5. ShownIsLatest' /\ ShownIsRecent'
    <3> SUFFICES ASSUME NEW n \in shown
                 PROVE  latest'[n] # NoReading /\ latest'[n].age <= TotalTimeout + Stale
      BY <1>11 DEF Tick, ShownIsLatest, ShownIsRecent
    <3>1. n \in Plugs /\ latest[n] # NoReading /\ latest[n].left > 0
      BY <1>11 DEF Tick, Due, Fresh
    <3>2. latest[n] \in Readings /\ latest[n].age + latest[n].left <= TotalTimeout + Stale
      BY <2>1, <3>1 DEF Inv, ValidBound, Valid
    <3>3. latest'[n] # NoReading /\ latest'[n].age = Min2(latest[n].age + 1, AgeMax)
      <4>1. latest'[n] # NoReading
        BY <2>1, <3>1, OlderReading
      <4>2. latest'[n] = [age |-> Min2(latest[n].age + 1, AgeMax),
                          left |-> Less(latest[n].left)]
        BY <2>1, <3>1 DEF Older
      <4> QED BY <4>1, <4>2
    <3> QED BY <3>1, <3>2, <3>3, TotalTimeoutPositive, PollAssumption DEF Readings, Min2
  <2> QED BY <2>2, <2>3, <2>4, <2>5 DEF Inv
<1>12. ASSUME UNCHANGED vars PROVE Inv'
  BY <1>12 DEF vars, pollVars, historyVars, Inv, TypeOK, ArrivingBound, ValidBound, Valid,
              ShownIsLatest, ShownIsRecent
<1> QED
  BY <1>1, <1>2, <1>3, <1>4, <1>5, <1>6, <1>7, <1>8, <1>9, <1>10, <1>11, <1>12 DEF Next, TimesOut

\* Whatever the settings, the number of plugs and the requests a poll makes,
\* power that clients see was measured at most TotalTimeout + Stale ago.
THEOREM ShownStaysRecent == Spec => []ShownIsRecent
<1>1. Inv => ShownIsRecent
  BY DEF Inv
<1> QED BY <1>1, InitInv, NextInv, PTL DEF Spec

\* The variables keep their types.
THEOREM PollTypes == Spec => []TypeOK
<1>1. Inv => TypeOK
  BY DEF Inv
<1> QED BY <1>1, InitInv, NextInv, PTL DEF Spec
-----------------------------------------------------------------------------
(* A plug without an excuse stays shown: what is left of its last reading    *)
(* covers the rest of the pause and of a quick answer.                       *)

\* A reading that had to wait for the lock is an excuse; any other is new.
QueuedOf(n) ==
    stage[n] = "queued" =>
        /\ pending[n] # NoReading
        /\ IF waited[n] THEN excuse[n] ELSE pending[n].left = Stale

Spent(n) == TotalTimeout - budget[n]

LeftIn(n) ==
    /\ stage[n] = "sleep" =>
           timer[n] <= Interval /\ latest[n].left >= Stale - Interval + timer[n]
    /\ Fetching(n) => Spent(n) <= Quick /\ latest[n].left >= Stale - Interval - Spent(n)
    /\ stage[n] = "queued" => latest[n].left >= Stale - Interval - Quick
    /\ stage[n] = "persist" => latest[n].left = Stale

SteadyOf(n) == QueuedOf(n) /\ (latest[n] # NoReading /\ ~excuse[n] => LeftIn(n))

SteadyInv == \A n \in Plugs : SteadyOf(n)

\* Nothing of a plug that SteadyOf looks at changes.
Same(n) ==
    /\ stage'[n] = stage[n] /\ timer'[n] = timer[n] /\ budget'[n] = budget[n]
    /\ pending'[n] = pending[n] /\ latest'[n] = latest[n]
    /\ waited'[n] = waited[n] /\ excuse'[n] = excuse[n]

LEMMA SameSteady ==
    ASSUME NEW n \in Plugs, Same(n), SteadyOf(n)
    PROVE  SteadyOf(n)'
BY DEF Same, SteadyOf, QueuedOf, LeftIn, Fetching, Spent

\* A pause begins with a new reading, or with an excuse.
LEMMA PauseSteady ==
    ASSUME Inv, NEW n \in Plugs, Pause(n),
           latest'[n] # NoReading /\ ~excuse'[n] => latest'[n].left = Stale
    PROVE  SteadyOf(n)'
<1>1. stage'[n] = "sleep" /\ timer'[n] = Interval
  BY DEF Inv, TypeOK, Pause
<1> QED BY <1>1, PollAssumption DEF SteadyOf, QueuedOf, LeftIn, Fetching

LEMMA FetchSteps ==
    ASSUME Inv, SteadyInv, Quick + Interval < Stale, NEW n \in Plugs,
           StartPoll(n) \/ Connected(n) \/ Trickle(n) \/ Again(n) \/ Complete(n)
    PROVE  SteadyInv'
<1>1. \A m \in Plugs : m # n => Same(m)
  BY DEF Inv, TypeOK, StartPoll, Connected, Trickle, Again, Complete, Request, historyVars, Same
<1>2. /\ budget[n] \in 0..TotalTimeout /\ TotalTimeout \in Nat /\ timer[n] \in Nat
      /\ latest[n] # NoReading => latest[n].left \in 0..Stale
      /\ latest'[n] = latest[n] /\ excuse[n] \in BOOLEAN
      /\ Interval \in Nat /\ Stale \in Nat /\ Quick \in Nat
  BY TotalTimeoutPositive, PollAssumption
     DEF Inv, TypeOK, Readings, StartPoll, Connected, Trickle, Again, Complete
<1>3. SteadyOf(n)
  BY DEF SteadyInv
<1>4. CASE StartPoll(n)
  <2>1. /\ stage[n] = "sleep" /\ timer[n] = 0 /\ stage'[n] = "connect"
        /\ budget'[n] = TotalTimeout /\ excuse'[n] = excuse[n]
    BY <1>4 DEF StartPoll, Request, Inv, TypeOK, historyVars
  <2>2. SteadyOf(n)'
    BY <1>2, <1>3, <2>1 DEF SteadyOf, QueuedOf, LeftIn, Fetching, Spent
  <2> QED BY <1>1, <2>2, SameSteady DEF SteadyInv
<1>5. CASE Connected(n) \/ Trickle(n) \/ Again(n)
  <2>1. /\ Fetching(n) /\ stage'[n] \in {"connect", "exchange"}
        /\ budget'[n] = budget[n] /\ excuse'[n] = excuse[n]
    BY <1>5 DEF Connected, Trickle, Again, Request, Inv, TypeOK, historyVars, Fetching
  <2>2. SteadyOf(n)'
    BY <1>2, <1>3, <2>1 DEF SteadyOf, QueuedOf, LeftIn, Fetching, Spent
  <2> QED BY <1>1, <2>2, SameSteady DEF SteadyInv
<1>6. CASE Complete(n)
  <2>1. /\ Fetching(n) /\ stage'[n] = "queued" /\ ~waited'[n]
        /\ excuse'[n] = (excuse[n] \/ Spent(n) > Quick)
    BY <1>6 DEF Complete, Inv, TypeOK, Fetching, Spent
  <2>2. pending'[n] = [age |-> Arriving(n), left |-> Stale]
    BY <1>6 DEF Complete, Received, Inv, TypeOK
  <2>3. pending'[n] # NoReading /\ pending'[n].left = Stale
    <3>1. Arriving(n) \in Nat
      BY <1>6, ArrivingAge, TotalTimeoutPositive DEF Inv, Complete
    <3> QED BY <1>2, <2>2, <3>1, PollAssumption
  <2>4. ~excuse'[n] => ~excuse[n] /\ Spent(n) <= Quick
    <3>1. (excuse[n] => excuse'[n]) /\ (Spent(n) > Quick => excuse'[n])
      BY <2>1, Zenon
    <3> QED BY <1>2, <3>1 DEF Spent
  <2>5. SteadyOf(n)'
    BY <1>2, <1>3, <2>1, <2>3, <2>4 DEF SteadyOf, QueuedOf, LeftIn, Fetching, Spent
  <2> QED BY <1>1, <2>5, SameSteady DEF SteadyInv
<1> QED BY <1>4, <1>5, <1>6

LEMMA EndSteps ==
    ASSUME Inv, SteadyInv, NEW n \in Plugs,
           FetchFails(n) \/ Accept(n) \/ Reject(n) \/ Persisted(n)
    PROVE  SteadyInv'
<1>1. \A m \in Plugs : m # n => Same(m)
  BY DEF Inv, TypeOK, FetchFails, Accept, Reject, Persisted, Pause, historyVars, Same
<1>2. SteadyOf(n) /\ excuse[n] \in BOOLEAN /\ waited[n] \in BOOLEAN
  BY DEF SteadyInv, Inv, TypeOK
<1>3. CASE FetchFails(n) \/ Reject(n)
  <2>1. Pause(n) /\ excuse'[n]
    BY <1>3 DEF FetchFails, Reject, Inv, TypeOK
  <2> QED BY <1>1, <2>1, PauseSteady, SameSteady DEF SteadyInv
<1>4. CASE Accept(n)
  <2>1. latest'[n] = pending[n] /\ excuse'[n] = waited[n] /\ stage[n] = "queued"
    BY <1>4 DEF Accept, Accepted, Inv, TypeOK
  <2>2. ~excuse'[n] => latest'[n].left = Stale
    BY <1>2, <2>1 DEF SteadyOf, QueuedOf
  <2>3. Pause(n) \/ stage' = [stage EXCEPT ![n] = "persist"]
    BY <1>4 DEF Accept
  <2>4. SteadyOf(n)'
    <3>1. CASE stage' = [stage EXCEPT ![n] = "persist"]
      <4>1. stage'[n] = "persist"
        BY <3>1 DEF Inv, TypeOK
      <4> QED BY <2>2, <4>1 DEF SteadyOf, QueuedOf, LeftIn, Fetching
    <3> QED BY <2>2, <2>3, <3>1, PauseSteady
  <2> QED BY <1>1, <2>4, SameSteady DEF SteadyInv
<1>5. CASE Persisted(n)
  <2>1. Pause(n) /\ stage[n] = "persist" /\ latest'[n] = latest[n] /\ excuse'[n] = excuse[n]
    BY <1>5 DEF Persisted, historyVars
  <2>2. SteadyOf(n)'
    BY <1>2, <2>1, PauseSteady DEF SteadyOf, LeftIn
  <2> QED BY <1>1, <2>2, SameSteady DEF SteadyInv
<1> QED BY <1>3, <1>4, <1>5

LEMMA TickSteady ==
    ASSUME Inv, SteadyInv, Quick + Interval < Stale, Tick
    PROVE  SteadyInv'
<1> SUFFICES ASSUME NEW n \in Plugs PROVE SteadyOf(n)'
  BY DEF SteadyInv
<1>1. /\ stage'[n] = stage[n] /\ timer'[n] = Less(timer[n]) /\ budget'[n] = Less(budget[n])
      /\ pending'[n] = Older(pending[n]) /\ latest'[n] = Older(latest[n])
      /\ waited'[n] = (waited[n] \/ stage[n] = "queued")
      /\ excuse'[n] = (excuse[n] \/ stage[n] \in {"queued", "persist"}
                                 \/ (Fetching(n) /\ Spent(n) >= Quick))
  BY DEF Tick, Spent
<1>2. /\ budget[n] \in 0..TotalTimeout /\ TotalTimeout \in Nat /\ timer[n] \in Nat
      /\ latest[n] \in Readings \cup {NoReading} /\ pending[n] \in Readings \cup {NoReading}
      /\ excuse[n] \in BOOLEAN /\ waited[n] \in BOOLEAN
      /\ stage[n] \in {"sleep", "connect", "exchange", "queued", "persist"}
      /\ Interval \in Nat /\ Stale \in Nat /\ Quick \in Nat
  BY TotalTimeoutPositive, PollAssumption DEF Inv, TypeOK
<1>3. SteadyOf(n)
  BY DEF SteadyInv
<1>4. CASE stage[n] \in {"queued", "persist"}
  <2>1. excuse'[n] /\ (stage[n] = "queued" => waited'[n])
    BY <1>1, <1>2, <1>4
  <2>2. pending[n] # NoReading => pending'[n] # NoReading
    BY <1>1, <1>2, OlderReading
  <2> QED BY <1>1, <1>3, <2>1, <2>2 DEF SteadyOf, QueuedOf
<1>5. ASSUME stage[n] \in {"sleep", "connect", "exchange"}, latest'[n] # NoReading, ~excuse'[n]
      PROVE  LeftIn(n)'
  <2>1. /\ ~excuse[n] /\ latest[n] # NoReading /\ LeftIn(n)
        /\ latest[n].left \in 0..Stale /\ latest'[n].left = Less(latest[n].left)
    <3>1. ~excuse[n] /\ latest[n] # NoReading
      BY <1>1, <1>2, <1>5, OlderReading
    <3>2. latest'[n] = [age |-> Min2(latest[n].age + 1, AgeMax), left |-> Less(latest[n].left)]
      BY <1>1, <3>1 DEF Older
    <3> QED BY <1>2, <1>3, <3>1, <3>2 DEF SteadyOf, Readings
  <2>2. CASE stage[n] = "sleep"
    <3>1. timer[n] # 0
      BY <2>2 DEF Tick, Due
    <3> QED BY <1>1, <1>2, <2>1, <2>2, <3>1 DEF LeftIn, Less, Fetching
  <2>3. CASE stage[n] \in {"connect", "exchange"}
    <3>1. Fetching(n) /\ budget[n] # 0
      BY <2>3 DEF Tick, Due, TimedOut, BudgetSpent, Fetching
    <3>2. Spent(n) < Quick
      <4>1. Spent(n) >= Quick => excuse'[n]
        BY <1>1, <3>1, Zenon
      <4> QED BY <1>2, <1>5, <4>1 DEF Spent
    <3>3. Spent(n)' = Spent(n) + 1 /\ Spent(n) \in Int
      BY <1>1, <1>2, <3>1 DEF Spent, Less
    <3>4. latest[n].left >= Stale - Interval - Spent(n)
      BY <2>1, <3>1 DEF LeftIn
    <3>5. latest'[n].left >= Stale - Interval - (Spent(n) + 1)
      BY <1>2, <2>1, <3>2, <3>3, <3>4 DEF Less
    <3> QED BY <1>1, <1>2, <2>3, <3>2, <3>3, <3>5 DEF LeftIn, Fetching
  <2> QED BY <1>5, <2>2, <2>3
<1>6. CASE stage[n] \in {"sleep", "connect", "exchange"}
  BY <1>1, <1>5, <1>6 DEF SteadyOf, QueuedOf
<1> QED BY <1>2, <1>4, <1>6

LEMMA NextSteady ==
    ASSUME Inv, SteadyInv, Quick + Interval < Stale, [Next]_vars
    PROVE  SteadyInv'
<1>1. ASSUME NEW n \in Plugs,
             StartPoll(n) \/ Connected(n) \/ Trickle(n) \/ Again(n) \/ Complete(n)
      PROVE  SteadyInv'
  BY <1>1, FetchSteps
<1>2. ASSUME NEW n \in Plugs, FetchFails(n) \/ TimesOut(n) \/ Accept(n) \/ Reject(n) \/ Persisted(n)
      PROVE  SteadyInv'
  BY <1>2, EndSteps DEF TimesOut
<1>3. CASE Expire \/ UNCHANGED vars
  <2>1. \A n \in Plugs : Same(n)
    BY <1>3 DEF Expire, vars, pollVars, historyVars, Same
  <2> QED BY <2>1, SameSteady DEF SteadyInv
<1>4. CASE Tick
  BY <1>4, TickSteady
<1> QED BY <1>1, <1>2, <1>3, <1>4 DEF Next

\* What is shown vanishes in a step that publishes, and then it was too old.
LEMMA VanishesStale ==
    ASSUME Inv, SteadyInv, Quick + Interval < Stale, [Next]_vars, NEW n \in shown \ shown'
    PROVE  excuse[n]
<1>1. n \in Plugs /\ latest[n] # NoReading /\ latest[n] \in Readings /\ SteadyOf(n)
  BY DEF Inv, TypeOK, ShownIsLatest, SteadyInv
<1>2. /\ shown' = Fresh(latest')
      /\ UNCHANGED latest \/ \E m \in Plugs : Accept(m)
  <2>1. shown' # shown
    OBVIOUS
  <2> QED BY <2>1 DEF Next, StartPoll, Connected, Trickle, Again, Complete, FetchFails, TimesOut,
                      Accept, Reject, Persisted, Expire, Tick, Publish, vars
<1>3. latest'[n] = NoReading \/ ~(latest'[n].left > 0)
  BY <1>1, <1>2 DEF Fresh
<1>4. /\ Interval \in Nat /\ Stale \in Nat \ {0} /\ Quick \in Nat /\ TotalTimeout \in Nat
      /\ timer[n] \in Nat /\ budget[n] \in 0..TotalTimeout /\ excuse[n] \in BOOLEAN
      /\ stage[n] \in {"sleep", "connect", "exchange", "queued", "persist"}
  BY <1>1, TotalTimeoutPositive, PollAssumption DEF Inv, TypeOK
<1>5. ASSUME ~excuse[n] PROVE latest[n].left > 0
  <2>1. LeftIn(n) /\ latest[n].left \in Int
    BY <1>1, <1>5 DEF SteadyOf, Readings
  <2> QED BY <1>4, <2>1 DEF LeftIn, Fetching, Spent
<1>6. CASE latest'[n] = latest[n]
  BY <1>1, <1>3, <1>5, <1>6
<1>7. CASE Accept(n)
  <2>1. latest'[n] = pending[n] /\ stage[n] = "queued"
    BY <1>1, <1>7 DEF Accept, Accepted, Inv, TypeOK
  <2>2. CASE waited[n]
    BY <1>1, <2>1, <2>2 DEF SteadyOf, QueuedOf
  <2>3. CASE ~waited[n]
    <3>1. pending[n] # NoReading /\ pending[n].left = Stale
      BY <1>1, <2>1, <2>3 DEF SteadyOf, QueuedOf
    <3> QED BY <1>3, <1>4, <2>1, <3>1
  <2> QED BY <2>2, <2>3
<1>8. latest'[n] = latest[n] \/ Accept(n)
  BY <1>1, <1>2 DEF Accept, Inv, TypeOK
<1> QED BY <1>6, <1>7, <1>8

\* For all timeouts and settings with Quick + Interval < Stale, and any number
\* of plugs: a plug whose polls succeed quickly, and find the lock free, does
\* not vanish between two polls, whatever the other plugs and the disk do.
THEOREM SteadyStaysShown == Spec => SteadyIsShown
<1>1. Init => SteadyInv
  BY DEF Init, SteadyInv, SteadyOf, QueuedOf
<1>2. CASE Quick + Interval < Stale
  <2>1. Inv /\ SteadyInv /\ [Next]_vars => SteadyInv'
    BY <1>2, NextSteady
  <2>2. Inv /\ SteadyInv /\ [Next]_vars
          => [Quick + Interval < Stale => \A n \in shown \ shown' : excuse[n]]_vars
    BY <1>2, VanishesStale
  <2> QED BY <1>1, <2>1, <2>2, InitInv, NextInv, PTL DEF Spec, SteadyIsShown
<1>3. CASE ~(Quick + Interval < Stale)
  <2>1. [Next]_vars => [Quick + Interval < Stale => \A n \in shown \ shown' : excuse[n]]_vars
    BY <1>3
  <2> QED BY <2>1, PTL DEF Spec, SteadyIsShown
<1> QED BY <1>2, <1>3
=============================================================================
