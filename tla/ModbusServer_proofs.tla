------------------------ MODULE ModbusServer_proofs ------------------------
(***************************************************************************)
(* For any number of connections, any keys and any limit: the server's     *)
(* variables have their types, close() forgets no connection, and the      *)
(* interval log is the latest part of the requests answered.               *)
(***************************************************************************)
EXTENDS ModbusServer, SequenceTheorems, TLAPS

(* Lists of keys *)

\* An entry of a dict occurs once.
Distinct(keys) ==
    \A i \in DOMAIN keys, j \in DOMAIN keys : i # j => keys[i] # keys[j]

Held(keys, key) == \E i \in DOMAIN keys : keys[i] = key

\* keys without its entry i.
Drops(less, keys, i) ==
    /\ less \in Seq(Keys) /\ Len(less) = Len(keys) - 1
    /\ \A j \in 1..Len(less) : less[j] = IF j < i THEN keys[j] ELSE keys[j + 1]

LEMMA RemoveAtDrops ==
    ASSUME NEW keys \in Seq(Keys), NEW i \in 1..Len(keys)
    PROVE  Drops(RemoveAt(keys, i), keys, i)
<1> DEFINE front == SubSeq(keys, 1, i - 1)
           back == SubSeq(keys, i + 1, Len(keys))
<1>1. Len(keys) \in Nat /\ \A j \in 1..Len(keys) : keys[j] \in Keys
  BY LenProperties, ElementOfSeq
<1>2. /\ front \in Seq(Keys) /\ Len(front) = i - 1
      /\ \A j \in 1..(i - 1) : front[j] = keys[j]
  <2>1. \A j \in 1..(i - 1) : keys[j] \in Keys
    BY <1>1
  <2>2. i - 1 \in Int /\ 1 \in Int
    BY <1>1
  <2> HIDE DEF front
  <2>3. /\ front \in Seq(Keys) /\ Len(front) = (IF 1 <= i - 1 THEN (i - 1) - 1 + 1 ELSE 0)
        /\ \A j \in 1..((i - 1) - 1 + 1) : front[j] = keys[1 + j - 1]
    BY <2>1, <2>2, SubSeqProperties DEF front
  <2> QED BY <1>1, <2>3
<1>3. /\ back \in Seq(Keys) /\ Len(back) = Len(keys) - i
      /\ \A j \in 1..(Len(keys) - i) : back[j] = keys[i + j]
  <2>1. \A j \in (i + 1)..Len(keys) : keys[j] \in Keys
    BY <1>1
  <2>2. i + 1 \in Int /\ Len(keys) \in Int
    BY <1>1
  <2> HIDE DEF back
  <2>3. /\ back \in Seq(Keys)
        /\ Len(back) = (IF i + 1 <= Len(keys) THEN Len(keys) - (i + 1) + 1 ELSE 0)
        /\ \A j \in 1..(Len(keys) - (i + 1) + 1) : back[j] = keys[(i + 1) + j - 1]
    BY <2>1, <2>2, SubSeqProperties DEF back
  <2> QED BY <1>1, <2>3
<1>4. RemoveAt(keys, i) = front \o back
  BY DEF RemoveAt
<1> HIDE DEF front, back
<1>5. /\ front \o back \in Seq(Keys) /\ Len(front \o back) = Len(front) + Len(back)
      /\ \A j \in 1..(Len(front) + Len(back)) :
            (front \o back)[j] = IF j <= Len(front) THEN front[j] ELSE back[j - Len(front)]
  BY <1>2, <1>3, ConcatProperties
<1>6. ASSUME NEW j \in 1..(Len(keys) - 1)
      PROVE  (front \o back)[j] = IF j < i THEN keys[j] ELSE keys[j + 1]
  <2>1. (front \o back)[j] = IF j <= i - 1 THEN front[j] ELSE back[j - (i - 1)]
    BY <1>1, <1>2, <1>3, <1>5, <1>6
  <2>2. CASE j < i
    BY <1>1, <1>2, <2>1, <2>2
  <2>3. CASE ~(j < i)
    <3>1. j - (i - 1) \in 1..(Len(keys) - i) /\ i + (j - (i - 1)) = j + 1
      BY <1>1, <2>3
    <3>2. back[j - (i - 1)] = keys[j + 1]
      BY <1>3, <3>1
    <3> QED BY <2>1, <2>3, <3>2
  <2> QED BY <2>2, <2>3
<1>7. Len(front \o back) = Len(keys) - 1
  BY <1>1, <1>2, <1>3, <1>5
<1> QED BY <1>4, <1>5, <1>6, <1>7 DEF Drops

\* What dict.pop leaves.
LEMMA WithoutIs ==
    ASSUME NEW keys \in Seq(Keys), NEW key
    PROVE  \/ ~Held(keys, key) /\ Without(keys, key) = keys
           \/ \E i \in 1..Len(keys) : keys[i] = key /\ Drops(Without(keys, key), keys, i)
<1>1. CASE ~Held(keys, key)
  BY <1>1 DEF Held, Without
<1>2. CASE Held(keys, key)
  <2> DEFINE i == CHOOSE i \in DOMAIN keys : keys[i] = key
  <2>1. i \in DOMAIN keys /\ keys[i] = key
    BY <1>2 DEF Held
  <2>2. i \in 1..Len(keys)
    BY <2>1, LenProperties
  <2>3. Without(keys, key) = RemoveAt(keys, i)
    BY <1>2 DEF Held, Without
  <2> HIDE DEF i
  <2> QED BY <2>1, <2>2, <2>3, RemoveAtDrops
<1> QED BY <1>1, <1>2
-----------------------------------------------------------------------------
(* The interval log *)

\* recent is the end of asked, Limit keys long at most.
Ends(new, all) ==
    /\ Len(new) = IF Len(all) <= Limit THEN Len(all) ELSE Limit
    /\ \A i \in 1..Len(new) : new[i] = all[Len(all) - Len(new) + i]

LogInv ==
    /\ asked \in Seq(Keys) /\ recent \in Seq(Keys)
    /\ Distinct(asked) /\ Ends(recent, asked)

\* A key that is asked again moves to the end of a list.
Renewed(keys, key) == Append(Without(keys, key), key)

\* Whatever it held before, the list ends with the key; the keys before it
\* have moved by one from where the key was, or from the end of the list.
Moves(new, old, key) ==
    /\ new \in Seq(Keys)
    /\ \/ /\ ~Held(old, key) /\ Len(new) = Len(old) + 1
          /\ \A j \in 1..Len(old) : new[j] = old[j]
          /\ new[Len(old) + 1] = key
       \/ \E i \in 1..Len(old) :
             /\ old[i] = key /\ Len(new) = Len(old)
             /\ \A j \in 1..(Len(old) - 1) : new[j] = IF j < i THEN old[j] ELSE old[j + 1]
             /\ new[Len(old)] = key

LEMMA AppendIs ==
    ASSUME NEW keys \in Seq(Keys), NEW key \in Keys
    PROVE  /\ Append(keys, key) \in Seq(Keys)
           /\ Len(Append(keys, key)) = Len(keys) + 1 /\ Len(keys) \in Nat
           /\ \A j \in 1..Len(keys) : Append(keys, key)[j] = keys[j]
           /\ Append(keys, key)[Len(keys) + 1] = key
BY AppendProperties, LenProperties

LEMMA RenewedMoves ==
    ASSUME NEW keys \in Seq(Keys), NEW key \in Keys
    PROVE  Moves(Renewed(keys, key), keys, key)
<1> DEFINE less == Without(keys, key)
<1>0. Len(keys) \in Nat
  BY LenProperties
<1>1. CASE ~Held(keys, key) /\ less = keys
  BY <1>1, AppendIs DEF Renewed, Moves
<1>2. CASE \E i \in 1..Len(keys) : keys[i] = key /\ Drops(less, keys, i)
  <2>1. PICK i \in 1..Len(keys) : keys[i] = key /\ Drops(less, keys, i)
    BY <1>2
  <2> HIDE DEF less
  <2>2. less \in Seq(Keys) /\ Len(less) = Len(keys) - 1
    BY <2>1 DEF Drops
  <2>3. /\ Append(less, key) \in Seq(Keys) /\ Len(Append(less, key)) = Len(less) + 1
        /\ \A j \in 1..Len(less) : Append(less, key)[j] = less[j]
        /\ Append(less, key)[Len(less) + 1] = key
    BY <2>2, AppendIs
  <2>4. Len(less) + 1 = Len(keys)
    BY <1>0, <2>2
  <2>5. \A j \in 1..(Len(keys) - 1) :
           Append(less, key)[j] = IF j < i THEN keys[j] ELSE keys[j + 1]
    BY <2>1, <2>2, <2>3 DEF Drops
  <2> QED BY <2>1, <2>3, <2>4, <2>5 DEF Renewed, Moves, less
<1> QED BY <1>1, <1>2, WithoutIs

LEMMA RenewedDistinct ==
    ASSUME NEW new, NEW old \in Seq(Keys), NEW key \in Keys, Distinct(old),
           Moves(new, old, key)
    PROVE  Distinct(new)
<1>1. /\ Len(old) \in Nat /\ DOMAIN old = 1..Len(old)
      /\ new \in Seq(Keys) /\ DOMAIN new = 1..Len(new)
  BY LenProperties DEF Moves
<1>2. CASE ~Held(old, key) /\ Len(new) = Len(old) + 1
           /\ (\A j \in 1..Len(old) : new[j] = old[j]) /\ new[Len(old) + 1] = key
  BY <1>1, <1>2 DEF Held, Distinct
<1>3. ASSUME NEW i \in 1..Len(old), old[i] = key, Len(new) = Len(old),
             \A j \in 1..(Len(old) - 1) : new[j] = IF j < i THEN old[j] ELSE old[j + 1],
             new[Len(old)] = key
      PROVE  Distinct(new)
  <2> SUFFICES ASSUME NEW a \in 1..Len(old), NEW b \in 1..Len(old), a < b
               PROVE  new[a] # new[b]
    BY <1>1, <1>3 DEF Distinct
  <2>1. new[a] = IF a < i THEN old[a] ELSE old[a + 1]
    BY <1>1, <1>3
  <2>2. CASE b = Len(old)
    BY <1>1, <1>3, <2>1, <2>2 DEF Distinct
  <2>3. CASE b # Len(old)
    <3>1. new[b] = IF b < i THEN old[b] ELSE old[b + 1]
      BY <1>1, <1>3, <2>3
    <3> DEFINE x == IF a < i THEN a ELSE a + 1
               y == IF b < i THEN b ELSE b + 1
               n == Len(old)
    <3>2. n \in Nat /\ a \in 1..n /\ b \in 1..n /\ a < b /\ b # n /\ i \in 1..n
      BY <1>1, <2>3
    <3> HIDE DEF n
    <3>3. x \in 1..n /\ y \in 1..n /\ x # y
      BY <3>2
    <3>4. new[a] = old[x] /\ new[b] = old[y]
      BY <2>1, <3>1
    <3> HIDE DEF x, y
    <3> QED BY <1>1, <3>3, <3>4 DEF Distinct, n
  <2> QED BY <2>2, <2>3
<1> QED BY <1>2, <1>3 DEF Moves

\* Without the oldest key, when there is one too many.
LEMMA TailIs ==
    ASSUME NEW keys \in Seq(Keys), Len(keys) > 0, NEW key \in Keys
    PROVE  /\ Append(Tail(keys), key) \in Seq(Keys)
           /\ Len(Append(Tail(keys), key)) = Len(keys)
           /\ \A j \in 1..(Len(keys) - 1) : Append(Tail(keys), key)[j] = keys[j + 1]
           /\ Append(Tail(keys), key)[Len(keys)] = key
<1>1. Len(keys) \in Nat /\ keys # <<>>
  BY LenProperties
<1>2. /\ Tail(keys) \in Seq(Keys) /\ Len(Tail(keys)) = Len(keys) - 1
      /\ \A j \in 1..Len(Tail(keys)) : Tail(keys)[j] = keys[j + 1]
  BY <1>1, HeadTailProperties
<1> DEFINE tail == Tail(keys)
<1> HIDE DEF tail
<1>3. tail \in Seq(Keys) /\ Len(tail) = Len(keys) - 1
  BY <1>2 DEF tail
<1>4. /\ Append(tail, key) \in Seq(Keys) /\ Len(Append(tail, key)) = Len(tail) + 1
      /\ \A j \in 1..Len(tail) : Append(tail, key)[j] = tail[j]
      /\ Append(tail, key)[Len(tail) + 1] = key
  BY <1>3, AppendIs
<1>5. Len(tail) + 1 = Len(keys)
  BY <1>1, <1>3
<1> QED BY <1>2, <1>3, <1>4, <1>5 DEF tail

LEMMA EndsWhen ==
    ASSUME NEW new, NEW all, NEW n \in Nat, NEW r \in Nat, Len(all) = n, Len(new) = r,
           r = IF n <= Limit THEN n ELSE Limit,
           \A j \in 1..r : new[j] = all[n - r + j]
    PROVE  Ends(new, all)
BY DEF Ends

\* One answer: the log is again the end of what was asked.
LEMMA RememberEnds ==
    ASSUME LogInv, NEW key \in Keys
    PROVE  LET all == Renewed(asked, key)
               new == Remember(key)
           IN  all \in Seq(Keys) /\ new \in Seq(Keys) /\ Distinct(all) /\ Ends(new, all)
<1> DEFINE all == Renewed(asked, key)
           new == Remember(key)
           less == Without(recent, key)
           n == Len(asked)
           r == Len(recent)
<1>0. /\ asked \in Seq(Keys) /\ recent \in Seq(Keys)
      /\ DOMAIN asked = 1..n /\ DOMAIN recent = 1..r
      /\ n = Len(asked) /\ r = Len(recent)
  BY LenProperties DEF LogInv
<1>1. /\ n \in Nat /\ r \in Nat /\ Limit \in Nat /\ Limit > 0
      /\ r <= n /\ r <= Limit /\ (r < Limit => r = n) /\ (n < Limit => r = n)
  BY ServerAssumption, LenProperties DEF LogInv, Ends
<1>6. n = Len(asked) /\ r = Len(recent)
  OBVIOUS
<1>7. \A i \in 1..r : recent[i] = asked[n - r + i]
  BY DEF LogInv, Ends
<1> HIDE DEF n, r, all, new, less
<1>2. Moves(all, asked, key)
  BY <1>0, RenewedMoves DEF all
<1>3. all \in Seq(Keys) /\ Distinct(all)
  BY <1>0, <1>2, RenewedDistinct DEF LogInv, Moves
<1>4. CASE Held(recent, key)
  <2>1. PICK k \in 1..r : recent[k] = key /\ Drops(less, recent, k)
    BY <1>0, <1>4, WithoutIs DEF less
  <2>2. Len(less) # Len(recent)
    <3>1. Len(less) = Len(recent) - 1
      BY <2>1 DEF Drops
    <3> QED BY <1>1, <1>6, <3>1
  <2>3. new = Renewed(recent, key)
    BY <2>2 DEF Remember, Renewed, new, less
  <2>4. Moves(new, recent, key)
    BY <1>0, <2>3, RenewedMoves
  <2>5. PICK i \in 1..r :
           /\ recent[i] = key /\ Len(new) = r
           /\ \A j \in 1..(r - 1) : new[j] = IF j < i THEN recent[j] ELSE recent[j + 1]
           /\ new[r] = key
    BY <1>0, <1>4, <2>4 DEF Moves
  <2>6. asked[n - r + i] = key /\ n - r + i \in 1..n
    BY <1>1, <1>7, <2>5
  <2>7. PICK h \in 1..n :
           /\ asked[h] = key /\ Len(all) = n
           /\ \A j \in 1..(n - 1) : all[j] = IF j < h THEN asked[j] ELSE asked[j + 1]
           /\ all[n] = key
    BY <1>0, <1>1, <1>2, <2>6 DEF Moves, Held
  <2>8. h = n - r + i
    BY <1>0, <1>1, <2>6, <2>7 DEF LogInv, Distinct
  <2>9. ASSUME NEW j \in 1..r PROVE new[j] = all[n - r + j]
    <3>1. CASE j = r
      BY <1>1, <2>5, <2>7, <3>1
    <3>2. CASE j < i
      BY <1>1, <1>7, <2>5, <2>7, <2>8, <3>2
    <3>3. CASE j >= i /\ j < r
      BY <1>1, <1>7, <2>5, <2>7, <2>8, <3>3
    <3> QED BY <1>1, <3>1, <3>2, <3>3
  <2>10. Ends(new, all)
    <3>1. r = IF n <= Limit THEN n ELSE Limit
      BY <1>1
    <3> QED BY <1>1, <2>5, <2>7, <2>9, <3>1, EndsWhen
  <2>11. new \in Seq(Keys)
    BY <2>4 DEF Moves
  <2> QED BY <1>3, <2>10, <2>11 DEF all, new
<1>5. CASE ~Held(recent, key)
  <2>1. less = recent
    BY <1>5 DEF less, Held, Without
  <2>2. CASE r < Limit
    <3>1. new = Append(recent, key)
      <4>1. ~(Len(recent) >= Limit)
        BY <1>1, <1>6, <2>2
      <4> QED BY <2>1, <4>1 DEF Remember, new, less
    <3>2. /\ new \in Seq(Keys) /\ Len(new) = r + 1
          /\ \A j \in 1..r : new[j] = recent[j]
          /\ new[r + 1] = key
      BY <1>0, <3>1, AppendIs
    <3>3. n = r
      BY <1>1, <2>2
    <3>6. ~Held(asked, key)
      BY <1>0, <1>1, <1>7, <1>5, <3>3 DEF Held
    <3>4. /\ Len(all) = n + 1
          /\ \A j \in 1..n : all[j] = asked[j]
          /\ all[n + 1] = key
      BY <1>0, <1>2, <3>6 DEF Moves, Held
    <3>5. Ends(new, all)
      <4>1. \A j \in 1..(r + 1) : new[j] = all[(n + 1) - (r + 1) + j]
        BY <1>1, <1>7, <3>2, <3>3, <3>4
      <4>2. n + 1 \in Nat /\ r + 1 \in Nat /\ r + 1 = IF n + 1 <= Limit THEN n + 1 ELSE Limit
        BY <1>1, <2>2, <3>3
      <4> QED BY <3>2, <3>4, <4>1, <4>2, EndsWhen
    <3> QED BY <1>3, <3>2, <3>5 DEF all, new
  <2>3. CASE r >= Limit
    <3>0. r = Limit /\ r > 0
      BY <1>1, <2>3
    <3>1. new = Append(Tail(recent), key)
      BY <1>0, <1>1, <2>1, <2>3 DEF Remember, new, less
    <3>2. /\ new \in Seq(Keys) /\ Len(new) = r
          /\ \A j \in 1..(r - 1) : new[j] = recent[j + 1]
          /\ new[r] = key
      BY <1>0, <3>0, <3>1, TailIs
    <3>3. CASE ~Held(asked, key)
      <4>1. /\ Len(all) = n + 1
            /\ \A j \in 1..n : all[j] = asked[j]
            /\ all[n + 1] = key
        BY <1>0, <1>2, <3>3 DEF Moves, Held
      <4>2. ASSUME NEW j \in 1..r PROVE new[j] = all[n + 1 - r + j]
        <5>1. CASE j = r
          BY <1>1, <3>2, <4>1, <5>1
        <5>2. CASE j < r
          <6>1. new[j] = asked[n - r + (j + 1)]
            BY <1>1, <1>7, <3>2, <5>2
          <6>2. n + 1 - r + j = n - r + (j + 1) /\ n - r + (j + 1) \in 1..n
            BY <1>1, <5>2
          <6> QED BY <4>1, <6>1, <6>2
        <5> QED BY <1>1, <5>1, <5>2
      <4>3. Ends(new, all)
        <5>1. n + 1 \in Nat /\ r = IF n + 1 <= Limit THEN n + 1 ELSE Limit
          BY <1>1, <3>0
        <5>2. Len(new) = r /\ Len(all) = n + 1
          BY <3>2, <4>1
        <5> DEFINE m == n + 1
        <5>3. m \in Nat /\ Len(all) = m /\ r = IF m <= Limit THEN m ELSE Limit
          BY <5>1, <5>2
        <5>4. \A j \in 1..r : new[j] = all[m - r + j]
          <6>1. \A j \in 1..r : (n + 1) - r + j = n + 1 - r + j
            BY <1>1
          <6> QED BY <4>2, <6>1
        <5> HIDE DEF m
        <5> QED BY <1>1, <5>2, <5>3, <5>4, EndsWhen
      <4> QED BY <1>3, <3>2, <4>3 DEF all, new
    <3>4. CASE Held(asked, key)
      <4>1. PICK h \in 1..n :
               /\ asked[h] = key /\ Len(all) = n
               /\ \A j \in 1..(n - 1) : all[j] = IF j < h THEN asked[j] ELSE asked[j + 1]
               /\ all[n] = key
        BY <1>0, <1>2, <3>4 DEF Moves
      <4>2. h <= n - r
        <5> SUFFICES ASSUME h > n - r PROVE FALSE
          BY <1>1
        <5>1. h - (n - r) \in 1..r /\ n - r + (h - (n - r)) = h
          BY <1>1
        <5>2. recent[h - (n - r)] = key
          BY <1>1, <1>7, <4>1, <5>1
        <5> QED BY <1>0, <1>5, <5>1, <5>2 DEF Held
      <4>3. ASSUME NEW j \in 1..r PROVE new[j] = all[n - r + j]
        <5>1. CASE j = r
          BY <1>1, <3>2, <4>1, <5>1
        <5>2. CASE j < r
          <6>1. new[j] = asked[n - r + (j + 1)]
            BY <1>1, <1>7, <3>2, <5>2
          <6>2. n - r + j \in 1..(n - 1) /\ ~(n - r + j < h) /\ n - r + (j + 1) = n - r + j + 1
            BY <1>1, <4>2, <5>2
          <6> QED BY <4>1, <6>1, <6>2
        <5> QED BY <1>1, <5>1, <5>2
      <4>4. Ends(new, all)
        <5>1. r = IF n <= Limit THEN n ELSE Limit
          BY <1>1, <3>0
        <5> QED BY <1>1, <3>2, <4>1, <4>3, <5>1, EndsWhen
      <4> QED BY <1>3, <3>2, <4>4 DEF all, new
    <3> QED BY <3>3, <3>4
  <2> QED BY <1>1, <2>2, <2>3
<1> QED BY <1>4, <1>5
-----------------------------------------------------------------------------
(* Connections *)

Typed ==
    /\ main \in {"serving", "closing", "joining", "exited"}
    /\ poller \in {"running", "failed", "ended"}
    /\ stop \in BOOLEAN /\ closing \in BOOLEAN /\ listening \in BOOLEAN
    /\ clients \subseteq Conns
    /\ handler \in [Conns -> {"none", "created", "reading", "draining", "leaving", "done"}]
    /\ transport \in [Conns -> {"none", "open", "closing", "lost"}]
    /\ unsent \in [Conns -> BOOLEAN]

\* The server accepts connections until it closes.
Phase ==
    /\ listening = ~closing /\ closing = (main # "serving")

\* A connection has a handler; one that is open and whose handler runs is
\* among the clients that close() closes, and none survives it.
Connected ==
    /\ \A c \in Conns : handler[c] = "none" <=> transport[c] = "none"
    /\ \A c \in Conns : transport[c] = "open" /\ handler[c] # "created" => c \in clients
    /\ main \in {"joining", "exited"} => \A c \in Conns : transport[c] \in {"none", "lost"}

ServerInv == Typed /\ Phase /\ Connected /\ NoneForgotten

\* A step of a handler: what becomes of it, of its connection and of clients.
Handled(c) ==
    /\ UNCHANGED <<main, stop, poller, closing, listening>>
    /\ \E h \in {"created", "reading", "draining", "leaving", "done"},
          t \in {"open", "closing", "lost"} :
          /\ handler' = [handler EXCEPT ![c] = h] /\ transport' = [transport EXCEPT ![c] = t]
          /\ clients' \in {clients, clients \cup {c}, clients \ {c}}
          /\ h = "created" => listening \/ handler[c] = "created"
          /\ t = "open" /\ h # "created" => c \in clients' /\ ~closing
          /\ t # "lost" => listening \/ transport[c] \in {"open", "closing"}
    /\ unsent' \in [Conns -> BOOLEAN]

LEMMA HandledInv == ASSUME ServerInv, NEW c \in Conns, Handled(c) PROVE ServerInv'
<1>1. PICK h \in {"created", "reading", "draining", "leaving", "done"},
           t \in {"open", "closing", "lost"} :
          /\ handler' = [handler EXCEPT ![c] = h] /\ transport' = [transport EXCEPT ![c] = t]
          /\ clients' \in {clients, clients \cup {c}, clients \ {c}}
          /\ h = "created" => listening \/ handler[c] = "created"
          /\ t = "open" /\ h # "created" => c \in clients' /\ ~closing
          /\ t # "lost" => listening \/ transport[c] \in {"open", "closing"}
  BY DEF Handled
<1>2. UNCHANGED <<main, stop, poller, closing, listening>> /\ unsent' \in [Conns -> BOOLEAN]
  BY DEF Handled
<1>3. Typed
  BY DEF ServerInv
<1>4. /\ handler'[c] = h /\ transport'[c] = t
      /\ \A d \in Conns \ {c} : /\ handler'[d] = handler[d] /\ transport'[d] = transport[d]
                                /\ (d \in clients' <=> d \in clients)
  BY <1>1, <1>3 DEF Typed
<1>5. Typed' /\ Phase'
  BY <1>1, <1>2 DEF ServerInv, Typed, Phase
<1>6. Connected'
  <2>1. ASSUME NEW d \in Conns
        PROVE  /\ handler'[d] = "none" <=> transport'[d] = "none"
               /\ transport'[d] = "open" /\ handler'[d] # "created" => d \in clients'
    BY <1>1, <1>4 DEF ServerInv, Connected
  <2>2. ASSUME main \in {"joining", "exited"}, NEW d \in Conns
        PROVE  transport'[d] \in {"none", "lost"}
    BY <1>1, <1>4, <2>2 DEF ServerInv, Connected, Phase
  <2> QED BY <1>2, <2>1, <2>2 DEF Connected
<1>7. NoneForgotten'
  BY <1>1, <1>2, <1>4 DEF ServerInv, NoneForgotten
<1> QED BY <1>5, <1>6, <1>7 DEF ServerInv

\* The steps of connections and handlers are such steps.
LEMMA ConnectionSteps ==
    ASSUME ServerInv, NEW c \in Conns,
           \/ Connect(c) \/ PeerResets(c) \/ Flushed(c)
           \/ HandlerStep(c) \/ Hangup(c)
           \/ \E key \in Keys \cup {NoKey} : Answer(c, key)
    PROVE  Handled(c)
<1> USE DEF Handled, runVars, serverVars
<1>1. /\ handler[c] \in {"none", "created", "reading", "draining", "leaving", "done"}
      /\ transport[c] \in {"none", "open", "closing", "lost"}
      /\ handler = [handler EXCEPT ![c] = handler[c]]
      /\ transport = [transport EXCEPT ![c] = transport[c]]
      /\ unsent \in [Conns -> BOOLEAN]
  BY DEF ServerInv, Typed
<1>2. /\ handler[c] = "none" <=> transport[c] = "none"
      /\ transport[c] = "open" /\ handler[c] # "created" => c \in clients
  BY DEF ServerInv, Connected
<1>3. closing /\ transport[c] = "open" => handler[c] = "created"
  BY DEF ServerInv, NoneForgotten
<1>4. ASSUME Leave(c)
      PROVE  \E t \in {"none", "closing", "lost"} :
                /\ handler' = [handler EXCEPT ![c] = "leaving"]
                /\ transport' = [transport EXCEPT ![c] = t]
                /\ t = IF transport[c] = "open" THEN "closing" ELSE transport[c]
  BY <1>1, <1>4 DEF Leave, ClosedOne
<1>5. ASSUME Proceed(c), handler[c] # "none",
             UNCHANGED <<main, stop, poller, closing, listening>>, unsent' \in [Conns -> BOOLEAN],
             clients' = clients \/ clients' = clients \cup {c}, handler[c] = "created" => c \in clients'
      PROVE  Handled(c)
  <2>1. CASE closing /\ Leave(c)
    <3>1. PICK t \in {"none", "closing", "lost"} :
                /\ handler' = [handler EXCEPT ![c] = "leaving"]
                /\ transport' = [transport EXCEPT ![c] = t]
                /\ t = IF transport[c] = "open" THEN "closing" ELSE transport[c]
      BY <1>4, <2>1
    <3>2. t \in {"open", "closing", "lost"} /\ (t # "lost" => transport[c] \in {"open", "closing"})
      BY <1>1, <1>2, <1>5, <3>1
    <3> QED BY <1>5, <3>1, <3>2
  <2>2. CASE ~closing /\ handler' = [handler EXCEPT ![c] = "reading"] /\ UNCHANGED transport
    <3>1. transport' = [transport EXCEPT ![c] = transport[c]] /\ transport[c] # "none"
      BY <1>1, <1>2, <1>5, <2>2
    <3>2. transport[c] = "open" => c \in clients'
      BY <1>2, <1>5
    <3> QED BY <1>1, <1>5, <2>2, <3>1, <3>2
  <2> QED BY <1>5, <2>1, <2>2 DEF Proceed
<1>6. ASSUME Lost(c), handler[c] # "none" PROVE Handled(c)
  <2>1. /\ handler' = [handler EXCEPT ![c] = handler[c]] /\ clients' = clients
        /\ transport' = [transport EXCEPT ![c] = "lost"]
        /\ unsent' \in [Conns -> BOOLEAN]
    BY <1>1, <1>6 DEF Lost
  <2> QED BY <1>1, <1>6, <2>1 DEF Lost
<1>7. CASE Connect(c)
  <2>1. /\ handler' = [handler EXCEPT ![c] = "created"]
        /\ transport' = [transport EXCEPT ![c] = "open"] /\ listening
    BY <1>7 DEF Connect
  <2> QED BY <1>1, <1>7, <2>1 DEF Connect
<1>8. CASE PeerResets(c)
  BY <1>2, <1>6, <1>8 DEF PeerResets
<1>9. CASE Flushed(c)
  BY <1>2, <1>6, <1>9 DEF Flushed
<1>10. CASE Start(c)
  BY <1>1, <1>5, <1>10 DEF Start
<1>11. CASE Drained(c)
  BY <1>1, <1>5, <1>11 DEF Drained
<1>12. ASSUME Leave(c), UNCHANGED <<main, stop, poller, closing, listening, clients, unsent>>,
              handler[c] # "none"
       PROVE  Handled(c)
  <2>1. PICK t \in {"none", "closing", "lost"} :
              /\ handler' = [handler EXCEPT ![c] = "leaving"]
              /\ transport' = [transport EXCEPT ![c] = t]
              /\ t = IF transport[c] = "open" THEN "closing" ELSE transport[c]
    BY <1>4, <1>12
  <2>2. t \in {"open", "closing", "lost"} /\ (t # "lost" => transport[c] \in {"open", "closing"})
    BY <1>1, <1>2, <1>12, <2>1
  <2> QED BY <1>1, <1>12, <2>1, <2>2
<1>13. CASE Broken(c)
  BY <1>12, <1>13 DEF Broken
<1>14. CASE Hangup(c)
  BY <1>12, <1>14 DEF Hangup
<1>15. CASE Finish(c)
  <2>1. /\ handler' = [handler EXCEPT ![c] = "done"]
        /\ clients' = clients \ {c} \/ clients' = clients
        /\ transport' = [transport EXCEPT ![c] = "lost"]
        /\ unsent' \in [Conns -> BOOLEAN]
    BY <1>1, <1>15 DEF Finish
  <2> QED BY <1>1, <1>15, <2>1 DEF Finish
<1>16. ASSUME NEW key \in Keys \cup {NoKey}, Answer(c, key) PROVE Handled(c)
  <2>1. /\ handler[c] = "reading" /\ UNCHANGED <<main, stop, poller, closing, listening, clients>>
        /\ unsent' \in [Conns -> BOOLEAN]
        /\ Proceed(c) \/ (handler' = [handler EXCEPT ![c] = "draining"] /\ UNCHANGED transport)
    BY <1>1, <1>16 DEF Answer
  <2>2. CASE Proceed(c)
    BY <1>5, <2>1, <2>2
  <2>3. CASE handler' = [handler EXCEPT ![c] = "draining"] /\ UNCHANGED transport
    <3>1. transport' = [transport EXCEPT ![c] = transport[c]] /\ transport[c] # "none"
      BY <1>1, <1>2, <2>1, <2>3
    <3>2. transport[c] \in {"open", "closing"}
      BY <1>16 DEF Answer
    <3> QED BY <1>2, <1>3, <2>1, <2>3, <3>1, <3>2
  <2> QED BY <2>1, <2>2, <2>3
<1> QED BY <1>7, <1>8, <1>9, <1>10, <1>11, <1>13, <1>14, <1>15, <1>16 DEF HandlerStep

LEMMA PeerReadsInv == ASSUME ServerInv, NEW c \in Conns, PeerReads(c) PROVE ServerInv'
<1>1. /\ UNCHANGED <<main, stop, poller, closing, listening, clients, handler, transport>>
      /\ unsent' \in [Conns -> BOOLEAN]
  BY DEF PeerReads, runVars, serverVars, ServerInv, Typed
<1>2. Typed' /\ Phase' /\ Connected' /\ NoneForgotten'
  BY <1>1 DEF ServerInv, Typed, Phase, Connected, NoneForgotten
<1> QED BY <1>2 DEF ServerInv

\* close() closes every connection whose handler runs.
LEMMA CloseInv == ASSUME ServerInv, Close PROVE ServerInv'
<1>1. /\ main = "serving" /\ main' = "closing" /\ stop' = TRUE
      /\ closing' = TRUE /\ listening' = FALSE
      /\ UNCHANGED <<poller, clients, handler, unsent>>
      /\ transport' = [c \in Conns |-> IF c \in clients /\ transport[c] = "open"
                                       THEN "closing" ELSE transport[c]]
  BY DEF Close, CloseClients
<1>2. Typed'
  BY <1>1 DEF ServerInv, Typed
<1>3. Phase'
  BY <1>1 DEF Phase
<1>4. \A c \in Conns : /\ transport'[c] = "open" => transport[c] = "open" /\ c \notin clients
                       /\ transport'[c] = "none" <=> transport[c] = "none"
  BY <1>1
<1>5. NoneForgotten'
  BY <1>1, <1>4 DEF ServerInv, Connected, NoneForgotten
<1>6. Connected'
  BY <1>1, <1>4 DEF ServerInv, Connected
<1> QED BY <1>2, <1>3, <1>5, <1>6 DEF ServerInv

LEMMA MainInv ==
    ASSUME ServerInv, StopRequested \/ PollerFails \/ PollerEnds \/ Closed \/ Exit
    PROVE  ServerInv'
<1> USE DEF runVars, serverVars, connVars
<1>1. CASE StopRequested \/ PollerFails \/ PollerEnds
  <2>1. /\ UNCHANGED <<main, serverVars, connVars>> /\ stop' \in BOOLEAN
        /\ poller' \in {"running", "failed", "ended"}
    BY <1>1 DEF StopRequested, PollerFails, PollerEnds, ServerInv, Typed
  <2> QED BY <2>1 DEF ServerInv, Typed, Phase, Connected, NoneForgotten
<1>2. CASE Closed
  <2>1. /\ main = "closing" /\ main' = "joining" /\ UNCHANGED <<stop, poller, serverVars, connVars>>
        /\ \A c \in Conns : transport[c] \in {"none", "lost"}
    BY <1>2 DEF Closed
  <2> QED BY <2>1 DEF ServerInv, Typed, Phase, Connected, NoneForgotten
<1>3. CASE Exit
  <2>1. /\ main = "joining" /\ main' = "exited" /\ clients' = {}
        /\ handler' = [c \in Conns |-> IF handler[c] = "none" THEN "none" ELSE "done"]
        /\ UNCHANGED <<stop, poller, closing, listening, transport, unsent>>
    BY <1>3 DEF Exit
  <2>2. \A c \in Conns : /\ transport[c] \in {"none", "lost"}
                         /\ handler'[c] = "none" <=> transport[c] = "none"
    BY <2>1 DEF ServerInv, Connected
  <2>3. Typed'
    BY <2>1 DEF ServerInv, Typed
  <2>4. Phase' /\ NoneForgotten'
    BY <2>1, <2>2 DEF ServerInv, Phase, NoneForgotten
  <2>5. Connected'
    BY <2>1, <2>2 DEF Connected
  <2> QED BY <2>3, <2>4, <2>5 DEF ServerInv
<1> QED BY <1>1, <1>2, <1>3

\* Every step keeps the log, or is the answer to one logged request.
LEMMA LogStep == ASSUME LogInv, [Next]_vars PROVE LogInv'
<1>1. \/ UNCHANGED cacheVars
      \/ \E c \in Conns, key \in Keys \cup {NoKey} : Answer(c, key)
  BY DEF Next, HandlerStep, Connect, PeerReads, PeerResets, Flushed, Lost, Start, Drained,
         Broken, Hangup, Finish, StopRequested, PollerFails, PollerEnds, Close, Closed, Exit, vars
<1>2. CASE UNCHANGED cacheVars
  BY <1>2 DEF cacheVars, LogInv, Distinct, Ends
<1>3. ASSUME NEW c \in Conns, NEW key \in Keys \cup {NoKey}, Answer(c, key) PROVE LogInv'
  <2>1. CASE key = NoKey
    <3>1. UNCHANGED cacheVars
      BY <1>3, <2>1 DEF Answer, Logged, cacheVars
    <3> QED BY <3>1 DEF cacheVars, LogInv, Distinct, Ends
  <2>2. CASE key # NoKey
    <3>1. key \in Keys
      BY <2>2
    <3>2. recent' = Remember(key) /\ asked' = Renewed(asked, key)
      BY <1>3, <2>2 DEF Answer, Logged, Renewed
    <3>3. /\ Renewed(asked, key) \in Seq(Keys) /\ Remember(key) \in Seq(Keys)
          /\ Distinct(Renewed(asked, key)) /\ Ends(Remember(key), Renewed(asked, key))
      BY <3>1, RememberEnds
    <3>4. /\ asked' \in Seq(Keys) /\ recent' \in Seq(Keys)
          /\ Distinct(asked') /\ Ends(recent', asked')
      BY <3>2, <3>3
    <3> QED BY <3>4 DEF LogInv, Distinct, Ends
  <2> QED BY <2>1, <2>2
<1> QED BY <1>1, <1>2, <1>3
-----------------------------------------------------------------------------
(* The theorems *)

IInv == ServerInv /\ LogInv

LEMMA InitIInv == Init => IInv
<1> SUFFICES ASSUME Init PROVE IInv
  OBVIOUS
<1>1. Typed /\ Phase /\ Connected /\ NoneForgotten
  BY DEF Init, Typed, Phase, Connected, NoneForgotten
<1>2. asked = <<>> /\ recent = <<>> /\ <<>> \in Seq(Keys) /\ Len(<<>>) = 0
  BY DEF Init
<1>3. LogInv
  BY <1>2, ServerAssumption DEF LogInv, Distinct, Ends
<1> QED BY <1>1, <1>3 DEF IInv, ServerInv

LEMMA NextIInv == IInv /\ [Next]_vars => IInv'
<1> SUFFICES ASSUME IInv, [Next]_vars PROVE IInv'
  OBVIOUS
<1>1. ServerInv /\ LogInv
  BY DEF IInv
<1>2. LogInv'
  BY <1>1, LogStep
<1>3. ServerInv'
  <2>1. ASSUME NEW c \in Conns,
               \/ Connect(c) \/ PeerReads(c) \/ PeerResets(c) \/ Flushed(c)
               \/ HandlerStep(c) \/ Hangup(c)
               \/ \E key \in Keys \cup {NoKey} : Answer(c, key)
        PROVE  ServerInv'
    <3>1. CASE PeerReads(c)
      BY <1>1, <3>1, PeerReadsInv
    <3>2. CASE ~PeerReads(c)
      <4>1. Handled(c)
        BY <1>1, <2>1, <3>2, ConnectionSteps
      <4> QED BY <1>1, <4>1, HandledInv
    <3> QED BY <3>1, <3>2
  <2>2. CASE Close
    BY <1>1, <2>2, CloseInv
  <2>3. CASE StopRequested \/ PollerFails \/ PollerEnds \/ Closed \/ Exit
    BY <1>1, <2>3, MainInv
  <2>4. CASE UNCHANGED vars
    BY <1>1, <2>4 DEF vars, runVars, serverVars, connVars, ServerInv, Typed, Phase, Connected,
       NoneForgotten
  <2> QED BY <2>1, <2>2, <2>3, <2>4 DEF Next
<1> QED BY <1>2, <1>3 DEF IInv

LEMMA Invariance == Spec => []IInv
BY InitIInv, NextIInv, PTL DEF Spec

\* The server's variables have their types, for any number of connections.
THEOREM ServerTypes == Spec => []TypeOK
<1>1. ASSUME LogInv
      PROVE  /\ \A i \in DOMAIN recent : recent[i] \in Keys
             /\ \A i \in DOMAIN asked : asked[i] \in Keys
  BY <1>1, LenProperties, ElementOfSeq DEF LogInv
<1>2. IInv => TypeOK
  BY <1>1 DEF IInv, ServerInv, Typed, TypeOK
<1> QED BY <1>2, Invariance, PTL

\* For any number of connections: one that close() leaves open belongs to a
\* handler that has not started, and will end by itself.
THEOREM CloseForgetsNone == Spec => []NoneForgotten
<1>1. IInv => NoneForgotten
  BY DEF IInv, ServerInv
<1> QED BY <1>1, Invariance, PTL

\* For any keys and limit, and any order of answers of any connections: the
\* log holds the last Limit signatures, so that a signature that is evicted
\* has been silent longer than every one that is kept.
THEOREM LogKeepsLatest == Spec => []RecentIsLatest
<1>1. ASSUME LogInv PROVE RecentIsLatest
  <2> DEFINE n == Len(asked)
             new == SubSeq(asked, n - Limit + 1, n)
  <2>1. /\ n \in Nat /\ Limit \in Nat /\ Limit > 0 /\ asked \in Seq(Keys) /\ recent \in Seq(Keys)
        /\ \A i \in 1..n : asked[i] \in Keys
    BY <1>1, ServerAssumption, LenProperties, ElementOfSeq DEF LogInv
  <2>2. CASE n <= Limit
    <3>1. Len(recent) = n /\ \A i \in 1..n : recent[i] = asked[n - n + i]
      BY <1>1, <2>2 DEF LogInv, Ends
    <3>2. \A i \in 1..n : n - n + i = i
      BY <2>1
    <3>3. Len(recent) = Len(asked) /\ \A i \in 1..Len(recent) : recent[i] = asked[i]
      BY <3>1, <3>2
    <3>4. recent = asked
      BY <2>1, <3>3, SeqEqual
    <3> QED BY <2>2, <3>4 DEF RecentIsLatest
  <2>3. CASE n > Limit
    <3>1. Len(recent) = Limit /\ \A i \in 1..Limit : recent[i] = asked[n - Limit + i]
      <4>1. Len(recent) = Limit
        BY <1>1, <2>1, <2>3 DEF LogInv, Ends
      <4>2. \A i \in 1..Len(recent) : recent[i] = asked[n - Len(recent) + i]
        BY <1>1 DEF LogInv, Ends
      <4> QED BY <4>1, <4>2
    <3> HIDE DEF n, new
    <3>2. n - Limit + 1 \in Int /\ n \in Int /\ \A i \in (n - Limit + 1)..n : asked[i] \in Keys
      BY <2>1, <2>3
    <3>3. /\ new \in Seq(Keys)
          /\ Len(new) = IF n - Limit + 1 <= n THEN n - (n - Limit + 1) + 1 ELSE 0
          /\ \A i \in 1..(n - (n - Limit + 1) + 1) : new[i] = asked[(n - Limit + 1) + i - 1]
      BY <3>2, SubSeqProperties DEF new
    <3>4. n - (n - Limit + 1) + 1 = Limit /\ n - Limit + 1 <= n
      BY <2>1
    <3>5. Len(new) = Limit /\ \A i \in 1..Limit : new[i] = asked[n - Limit + i]
      <4>1. \A i \in 1..Limit : (n - Limit + 1) + i - 1 = n - Limit + i
        BY <2>1
      <4> QED BY <3>3, <3>4, <4>1
    <3>6. recent = new
      BY <2>1, <3>1, <3>3, <3>5, SeqEqual
    <3> QED BY <2>1, <2>3, <3>6 DEF RecentIsLatest, n, new
  <2> QED BY <2>1, <2>2, <2>3
<1>2. IInv => RecentIsLatest
  BY <1>1 DEF IInv
<1> QED BY <1>2, Invariance, PTL
=============================================================================
