-------------------------- MODULE WatchdogProofs --------------------------
(***************************************************************************)
(* Theorems about Watchdog, for any watchdogs, tasks, callbacks and times. *)
(***************************************************************************)
EXTENDS Watchdog, TaskListsProofs, WellFoundedInduction

-----------------------------------------------------------------------------
(* Numbers *)

\* A set of numbers has a least one.
LEMMA Least ==
    ASSUME NEW T, T \subseteq Nat, T # {}
    PROVE  \E x \in T : \A y \in T : x <= y
  <1> DEFINE R == OpToRel(<, Nat)
  <1>1. IsWellFoundedOn(R, Nat)
    BY NatLessThanWellFounded
  <1>2. \A x, y \in Nat : <<x, y>> \in R <=> x < y
    BY DEF OpToRel
  <1> HIDE DEF R
  <1>3. PICK x \in T : \A y \in T : ~ (<<y, x>> \in R)
    BY <1>1, WFMin
  <1>4. ASSUME NEW y \in T PROVE x <= y
    <2>1. x \in Nat /\ y \in Nat
      OBVIOUS
    <2>2. ~(y < x)
      BY <1>2, <1>3, <2>1
    <2> QED BY <2>1, <2>2
  <1> QED BY <1>4

(* The conversion to int keeps the sign of the difference of two times     *)
(* below IntHalf.                                                          *)
LEMMA ComparatorSign ==
    ASSUME NEW e \in Nat, NEW f \in Nat, e < IntHalf, f < IntHalf
    PROVE  watchdog_expiration_comparator(e, f) < 0 <=> e < f
  <1>1. IntHalf \in Nat \ {0}
    BY WatchdogAssumption
  <1> DEFINE a == e - f + IntHalf
             m == 2 * IntHalf
  <1>2. a \in 0..(m - 1) /\ m \in Nat \ {0}
    BY <1>1
  <1>3. a % m = a
    <2> HIDE DEF a, m
    <2> QED BY <1>2
  <1> QED BY <1>1, <1>3 DEF watchdog_expiration_comparator, ToInt

\* Both conversions to ticks give a delay, long enough for the request.
LEMMA TicksOfRequest ==
    ASSUME NEW r \in Requests
    PROVE  /\ r[1] \in Nat /\ r[2] \in Nat
           /\ SecTicks(r[1]) \in Nat \ {0} /\ NsecTicks(r[2]) \in Nat \ {0}
           /\ SecTicks(r[1]) >= r[1] * HZ
           /\ NsecTicks(r[2]) * TICK_IN_NSEC >= r[2]
           /\ SecTicks(r[1]) \in AllDelays /\ NsecTicks(r[2]) \in AllDelays
  <1>1. r[1] \in Nat /\ r[2] \in Nat
    BY WatchdogAssumption
  <1>2. ASSUME NEW s \in Nat
        PROVE  SecTicks(s) \in Nat \ {0} /\ SecTicks(s) >= s * HZ
    BY WatchdogAssumption DEF SecTicks
  <1>3. ASSUME NEW n \in Nat
        PROVE  NsecTicks(n) \in Nat \ {0} /\ NsecTicks(n) * TICK_IN_NSEC >= n
    <2>1. TICK_IN_NSEC \in Nat \ {0}
      BY WatchdogAssumption
    <2> QED BY <2>1 DEF NsecTicks
  <1>4. SecTicks(r[1]) \in AllDelays /\ NsecTicks(r[2]) \in AllDelays
    BY DEF AllDelays
  <1> QED BY <1>1, <1>2, <1>3, <1>4

\* Every delay is a number above zero that fits below IntHalf.
LEMMA DelayTypes ==
    /\ AllDelays \subseteq Nat \ {0} /\ Delays \subseteq AllDelays
    /\ \A d \in AllDelays, n \in Nat : n <= MaxTick => n + d < IntHalf
  <1>1. AllDelays \subseteq Nat \ {0} /\ Delays \subseteq AllDelays
    BY WatchdogAssumption, TicksOfRequest DEF AllDelays
  <1>2. ASSUME NEW d \in AllDelays, NEW n \in Nat, n <= MaxTick
        PROVE  n + d < IntHalf
    BY <1>1, <1>2, WatchdogAssumption, UptimeAssumption
  <1> QED BY <1>1, <1>2

-----------------------------------------------------------------------------
(* The sorted list *)

\* s is in the order of f.
Ordered(s, f) == \A i, j \in 1..Len(s) : i < j => f[s[i]] <= f[s[j]]

\* s with x put in at place p.
Put(s, p, x) ==
    [i \in 1..Len(s) + 1 |-> IF i < p THEN s[i] ELSE IF i = p THEN x ELSE s[i - 1]]

\* A watchdog put at a place of a list is on it once.
LEMMA PutOnce ==
    ASSUME NEW s \in Seq(Wds), IsInjective(s), NEW x \in Wds \ Range(s),
           NEW p \in 1..Len(s) + 1
    PROVE  /\ Put(s, p, x) \in Seq(Wds) /\ Len(Put(s, p, x)) = Len(s) + 1
           /\ Range(Put(s, p, x)) = Range(s) \cup {x}
           /\ IsInjective(Put(s, p, x))
  <1> DEFINE n == Len(s)
             q == Put(s, p, x)
  <1>1. n \in Nat /\ DOMAIN s = 1..n /\ \A i \in 1..n : s[i] \in Wds /\ s[i] # x
    BY RangeAt
  <1>2. q = [i \in 1..n + 1 |-> IF i < p THEN s[i] ELSE IF i = p THEN x ELSE s[i - 1]]
    BY DEF Put
  <1>3. \A i \in 1..n + 1 : q[i] \in Wds
    BY <1>1, <1>2
  <1>4. q \in Seq(Wds) /\ Len(q) = n + 1 /\ DOMAIN q = 1..n + 1
    <2>1. q \in [1..n + 1 -> Wds] /\ n + 1 \in Nat
      BY <1>1, <1>2, <1>3
    <2> HIDE DEF q, n
    <2> QED BY <2>1
  <1>5. Range(q) = Range(s) \cup {x}
    <2>0. \A i \in 1..n : s[i] \in Range(s)
      BY <1>1 DEF Range
    <2>1. \A i \in 1..n + 1 : q[i] \in Range(s) \cup {x}
      BY <1>1, <1>2, <2>0
    <2>2. q[p] = x
      BY <1>1, <1>2
    <2>5. ASSUME NEW i \in 1..n PROVE s[i] \in Range(q)
      <3>1. CASE i < p
        <4>1. i \in 1..n + 1 /\ q[i] = s[i]
          BY <1>1, <1>2, <3>1
        <4> HIDE DEF q, n
        <4> QED BY <1>4, <4>1 DEF Range
      <3>2. CASE ~(i < p)
        <4>1. i + 1 \in 1..n + 1 /\ q[i + 1] = s[i]
          BY <1>1, <1>2, <3>2
        <4> HIDE DEF q, n
        <4> QED BY <1>4, <4>1 DEF Range
      <3> QED BY <3>1, <3>2
    <2>6. x \in Range(q)
      <3> HIDE DEF q, n
      <3> QED BY <1>4, <2>2 DEF Range, n
    <2>7. Range(q) \subseteq Range(s) \cup {x}
      <3> HIDE DEF q, n
      <3> QED BY <1>4, <2>1 DEF Range
    <2>8. ASSUME NEW y \in Range(s) PROVE y \in Range(q)
      <3>1. PICK i \in 1..n : s[i] = y
        BY <1>1 DEF Range
      <3> QED BY <2>5, <3>1
    <2> HIDE DEF q
    <2> QED BY <2>6, <2>7, <2>8
  <1>6. IsInjective(q)
    <2>1. \A i, j \in 1..n : s[i] = s[j] => i = j
      BY <1>1 DEF IsInjective
    <2>2. ASSUME NEW i \in 1..n + 1, NEW j \in 1..n + 1, q[i] = q[j]
          PROVE  i = j
      BY <1>1, <1>2, <2>1, <2>2
    <2> HIDE DEF q, n
    <2> QED BY <1>4, <2>2 DEF IsInjective
  <1> QED BY <1>4, <1>5, <1>6

(* list_sorted_add puts x behind all that expire no later, in front of all *)
(* that expire later.                                                      *)
LEMMA SortedAddPlace ==
    ASSUME NEW s \in Seq(Wds), NEW x, NEW e \in Nat, e < IntHalf,
           end \in [Wds -> Nat], \A y \in Wds : end[y] < IntHalf
    PROVE  \E p \in 1..Len(s) + 1 :
             /\ list_sorted_add(s, x, e) = Put(s, p, x)
             /\ p <= Len(s) => e < end[s[p]]
             /\ \A j \in 1..p - 1 : end[s[j]] <= e
  <1> DEFINE After(i) == watchdog_expiration_comparator(e, end[s[i]]) < 0
             n == Len(s)
             Here(i) == (i <= n => After(i)) /\ \A j \in 1..i - 1 : ~After(j)
             p == CHOOSE i \in 1..n + 1 : Here(i)
  <1>1. n \in Nat /\ \A i \in 1..n : s[i] \in Wds
    OBVIOUS
  <1>2. \A i \in 1..n : After(i) <=> e < end[s[i]]
    BY <1>1, ComparatorSign
  <1>3. \E i \in 1..n + 1 : Here(i)
    <2> HIDE DEF After, n
    <2> DEFINE T == {i \in 1..n + 1 : i <= n => After(i)}
    <2>1. n + 1 \in T /\ T \subseteq Nat
      BY <1>1
    <2>2. PICK i \in T : \A j \in T : i <= j
      <3> HIDE DEF T
      <3> QED BY <2>1, Least
    <2>3. \A j \in 1..i - 1 : ~After(j)
      BY <1>1, <2>2
    <2>4. i \in 1..n + 1 /\ (i <= n => After(i))
      BY <2>2
    <2> QED BY <2>3, <2>4
  <1>4. p \in 1..n + 1 /\ Here(p)
    <2> HIDE DEF Here
    <2> QED BY <1>3
  <1>5. list_sorted_add(s, x, e) = Put(s, p, x)
    BY DEF list_sorted_add, Put
  <1> HIDE DEF p, After
  <1>6. \A j \in 1..p - 1 : j \in 1..n /\ end[s[j]] <= e
    BY <1>1, <1>2, <1>4
  <1>7. p <= n => e < end[s[p]]
    BY <1>1, <1>2, <1>4
  <1> QED BY <1>4, <1>5, <1>6, <1>7

\* It keeps the list sorted, with the new watchdog's time.
LEMMA SortedAddOrdered ==
    ASSUME NEW s \in Seq(Wds), IsInjective(s), NEW x \in Wds \ Range(s),
           NEW e \in Nat, e < IntHalf,
           end \in [Wds -> Nat], \A y \in Wds : end[y] < IntHalf,
           Ordered(s, end)
    PROVE  /\ list_sorted_add(s, x, e) \in Seq(Wds)
           /\ Range(list_sorted_add(s, x, e)) = Range(s) \cup {x}
           /\ IsInjective(list_sorted_add(s, x, e))
           /\ Ordered(list_sorted_add(s, x, e), [end EXCEPT ![x] = e])
  <1>1. PICK p \in 1..Len(s) + 1 :
             /\ list_sorted_add(s, x, e) = Put(s, p, x)
             /\ p <= Len(s) => e < end[s[p]]
             /\ \A j \in 1..p - 1 : end[s[j]] <= e
    BY SortedAddPlace
  <1> DEFINE q == Put(s, p, x)
             f == [end EXCEPT ![x] = e]
             n == Len(s)
  <1>2. n \in Nat /\ \A i \in 1..n : s[i] \in Wds /\ s[i] # x /\ end[s[i]] \in Nat
    BY RangeAt
  <1>3. f[x] = e /\ \A i \in 1..n : f[s[i]] = end[s[i]]
    BY <1>2
  <1>4. \A i \in 1..n + 1 : q[i] = IF i < p THEN s[i] ELSE IF i = p THEN x ELSE s[i - 1]
    BY DEF Put
  <1>41. /\ \A i \in 1..n + 1 : i < p => q[i] = s[i]
         /\ \A i \in 1..n + 1 : i > p => q[i] = s[i - 1]
         /\ q[p] = x
    <2> HIDE DEF q, n
    <2> QED BY <1>2, <1>4 DEF n
  <1>5. /\ \A i \in 1..n : i < p => end[s[i]] <= e
        /\ \A i \in 1..n : i >= p => e <= end[s[i]]
    <2>1. ASSUME NEW i \in 1..n, i < p PROVE end[s[i]] <= e
      BY <1>1, <1>2, <2>1
    <2>2. ASSUME NEW i \in 1..n, i >= p PROVE e <= end[s[i]]
      <3>1. p \in 1..n /\ e < end[s[p]]
        BY <1>1, <1>2, <2>2
      <3>2. end[s[p]] <= end[s[i]]
        BY <1>2, <2>2, <3>1 DEF Ordered
      <3> QED BY <1>2, <3>1, <3>2
    <2> QED BY <2>1, <2>2
  <1>6. ASSUME NEW i \in 1..n + 1, NEW j \in 1..n + 1, i < j
        PROVE  f[q[i]] <= f[q[j]]
    <2> HIDE DEF q, f
    <2>1. CASE i < p /\ j < p
      <3>1. i \in 1..n /\ j \in 1..n
        BY <1>2, <2>1
      <3> QED BY <1>3, <1>4, <1>6, <2>1, <3>1 DEF Ordered
    <2>2. CASE i < p /\ j = p
      <3>1. i \in 1..n
        BY <1>2, <2>2
      <3> QED BY <1>3, <1>4, <1>5, <2>2, <3>1
    <2>3. CASE i < p /\ j > p
      <3>1. i \in 1..n /\ j - 1 \in 1..n /\ j - 1 >= p
        <4> HIDE DEF n
        <4> QED BY <1>2, <2>3
      <3>2. f[q[i]] = end[s[i]] /\ f[q[j]] = end[s[j - 1]]
        <4> HIDE DEF n
        <4>1. q[i] = s[i] /\ q[j] = s[j - 1]
          BY <1>41, <2>3
        <4> QED BY <1>3, <3>1, <4>1
      <3>3. end[s[i]] <= e /\ e <= end[s[j - 1]]
        BY <1>5, <2>3, <3>1
      <3> QED BY <1>2, <3>1, <3>2, <3>3
    <2>4. CASE i = p
      <3>1. j - 1 \in 1..n /\ j - 1 >= p
        BY <1>2, <1>6, <2>4
      <3>2. f[q[i]] = e /\ f[q[j]] = end[s[j - 1]]
        <4> HIDE DEF n
        <4>1. q[i] = x /\ q[j] = s[j - 1]
          BY <1>41, <1>6, <2>4
        <4> QED BY <1>3, <3>1, <4>1
      <3> QED BY <1>5, <3>1, <3>2
    <2>5. CASE i > p
      <3>1. i - 1 \in 1..n /\ j - 1 \in 1..n /\ i - 1 < j - 1
        BY <1>2, <1>6, <2>5
      <3>2. f[q[i]] = end[s[i - 1]] /\ f[q[j]] = end[s[j - 1]]
        <4>0. j > p
          BY <1>2, <1>6, <2>5
        <4>1. q[i] = s[i - 1] /\ q[j] = s[j - 1]
          <5> HIDE DEF n
          <5> QED BY <1>41, <2>5, <4>0
        <4>2. f[s[i - 1]] = end[s[i - 1]]
          <5> HIDE DEF n
          <5> QED BY <1>3, <3>1
        <4>3. f[s[j - 1]] = end[s[j - 1]]
          <5> HIDE DEF n
          <5> QED BY <1>3, <3>1
        <4> QED BY <4>1, <4>2, <4>3
      <3> QED BY <3>1, <3>2 DEF Ordered
    <2> QED BY <1>6, <2>1, <2>2, <2>3, <2>4, <2>5
  <1>7. q \in Seq(Wds) /\ Len(q) = n + 1 /\ Range(q) = Range(s) \cup {x}
        /\ IsInjective(q)
    BY PutOnce
  <1> HIDE DEF q, f
  <1>8. Ordered(q, f)
    BY <1>6, <1>7 DEF Ordered
  <1> QED BY <1>1, <1>7, <1>8 DEF q, f

\* A sorted list stays sorted when a watchdog is taken out.
LEMMA UnlinkOrdered ==
    ASSUME NEW s \in Seq(Wds), NEW x, NEW f \in [Wds -> Nat], Ordered(s, f)
    PROVE  Ordered(Unlink(s, x), f)
  <1>1. CASE x \notin Range(s)
    BY <1>1 DEF Unlink
  <1>2. CASE x \in Range(s)
    <2> DEFINE k == IndexOf(s, x)
               u == Unlink(s, x)
               n == Len(s)
    <2>1. n \in Nat \ {0} /\ Len(u) = n - 1
      BY <1>2, UnlinkLen
    <2>2. k \in 1..n
      BY <1>2, RangeAt DEF IndexOf
    <2>3. \A i \in 1..n - 1 : u[i] = IF i < k THEN s[i] ELSE s[i + 1]
      BY <1>2 DEF Unlink
    <2> HIDE DEF k, u
    <2>4. ASSUME NEW i \in 1..n - 1, NEW j \in 1..n - 1, i < j
          PROVE  f[u[i]] <= f[u[j]]
      <3>1. PICK a \in 1..n, b \in 1..n : u[i] = s[a] /\ u[j] = s[b] /\ a < b
        <4>1. CASE i < k /\ j < k
          <5>1. i \in 1..n /\ j \in 1..n
            BY <2>1
          <5>2. u[i] = s[i]
            BY <2>3, <4>1
          <5>3. u[j] = s[j]
            BY <2>3, <4>1
          <5> QED BY <2>4, <5>1, <5>2, <5>3
        <4>2. CASE i < k /\ j >= k
          <5>1. i \in 1..n /\ j + 1 \in 1..n /\ i < j + 1 /\ ~(j < k)
            BY <2>1, <2>2, <2>4, <4>2
          <5>2. u[i] = s[i]
            BY <2>3, <4>2
          <5>3. u[j] = s[j + 1]
            BY <2>3, <5>1
          <5> QED BY <5>1, <5>2, <5>3
        <4>3. CASE i >= k
          <5>1. /\ i + 1 \in 1..n /\ j + 1 \in 1..n /\ i + 1 < j + 1
                /\ ~(i < k) /\ ~(j < k)
            BY <2>1, <2>2, <2>4, <4>3
          <5>2. u[i] = s[i + 1] /\ u[j] = s[j + 1]
            BY <2>3, <5>1
          <5> QED BY <5>1, <5>2
        <4> QED BY <2>2, <4>1, <4>2, <4>3
      <3> QED BY <3>1 DEF Ordered
    <2> QED BY <2>1, <2>4 DEF Ordered, u
  <1> QED BY <1>1, <1>2

(* The first watchdog of the list: taking out another leaves it the first, *)
(* and so does adding one that expires later.                              *)
LEMMA FirstStays ==
    ASSUME NEW s \in Seq(Wds), IsInjective(s), s # <<>>
    PROVE  /\ s[1] \in Range(s)
           /\ \A x : x # s[1] => Unlink(s, x) # <<>> /\ Unlink(s, x)[1] = s[1]
           /\ \A x \in Wds, p \in 2..Len(s) + 1 :
                Put(s, p, x) # <<>> /\ Put(s, p, x)[1] = s[1]
  <1>1. Len(s) \in Nat \ {0} /\ s[1] \in Range(s) /\ 1 \in 1..Len(s)
    BY RangeAt
  <1>2. ASSUME NEW x, x # s[1] PROVE Unlink(s, x) # <<>> /\ Unlink(s, x)[1] = s[1]
    <2>1. CASE x \notin Range(s)
      BY <2>1 DEF Unlink
    <2>2. CASE x \in Range(s)
      <3>1. PICK k \in 1..Len(s) : s[k] = x
        BY <2>2, RangeAt
      <3>2. IndexOf(s, x) = k /\ k > 1
        <4>1. IndexOf(s, s[k]) = k
          BY <3>1, IndexOfAt
        <4> QED BY <1>1, <1>2, <3>1, <4>1
      <3>3. Unlink(s, x) = [i \in 1..(Len(s) - 1) |->
                               IF i < k THEN s[i] ELSE s[i + 1]]
        BY <2>2, <3>2 DEF Unlink
      <3>4. 1 \in 1..(Len(s) - 1)
        <4>1. Len(s) > 1
          BY <1>1, <3>1, <3>2
        <4> QED BY <1>1, <4>1
      <3>5. Unlink(s, x)[1] = s[1]
        BY <3>2, <3>3, <3>4
      <3>6. Len(Unlink(s, x)) # 0
        BY <1>1, <2>2, <3>4, UnlinkLen
      <3> QED BY <3>5, <3>6
    <2> QED BY <2>1, <2>2
  <1>3. ASSUME NEW x \in Wds, NEW p \in 2..Len(s) + 1
        PROVE  Put(s, p, x) # <<>> /\ Put(s, p, x)[1] = s[1]
    <2>1. 1 \in 1..Len(s) + 1 /\ 1 < p
      BY <1>1
    <2> QED BY <2>1 DEF Put
  <1> QED BY <1>1, <1>2, <1>3

\* When the first is taken out, its successor is the first.
LEMMA UnlinkFirst ==
    ASSUME NEW s \in Seq(Wds), IsInjective(s), s # <<>>
    PROVE  NodeAfter(Head_, Unlink(s, s[1]), Head_) = NodeAfter(Head_, s, s[1])
  <1> DEFINE u == Tail(s)
  <1>1. Len(s) \in Nat \ {0} /\ 1 \in 1..Len(s) /\ Head_ \notin Wds /\ s[1] = Head(s)
    <2>1. Len(s) # 0
      BY RangeAt
    <2> QED BY <2>1, WatchdogAssumption
  <1>2. Unlink(s, s[1]) = u /\ u \in Seq(Wds) /\ IsInjective(u)
    <2>1. Unlink(s, s[1]) = u
      BY <1>1, UnlinkHead
    <2>2. Unlink(s, s[1]) \in Seq(Wds)
      BY UnlinkType
    <2>3. IsInjective(Unlink(s, s[1]))
      BY UnlinkOnce
    <2> QED BY <2>1, <2>2, <2>3
  <1>3. NodeAfter(Head_, s, s[1]) = IF 1 = Len(s) THEN Head_ ELSE s[1 + 1]
    <2>1. \A i \in 1..Len(s) : NodeAfter(Head_, s, s[i]) =
             IF i = Len(s) THEN Head_ ELSE s[i + 1]
      BY <1>1, NodeAfterAt
    <2> QED BY <1>1, <2>1
  <1>4. NodeAfter(Head_, u, Head_) = IF u = <<>> THEN Head_ ELSE u[1]
    <2> HIDE DEF u
    <2> QED BY <1>1, <1>2, NodeAfterAt
  <1>5. u = <<>> <=> 1 = Len(s)
    <2>1. Len(u) = Len(s) - 1
      BY <1>1
    <2>2. u = <<>> <=> Len(u) = 0
      <3> HIDE DEF u
      <3> QED BY <1>2, RangeAt
    <2> QED BY <1>1, <2>1, <2>2
  <1>6. u # <<>> => u[1] = s[1 + 1]
    BY <1>1
  <1> QED BY <1>2, <1>3, <1>4, <1>5, <1>6

\* node->next is the head, a node of the list, or the node itself.
LEMMA NodeAfterIn ==
    ASSUME NEW s \in Seq(Wds), NEW x
    PROVE  NodeAfter(Head_, s, x) \in Range(s) \cup {Head_, x}
  <1>1. CASE x = Head_
    BY <1>1, RangeAt DEF NodeAfter
  <1>2. CASE x # Head_ /\ x \notin Range(s)
    BY <1>2 DEF NodeAfter
  <1>3. CASE x # Head_ /\ x \in Range(s)
    <2>1. IndexOf(s, x) \in 1..Len(s) /\ Len(s) \in Nat
      BY <1>3, RangeAt DEF IndexOf
    <2>2. IndexOf(s, x) # Len(s) => IndexOf(s, x) + 1 \in 1..Len(s)
      BY <2>1
    <2>3. \A i \in 1..Len(s) : s[i] \in Range(s)
      BY RangeAt
    <2> QED BY <1>3, <2>2, <2>3 DEF NodeAfter
  <1> QED BY <1>1, <1>2, <1>3

-----------------------------------------------------------------------------
(* The list, the order and the nodes that the handler holds *)

\* The watchdogs that have been started since they were allocated.
Armed == {x \in live : start[x] < end[x]}

\* The nodes that the tick handler holds.
Visited == IF isr = "off" THEN {} ELSE {iter, niter}

ListInv ==
    /\ ~fault /\ IsInjective(wdog_head) /\ Ordered(wdog_head, end)
    /\ Range(wdog_head) \subseteq Armed
    /\ Started \subseteq live

IsrInv == /\ Visited \subseteq Armed \cup {Head_}
          /\ isr = "callback" => iter # Head_

(* A task inside watchdog_start has its watchdog to itself: once it has    *)
(* cancelled it, no tick can link it again.                                *)
CallInv ==
    \A t \in Tasks :
        /\ pc[t] # "idle" => wd[t] \in Owned[t] \cap live
        /\ pc[t] = "add" => wd[t] \notin Range(wdog_head) \cup Visited

TimeInv ==
    /\ ticks <= MaxTick
    /\ \A x \in Wds : end[x] < IntHalf
    /\ \A t \in Tasks : pc[t] \in {"lock", "cancel", "add"} =>
          ticks_arg[t] \in AllDelays /\ current_ticks[t] <= ticks

Inv == TypeOK /\ ListInv /\ IsrInv /\ CallInv /\ TimeInv

(* What linking a watchdog does, to whoever does it.                       *)
LEMMA ArmList ==
    ASSUME Inv, NEW x \in live, NEW s \in Seq(Wds), IsInjective(s),
           Ordered(s, end), Range(s) \subseteq Range(wdog_head), x \notin Range(s),
           NEW now \in Nat, NEW d \in AllDelays, now <= ticks,
           Arm(s, x, now, d), live' = live
    PROVE  /\ wdog_head' \in Seq(Wds) /\ Range(wdog_head') = Range(s) \cup {x}
           /\ IsInjective(wdog_head') /\ Ordered(wdog_head', end')
           /\ start' \in [Wds -> Nat] /\ end' \in [Wds -> Nat]
           /\ end'[x] = now + d /\ \A y \in Wds \ {x} : end'[y] = end[y]
           /\ \A y \in Wds : end'[y] < IntHalf
           /\ Armed' = Armed \cup {x}
  <1>1. /\ x \in Wds /\ end \in [Wds -> Nat] /\ start \in [Wds -> Nat]
        /\ ticks \in Nat /\ live \subseteq Wds
        /\ \A y \in Wds : end[y] < IntHalf
    BY DEF Inv, TypeOK, TimeInv
  <1>2. d \in Nat \ {0} /\ now + d \in Nat /\ now + d < IntHalf
    <2>1. now <= MaxTick
      BY <1>1, WatchdogAssumption DEF Inv, TimeInv
    <2> QED BY <2>1, DelayTypes
  <1>3. /\ start' = [start EXCEPT ![x] = now]
        /\ end' = [end EXCEPT ![x] = now + d]
        /\ wdog_head' = list_sorted_add(s, x, now + d)
    BY DEF Arm
  <1>4. /\ wdog_head' \in Seq(Wds) /\ Range(wdog_head') = Range(s) \cup {x}
        /\ IsInjective(wdog_head') /\ Ordered(wdog_head', end')
    BY <1>1, <1>2, <1>3, SortedAddOrdered
  <1>5. /\ start' \in [Wds -> Nat] /\ end' \in [Wds -> Nat]
        /\ start'[x] = now /\ end'[x] = now + d
        /\ \A y \in Wds \ {x} : end'[y] = end[y] /\ start'[y] = start[y]
    BY <1>1, <1>2, <1>3
  <1>6. \A y \in Wds : end'[y] < IntHalf
    BY <1>1, <1>2, <1>5
  <1>7. Armed' = Armed \cup {x}
    BY <1>1, <1>2, <1>5 DEF Armed
  <1> QED BY <1>4, <1>5, <1>6, <1>7

(* What taking one out does.                                               *)
LEMMA UnlinkList ==
    ASSUME Inv, NEW x, wdog_head' = Unlink(wdog_head, x), end' = end
    PROVE  /\ wdog_head' \in Seq(Wds) /\ Range(wdog_head') = Range(wdog_head) \ {x}
           /\ IsInjective(wdog_head') /\ Ordered(wdog_head', end')
  BY UnlinkType, UnlinkOnce, UnlinkOrdered DEF Inv, TypeOK, ListInv

\* The handler's loop starts.
LEMMA SystickInv ==
    ASSUME Inv, Systick
    PROVE  Inv'
  <1>1. /\ ticks' = ticks + 1 /\ ticks < MaxTick /\ isr' = "loop"
        /\ iter' = NodeAfter(Head_, wdog_head, Head_)
        /\ niter' = NodeAfter(Head_, wdog_head, iter')
        /\ UNCHANGED <<wdog_head, start, end, live, sem, pc, after, wd,
                       ticks_arg, current_ticks, req, called, fault>>
    BY DEF Systick, taskvars
  <1>2. /\ wdog_head \in Seq(Wds) /\ ticks \in Nat /\ MaxTick \in Nat
        /\ Range(wdog_head) \subseteq Wds /\ Head_ \notin Wds
        /\ current_ticks \in [Tasks -> Nat]
    BY RangeAt, WatchdogAssumption DEF Inv, TypeOK
  <1>3. /\ iter' \in Range(wdog_head) \cup {Head_}
        /\ niter' \in Range(wdog_head) \cup {Head_}
    BY <1>1, <1>2, NodeAfterIn
  <1>4. TypeOK'
    BY <1>1, <1>2, <1>3 DEF Inv, TypeOK
  <1>5. Armed' = Armed /\ Visited' \subseteq Range(wdog_head) \cup {Head_}
    BY <1>1, <1>3 DEF Armed, Visited
  <1>6. ListInv' /\ IsrInv'
    BY <1>1, <1>5 DEF Inv, ListInv, IsrInv
  <1>7. CallInv'
    <2>1. ASSUME NEW t \in Tasks
          PROVE  /\ pc[t] # "idle" => wd[t] \in Owned[t] \cap live
                 /\ pc[t] = "add" => wd[t] \notin Range(wdog_head) \cup Visited'
      <3>1. pc[t] # "idle" => wd[t] \in Owned[t] \cap live
        BY DEF Inv, CallInv
      <3>2. pc[t] = "add" => wd[t] \notin Range(wdog_head) /\ wd[t] # Head_
        BY <1>2 DEF Inv, CallInv, TypeOK
      <3> QED BY <1>5, <3>1, <3>2
    <2> QED BY <1>1, <2>1 DEF CallInv
  <1>8. TimeInv'
    BY <1>1, <1>2 DEF Inv, TimeInv
  <1> QED BY <1>4, <1>6, <1>7, <1>8 DEF Inv

\* The loop's tests.
LEMMA CheckInv ==
    ASSUME Inv, watchdog_check_expired
    PROVE  Inv'
  <1>1. /\ isr = "loop" /\ isr' \in {"off", "callback"}
        /\ isr' = "callback" => iter # Head_ /\ wdog_head' = Unlink(wdog_head, iter)
        /\ isr' = "off" => wdog_head' = wdog_head
        /\ UNCHANGED <<ticks, start, end, live, sem, iter, niter, pc, after, wd,
                       ticks_arg, current_ticks, req, called, fault>>
    BY DEF watchdog_check_expired, taskvars
  <1>2. /\ wdog_head' \in Seq(Wds) /\ Range(wdog_head') \subseteq Range(wdog_head)
        /\ IsInjective(wdog_head') /\ Ordered(wdog_head', end')
    <2>1. CASE isr' = "off"
      BY <1>1, <2>1 DEF Inv, TypeOK, ListInv
    <2>2. CASE isr' = "callback"
      BY <1>1, <2>2, UnlinkList
    <2> QED BY <1>1, <2>1, <2>2
  <1>3. TypeOK'
    BY <1>1, <1>2 DEF Inv, TypeOK
  <1>4. Armed' = Armed /\ Visited' \subseteq Visited
    BY <1>1 DEF Armed, Visited
  <1>5. ListInv' /\ IsrInv'
    BY <1>1, <1>2, <1>4 DEF Inv, ListInv, IsrInv
  <1>6. CallInv'
    BY <1>1, <1>2, <1>4 DEF Inv, CallInv
  <1>7. TimeInv'
    BY <1>1 DEF Inv, TimeInv
  <1> QED BY <1>3, <1>5, <1>6, <1>7 DEF Inv

\* A callback that links at most the watchdogs of S.
LEMMA CallbackInv ==
    ASSUME Inv, isr = "callback", NextNode, NEW S,
           wdog_head' \in Seq(Wds), IsInjective(wdog_head'),
           Ordered(wdog_head', end'), sem' \in [Wds -> Nat],
           Range(wdog_head') \subseteq Range(wdog_head) \cup S,
           \A t \in Tasks : pc[t] = "add" => wd[t] \notin S,
           start' \in [Wds -> Nat], end' \in [Wds -> Nat],
           \A x \in Wds : end'[x] < IntHalf, Armed \cup S \subseteq Armed'
    PROVE  Inv'
  <1>1. /\ isr' = "loop" /\ iter' = niter
        /\ niter' = NodeAfter(Head_, wdog_head', niter)
        /\ UNCHANGED <<ticks, live, pc, after, wd, ticks_arg, current_ticks,
                       req, called, fault>>
    BY DEF NextNode, taskvars
  <1>2. /\ niter \in Armed \cup {Head_} /\ niter \in Visited
        /\ Range(wdog_head) \subseteq Armed
    BY DEF Inv, IsrInv, ListInv, Visited
  <1>3. niter' \in Range(wdog_head') \cup {Head_, niter}
    BY <1>1, NodeAfterIn
  <1>4. TypeOK'
    <2>1. iter' \in Wds \cup {Head_} /\ niter' \in Wds \cup {Head_}
      BY <1>1, NodeAfterType DEF Inv, TypeOK
    <2> QED BY <1>1, <2>1 DEF Inv, TypeOK
  <1>5. Range(wdog_head') \subseteq Armed'
    BY <1>2
  <1>6. ListInv'
    BY <1>1, <1>5 DEF Inv, ListInv
  <1>7. Visited' = {niter, niter'}
    BY <1>1 DEF Visited
  <1>8. IsrInv'
    BY <1>1, <1>2, <1>3, <1>5, <1>7 DEF IsrInv
  <1>9. CallInv'
    <2>1. ASSUME NEW t \in Tasks
          PROVE  /\ pc[t] # "idle" => wd[t] \in Owned[t] \cap live
                 /\ pc[t] = "add" => wd[t] \notin Range(wdog_head') \cup Visited'
      <3>1. pc[t] # "idle" => wd[t] \in Owned[t] \cap live
        BY DEF Inv, CallInv
      <3>2. pc[t] = "add" => wd[t] \notin Range(wdog_head) \cup {niter, Head_}
        <4>1. pc[t] = "add" => wd[t] \notin Range(wdog_head) \cup Visited
          BY DEF Inv, CallInv
        <4>2. wd[t] \in Wds /\ Head_ \notin Wds
          BY WatchdogAssumption DEF Inv, TypeOK
        <4> QED BY <1>2, <4>1, <4>2
      <3> QED BY <1>3, <1>7, <3>1, <3>2
    <2> QED BY <1>1, <2>1 DEF CallInv
  <1>10. TimeInv'
    BY <1>1 DEF Inv, TimeInv
  <1> QED BY <1>4, <1>6, <1>8, <1>9, <1>10 DEF Inv

\* The callbacks.
LEMMA CallbacksInv ==
    ASSUME Inv, sleep_timeout \/ timer_callback \/ CallbackStarts \/ CallbackCancels
    PROVE  Inv'
  <1>1. isr = "callback" /\ NextNode /\ live' = live /\ ticks' = ticks
    BY DEF sleep_timeout, timer_callback, CallbackStarts, CallbackCancels, NextNode
  <1>2. /\ wdog_head \in Seq(Wds) /\ IsInjective(wdog_head)
        /\ Ordered(wdog_head, end) /\ start \in [Wds -> Nat]
        /\ end \in [Wds -> Nat] /\ sem \in [Wds -> Nat]
        /\ ticks \in Nat /\ \A x \in Wds : end[x] < IntHalf
    BY DEF Inv, TypeOK, ListInv, TimeInv
  <1>3. iter \in live
    BY <1>1 DEF Inv, IsrInv, Visited, Armed
  <1>4. CASE sleep_timeout
    <2>0. UNCHANGED <<wdog_head, start, end>>
      BY <1>4 DEF sleep_timeout
    <2>1. /\ sem' \in [Wds -> Nat] /\ start' \in [Wds -> Nat]
          /\ end' \in [Wds -> Nat] /\ \A y \in Wds : end'[y] < IntHalf
          /\ wdog_head' \in Seq(Wds) /\ IsInjective(wdog_head')
          /\ Ordered(wdog_head', end')
      <3>1. iter \in Wds /\ sem[iter] + 1 \in Nat
        BY <1>2, <1>3 DEF Inv, TypeOK
      <3>2. sem' = sem \/ sem' = [sem EXCEPT ![iter] = sem[iter] + 1]
        BY <1>4 DEF sleep_timeout
      <3> QED BY <1>2, <2>0, <3>1, <3>2
    <2> DEFINE S == {}
    <2>2. Armed \cup S \subseteq Armed'
      BY <1>1, <2>0 DEF Armed
    <2>3. Range(wdog_head') \subseteq Range(wdog_head) \cup S
      BY <2>0
    <2>4. \A t \in Tasks : pc[t] = "add" => wd[t] \notin S
      OBVIOUS
    <2> HIDE DEF S
    <2> QED BY <1>1, <1>2, <2>1, <2>2, <2>3, <2>4, CallbackInv
  <1>5. CASE timer_callback
    <2>1. PICK d \in Delays : Arm(Unlink(wdog_head, iter), iter, ticks, d)
      BY <1>5 DEF timer_callback
    <2>2. sem' \in [Wds -> Nat]
      BY <1>2, <1>5 DEF timer_callback
    <2> DEFINE s == Unlink(wdog_head, iter)
    <2>3. /\ s \in Seq(Wds) /\ IsInjective(s) /\ Ordered(s, end)
          /\ Range(s) = Range(wdog_head) \ {iter}
          /\ Range(s) \subseteq Range(wdog_head) /\ iter \notin Range(s)
      BY <1>2, UnlinkType, UnlinkOnce, UnlinkOrdered
    <2>4. d \in AllDelays /\ ticks <= ticks
      BY <1>2, DelayTypes
    <2>5. Arm(s, iter, ticks, d)
      BY <2>1
    <2> HIDE DEF s
    <2>6. /\ wdog_head' \in Seq(Wds) /\ Range(wdog_head') = Range(s) \cup {iter}
          /\ IsInjective(wdog_head') /\ Ordered(wdog_head', end')
          /\ start' \in [Wds -> Nat] /\ end' \in [Wds -> Nat]
          /\ \A y \in Wds : end'[y] < IntHalf
          /\ Armed' = Armed \cup {iter}
      BY <1>1, <1>2, <1>3, <2>3, <2>4, <2>5, ArmList
    <2> DEFINE S == {iter}
    <2>7. \A t \in Tasks : pc[t] = "add" => wd[t] \notin S
      BY <1>1 DEF Inv, CallInv, Visited
    <2>8. Range(wdog_head') \subseteq Range(wdog_head) \cup S
      BY <2>3, <2>6
    <2>9. Armed \cup S \subseteq Armed'
      BY <2>6
    <2> HIDE DEF S
    <2> QED BY <1>1, <2>2, <2>6, <2>7, <2>8, <2>9, CallbackInv
  <1>6. CASE CallbackStarts
    <2>1. PICK x \in Started, d \in Delays :
            ~Linked(x) /\ Arm(wdog_head, x, ticks, d)
      BY <1>6 DEF CallbackStarts
    <2>2. sem' \in [Wds -> Nat]
      BY <1>2, <1>6 DEF CallbackStarts
    <2>3. x \in live /\ x \notin Range(wdog_head) /\ d \in AllDelays
      BY <2>1, DelayTypes DEF Inv, ListInv, Linked
    <2>6. /\ wdog_head' \in Seq(Wds) /\ Range(wdog_head') = Range(wdog_head) \cup {x}
          /\ IsInjective(wdog_head') /\ Ordered(wdog_head', end')
          /\ start' \in [Wds -> Nat] /\ end' \in [Wds -> Nat]
          /\ \A y \in Wds : end'[y] < IntHalf
          /\ Armed' = Armed \cup {x}
      BY <1>1, <1>2, <2>1, <2>3, ArmList
    <2> DEFINE S == {x}
    <2>7. \A t \in Tasks : pc[t] = "add" => wd[t] \notin S
      BY WatchdogAssumption DEF Inv, CallInv
    <2>8. Range(wdog_head') \subseteq Range(wdog_head) \cup S
      BY <2>6
    <2>9. Armed \cup S \subseteq Armed'
      BY <2>6
    <2> HIDE DEF S
    <2> QED BY <1>1, <2>2, <2>6, <2>7, <2>8, <2>9, CallbackInv
  <1>7. CASE CallbackCancels
    <2>1. PICK x \in Cancelled : wdog_head' = Unlink(wdog_head, x)
      BY <1>7 DEF CallbackCancels
    <2>2. UNCHANGED <<start, end, sem>>
      BY <1>7 DEF CallbackCancels
    <2>3. /\ wdog_head' \in Seq(Wds) /\ Range(wdog_head') = Range(wdog_head) \ {x}
          /\ IsInjective(wdog_head') /\ Ordered(wdog_head', end')
      BY <2>1, <2>2, UnlinkList
    <2>4. Armed' = Armed
      BY <1>1, <2>2 DEF Armed
    <2> DEFINE S == {}
    <2>5. Range(wdog_head') \subseteq Range(wdog_head) \cup S
      BY <2>3
    <2>6. \A t \in Tasks : pc[t] = "add" => wd[t] \notin S
      OBVIOUS
    <2>7. /\ start' \in [Wds -> Nat] /\ end' \in [Wds -> Nat]
          /\ sem' \in [Wds -> Nat] /\ \A y \in Wds : end'[y] < IntHalf
      BY <1>2, <2>2
    <2>8. Armed \cup S \subseteq Armed'
      BY <2>4
    <2> HIDE DEF S
    <2> QED BY <1>1, <2>3, <2>5, <2>6, <2>7, <2>8, CallbackInv
  <1> QED BY <1>4, <1>5, <1>6, <1>7

(* A step of task t, which touches no watchdog but x, one of its own.      *)
LEMMA TaskInv ==
    ASSUME Inv, NEW t \in Tasks, NEW x \in Owned[t], isr = "off",
           UNCHANGED <<ticks, isr, iter, niter, fault>>, TypeOK',
           live \ {x} = live' \ {x}, Range(wdog_head') \subseteq Armed',
           IsInjective(wdog_head'), Ordered(wdog_head', end'),
           Range(wdog_head') \subseteq Range(wdog_head) \cup {x},
           \A y \in Wds : end'[y] < IntHalf,
           \A u \in Tasks \ {t} :
               /\ pc'[u] = pc[u] /\ wd'[u] = wd[u]
               /\ ticks_arg'[u] = ticks_arg[u]
               /\ current_ticks'[u] = current_ticks[u],
           pc'[t] # "idle" => wd'[t] \in Owned[t] \cap live',
           pc'[t] = "add" => wd'[t] \notin Range(wdog_head'),
           pc'[t] \in {"lock", "cancel", "add"} =>
               ticks_arg'[t] \in AllDelays /\ current_ticks'[t] <= ticks
    PROVE  Inv'
  <1>1. ListInv'
    <2>1. Started \subseteq live'
      <3>1. x \notin Started /\ Started \subseteq live
        BY WatchdogAssumption DEF Inv, ListInv
      <3> QED BY <3>1
    <2> QED BY <2>1 DEF Inv, ListInv
  <1>2. Visited' = {} /\ IsrInv'
    BY DEF IsrInv, Visited
  <1>3. CallInv'
    <2>1. ASSUME NEW u \in Tasks
          PROVE  /\ pc'[u] # "idle" => wd'[u] \in Owned[u] \cap live'
                 /\ pc'[u] = "add" => wd'[u] \notin Range(wdog_head')
      <3>1. CASE u = t
        BY <3>1
      <3>2. CASE u # t
        <4>1. x \notin Owned[u] /\ u \in Tasks \ {t}
          BY <3>2, WatchdogAssumption
        <4>2. /\ pc[u] # "idle" => wd[u] \in Owned[u] \cap live
              /\ pc[u] = "add" => wd[u] \notin Range(wdog_head)
          BY DEF Inv, CallInv
        <4> QED BY <4>1, <4>2
      <3> QED BY <3>1, <3>2
    <2> QED BY <1>2, <2>1 DEF CallInv
  <1>4. TimeInv'
    <2>1. ASSUME NEW u \in Tasks, pc'[u] \in {"lock", "cancel", "add"}
          PROVE  ticks_arg'[u] \in AllDelays /\ current_ticks'[u] <= ticks
      <3>1. CASE u = t
        BY <2>1, <3>1
      <3>2. CASE u # t
        BY <2>1, <3>2 DEF Inv, TimeInv
      <3> QED BY <3>1, <3>2
    <2> QED BY <2>1 DEF Inv, TimeInv
  <1> QED BY <1>1, <1>2, <1>3, <1>4 DEF Inv

\* The facts about the list that every step of a task starts from.
LEMMA Now ==
    ASSUME Inv
    PROVE  /\ wdog_head \in Seq(Wds) /\ IsInjective(wdog_head)
           /\ Ordered(wdog_head, end) /\ Range(wdog_head) \subseteq Armed
           /\ \A y \in Wds : end[y] < IntHalf
           /\ live \subseteq Wds /\ ticks \in Nat /\ ticks <= ticks
           /\ \A t \in Tasks : Owned[t] \subseteq Wds /\ wd[t] \in Wds
  BY WatchdogAssumption DEF Inv, TypeOK, ListInv, TimeInv

\* watchdog_start up to its lock.
LEMMA BeginInv ==
    ASSUME Inv, NEW t \in Tasks, NEW x \in Owned[t], NEW d \in AllDelays,
           NEW p \in Returns, isr = "off", Begin(t, x, d, p), x \in live',
           live \ {x} = live' \ {x}, sem' \in [Wds -> Nat],
           req' \in [Tasks -> Requests], called' \in [Tasks -> Nat],
           UNCHANGED <<ticks, isr, iter, niter, fault, wdog_head, start, end>>
    PROVE  Inv'
  <1>1. /\ x \in Wds /\ d \in Nat \ {0} /\ ticks \in Nat /\ live' \subseteq Wds
    BY Now, DelayTypes
  <1>2. /\ after' = [after EXCEPT ![t] = p] /\ wd' = [wd EXCEPT ![t] = x]
        /\ ticks_arg' = [ticks_arg EXCEPT ![t] = d]
        /\ current_ticks' = [current_ticks EXCEPT ![t] = ticks]
        /\ pc' = [pc EXCEPT ![t] = "lock"]
    BY DEF Begin
  <1>3. TypeOK'
    <2>1. /\ after' \in [Tasks -> Returns] /\ pc' \in [Tasks -> Pcs]
          /\ wd' \in [Tasks -> Wds]
      BY <1>1, <1>2 DEF Inv, TypeOK, Pcs
    <2>2. /\ ticks_arg' \in [Tasks -> Nat \ {0}]
          /\ current_ticks' \in [Tasks -> Nat]
      BY <1>1, <1>2 DEF Inv, TypeOK
    <2> QED BY <1>1, <2>1, <2>2 DEF Inv, TypeOK
  <1>4. /\ pc'[t] = "lock" /\ wd'[t] = x /\ ticks_arg'[t] = d
        /\ current_ticks'[t] = ticks
        /\ \A u \in Tasks \ {t} :
               /\ pc'[u] = pc[u] /\ wd'[u] = wd[u]
               /\ ticks_arg'[u] = ticks_arg[u]
               /\ current_ticks'[u] = current_ticks[u]
    BY <1>2 DEF Inv, TypeOK
  <1>5. Range(wdog_head) \subseteq Armed'
    <2>1. Armed \ {x} \subseteq Armed'
      BY DEF Armed
    <2>2. x \in Armed => x \in Armed'
      BY DEF Armed
    <2> QED BY <2>1, <2>2, Now
  <1> QED BY <1>1, <1>3, <1>4, <1>5, Now, TaskInv

\* watchdog_start's last section.
LEMMA ArmInv ==
    ASSUME Inv, NEW t \in Tasks, isr = "off", pc[t] \in {"lock", "add"},
           Arm(Unlink(wdog_head, wd[t]), wd[t], current_ticks[t], ticks_arg[t]),
           Leave(t),
           UNCHANGED <<ticks, live, sem, isr, iter, niter, after, wd, req,
                       called, fault>>
    PROVE  /\ Inv' /\ end'[wd[t]] = current_ticks[t] + ticks_arg[t]
           /\ \A y \in Wds \ {wd[t]} : end'[y] = end[y]
           /\ Range(wdog_head') = Range(wdog_head) \cup {wd[t]}
  <1> DEFINE x == wd[t]
             s == Unlink(wdog_head, x)
  <1>1. /\ x \in Owned[t] /\ x \in live /\ x \in Wds
        /\ ticks_arg[t] \in AllDelays /\ current_ticks[t] <= ticks
        /\ current_ticks[t] \in Nat
    BY DEF Inv, CallInv, TimeInv, TypeOK
  <1>2. /\ s \in Seq(Wds) /\ IsInjective(s) /\ Ordered(s, end)
        /\ Range(s) = Range(wdog_head) \ {x}
        /\ Range(s) \subseteq Range(wdog_head) /\ x \notin Range(s)
    <2>1. /\ wdog_head \in Seq(Wds) /\ IsInjective(wdog_head)
          /\ Ordered(wdog_head, end) /\ end \in [Wds -> Nat]
      BY DEF Inv, TypeOK, ListInv
    <2> HIDE DEF x
    <2> QED BY <2>1, UnlinkType, UnlinkOnce, UnlinkOrdered
  <1>3. Arm(s, x, current_ticks[t], ticks_arg[t])
    OBVIOUS
  <1> HIDE DEF s, x
  <1>4. /\ wdog_head' \in Seq(Wds) /\ Range(wdog_head') = Range(s) \cup {x}
        /\ IsInjective(wdog_head') /\ Ordered(wdog_head', end')
        /\ start' \in [Wds -> Nat] /\ end' \in [Wds -> Nat]
        /\ end'[x] = current_ticks[t] + ticks_arg[t]
        /\ \A y \in Wds \ {x} : end'[y] = end[y]
        /\ \A y \in Wds : end'[y] < IntHalf
        /\ Armed' = Armed \cup {x}
    BY <1>1, <1>2, <1>3, ArmList
  <1>5. TypeOK' /\ pc'[t] \in Returns
        /\ \A u \in Tasks \ {t} :
               /\ pc'[u] = pc[u] /\ wd'[u] = wd[u]
               /\ ticks_arg'[u] = ticks_arg[u]
               /\ current_ticks'[u] = current_ticks[u]
    <2>1. /\ pc' \in [Tasks -> Pcs] /\ ticks_arg' \in [Tasks -> Nat \ {0}]
          /\ current_ticks' \in [Tasks -> Nat]
      BY DEF Leave, Inv, TypeOK, Pcs
    <2>2. TypeOK'
      BY <1>4, <2>1 DEF Inv, TypeOK
    <2> QED BY <2>2 DEF Leave, Inv, TypeOK
  <1>6. /\ Range(wdog_head') \subseteq Range(wdog_head) \cup {x}
        /\ Range(wdog_head') \subseteq Armed' /\ live \ {x} = live' \ {x}
    BY <1>2, <1>4, Now
  <1>7. pc'[t] \notin {"lock", "cancel", "add"} /\ wd'[t] = x
    BY <1>5 DEF Returns, x
  <1>8. Inv'
    BY <1>1, <1>4, <1>5, <1>6, <1>7, TaskInv
  <1> QED BY <1>2, <1>4, <1>8 DEF x

(* watchdog_start's section under the lock links a watchdog that does not  *)
(* run: unlinking it first changes nothing.                                *)
LEMMA StartLockArms ==
    ASSUME Inv, NEW t \in Tasks, StartLock(t) \/ StartAdd(t), pc'[t] # "cancel"
    PROVE  /\ Arm(Unlink(wdog_head, wd[t]), wd[t], current_ticks[t], ticks_arg[t])
           /\ Leave(t) /\ isr = "off" /\ pc[t] \in {"lock", "add"} /\ ~Linked(wd[t])
           /\ UNCHANGED <<ticks, live, sem, isr, iter, niter, after, wd, req,
                          called, fault>>
  <1>1. CASE StartLock(t)
    <2>1. pc \in [Tasks -> Pcs]
      BY DEF Inv, TypeOK
    <2>2. /\ ~Linked(wd[t]) /\ Arm(wdog_head, wd[t], current_ticks[t], ticks_arg[t])
          /\ Leave(t)
      <3>1. pc' # [pc EXCEPT ![t] = "cancel"]
        BY <2>1
      <3>2. CASE Linked(wd[t])
        BY <1>1, <3>1, <3>2, Zenon DEF StartLock
      <3>3. CASE ~Linked(wd[t])
        BY <1>1, <3>3, Zenon DEF StartLock
      <3> QED BY <3>2, <3>3
    <2>3. Unlink(wdog_head, wd[t]) = wdog_head
      BY <2>2 DEF Unlink, Linked
    <2> QED BY <1>1, <2>2, <2>3 DEF StartLock, isrvars
  <1>2. CASE StartAdd(t)
    <2>1. ~Linked(wd[t]) /\ ~fault
      BY <1>2 DEF StartAdd, Inv, CallInv, ListInv, Linked
    <2>2. fault' = fault
      <3>1. fault \in BOOLEAN
        BY DEF Inv, TypeOK
      <3>2. fault = FALSE
        BY <2>1, <3>1, Zenon
      <3> QED BY <1>2, <2>1, <3>2, Zenon DEF StartAdd
    <2> QED BY <1>2, <2>1, <2>2 DEF StartAdd, isrvars
  <1> QED BY <1>1, <1>2

(* A task takes out one of its watchdogs, and perhaps frees it.            *)
LEMMA TakeOutInv ==
    ASSUME Inv, NEW t \in Tasks, NEW x \in Owned[t], isr = "off",
           wdog_head' = Unlink(wdog_head, x), live' \in {live, live \ {x}},
           pc' \in [Tasks -> Pcs], called' \in [Tasks -> Nat],
           sem' \in [Wds -> Nat],
           \A u \in Tasks \ {t} : pc'[u] = pc[u],
           pc'[t] = "add" => pc[t] = "cancel" /\ x = wd[t],
           pc'[t] \notin {"lock", "cancel"},
           pc'[t] # "idle" => pc[t] # "idle" /\ live' = live,
           UNCHANGED <<ticks, start, end, isr, iter, niter, after, wd,
                       ticks_arg, current_ticks, req, fault>>
    PROVE  Inv' /\ Range(wdog_head') = Range(wdog_head) \ {x}
  <1>1. /\ wdog_head' \in Seq(Wds) /\ Range(wdog_head') = Range(wdog_head) \ {x}
        /\ IsInjective(wdog_head') /\ Ordered(wdog_head', end')
    BY UnlinkList
  <1>2. TypeOK'
    BY <1>1, Now DEF Inv, TypeOK
  <1>3. Range(wdog_head') \subseteq Armed'
    <2>1. Armed \ {x} \subseteq Armed'
      BY DEF Armed
    <2> QED BY <1>1, <2>1, Now
  <1>4. /\ live \ {x} = live' \ {x}
        /\ Range(wdog_head') \subseteq Range(wdog_head) \cup {x}
    BY <1>1
  <1>5. pc'[t] # "idle" => wd'[t] \in Owned[t] \cap live'
    BY DEF Inv, CallInv
  <1>6. pc'[t] = "add" => wd'[t] \notin Range(wdog_head')
    BY <1>1
  <1>7. pc'[t] \in {"lock", "cancel", "add"} =>
          ticks_arg'[t] \in AllDelays /\ current_ticks'[t] <= ticks
    BY DEF Inv, TimeInv
  <1>8. \A y \in Wds : end'[y] < IntHalf
    BY Now
  <1> QED BY <1>1, <1>2, <1>3, <1>4, <1>5, <1>6, <1>7, <1>8, TaskInv

\* The steps of a task.
LEMMA TasksInv ==
    ASSUME Inv, NEW t \in Tasks, Task(t)
    PROVE  Inv'
  <1> USE DEF isrvars, taskvars
  <1>0. /\ pc \in [Tasks -> Pcs] /\ called \in [Tasks -> Nat]
        /\ sem \in [Wds -> Nat] /\ req \in [Tasks -> Requests]
    BY DEF Inv, TypeOK
  <1>1. CASE OwnerStart(t)
    <2>1. PICK x \in Owned[t] \cap live, d \in Delays : Begin(t, x, d, "idle")
      BY <1>1 DEF OwnerStart
    <2>2. /\ isr = "off"
          /\ UNCHANGED <<ticks, wdog_head, start, end, live, sem, isr, iter,
                         niter, req, called, fault>>
      BY <1>1 DEF OwnerStart
    <2>3. d \in AllDelays /\ "idle" \in Returns
      BY DelayTypes DEF Returns
    <2>4. x \in Owned[t] /\ x \in live' /\ live \ {x} = live' \ {x}
      BY <2>2
    <2> QED BY <1>0, <2>1, <2>2, <2>3, <2>4, BeginInv
  <1>2. CASE (StartLock(t) \/ StartAdd(t)) /\ pc'[t] # "cancel"
    BY <1>2, StartLockArms, ArmInv
  <1>3. CASE (StartLock(t) \/ StartAdd(t)) /\ pc'[t] = "cancel"
    <2>1. StartLock(t)
      BY <1>0, <1>3 DEF StartAdd, Leave, Inv, TypeOK, Returns
    <2>2. /\ pc' = [pc EXCEPT ![t] = "cancel"] /\ isr = "off" /\ pc[t] = "lock"
          /\ UNCHANGED <<ticks, wdog_head, start, end, live, sem, isr, iter,
                         niter, after, wd, ticks_arg, current_ticks, req,
                         called, fault>>
      BY <1>0, <1>3, <2>1 DEF StartLock, Leave, Inv, TypeOK, Returns
    <2>3. TypeOK'
      BY <1>0, <2>2 DEF Inv, TypeOK, Pcs
    <2>4. pc'[t] = "cancel" /\ \A u \in Tasks \ {t} : pc'[u] = pc[u]
      BY <1>0, <2>2
    <2>5. Armed' = Armed /\ Visited' = Visited
      BY <2>2 DEF Armed, Visited
    <2>6. ListInv' /\ IsrInv'
      BY <2>2, <2>5 DEF Inv, ListInv, IsrInv
    <2>7. CallInv'
      BY <2>2, <2>4, <2>5 DEF Inv, CallInv
    <2>8. TimeInv'
      BY <2>2, <2>4 DEF Inv, TimeInv
    <2> QED BY <2>3, <2>6, <2>7, <2>8 DEF Inv
  <1>4. CASE StartCancel(t)
    <2>1. /\ isr = "off" /\ pc[t] = "cancel" /\ pc' = [pc EXCEPT ![t] = "add"]
          /\ wdog_head' = Unlink(wdog_head, wd[t])
          /\ UNCHANGED <<ticks, start, end, live, sem, isr, iter, niter, after,
                         wd, ticks_arg, current_ticks, req, called, fault>>
      BY <1>4 DEF StartCancel
    <2>2. /\ wd[t] \in Owned[t] /\ pc' \in [Tasks -> Pcs] /\ pc'[t] = "add"
          /\ \A u \in Tasks \ {t} : pc'[u] = pc[u]
      BY <1>0, <2>1 DEF Inv, CallInv, Pcs
    <2> QED BY <1>0, <2>1, <2>2, TakeOutInv
  <1>5. CASE watchdog_cancel(t) \/ watchdog_delete(t)
    <2>1. PICK x \in Owned[t] :
            /\ wdog_head' = Unlink(wdog_head, x) /\ live' \in {live, live \ {x}}
      BY <1>5 DEF watchdog_cancel, watchdog_delete
    <2>2. /\ isr = "off" /\ pc[t] = "idle"
          /\ UNCHANGED <<ticks, start, end, sem, isr, iter, niter, pc, after,
                         wd, ticks_arg, current_ticks, req, called, fault>>
      BY <1>5 DEF watchdog_cancel, watchdog_delete
    <2> QED BY <1>0, <2>1, <2>2, TakeOutInv
  <1>6. CASE watchdog_init(t)
    <2>1. PICK x \in Owned[t] : live' = live \cup {x}
      BY <1>6 DEF watchdog_init
    <2>2. /\ isr = "off"
          /\ UNCHANGED <<ticks, wdog_head, start, end, sem, isr, iter, niter,
                         pc, after, wd, ticks_arg, current_ticks, req, called,
                         fault>>
      BY <1>6 DEF watchdog_init
    <2>3. TypeOK'
      BY <2>1, <2>2, Now DEF Inv, TypeOK
    <2>4. Armed \subseteq Armed' /\ Visited' = Visited
      BY <2>1, <2>2 DEF Armed, Visited
    <2>5. ListInv' /\ IsrInv' /\ TimeInv'
      BY <2>1, <2>2, <2>4 DEF Inv, ListInv, IsrInv, TimeInv
    <2>6. CallInv'
      BY <2>1, <2>2, <2>4 DEF Inv, CallInv
    <2> QED BY <2>3, <2>5, <2>6 DEF Inv
  <1>7. CASE nanosleep(t)
    <2>1. PICK x \in Owned[t], r \in Requests :
            /\ live' = live \cup {x} /\ sem' = [sem EXCEPT ![x] = 0]
            /\ req' = [req EXCEPT ![t] = r]
            /\ Begin(t, x, SecTicks(r[1]), "wait_sec")
      BY <1>7 DEF nanosleep
    <2>2. /\ isr = "off" /\ called' = [called EXCEPT ![t] = ticks]
          /\ UNCHANGED <<ticks, wdog_head, start, end, isr, iter, niter, fault>>
      BY <1>7 DEF nanosleep
    <2>3. SecTicks(r[1]) \in AllDelays /\ "wait_sec" \in Returns
      BY TicksOfRequest DEF Returns
    <2>4. /\ x \in live' /\ live \ {x} = live' \ {x} /\ sem' \in [Wds -> Nat]
          /\ req' \in [Tasks -> Requests] /\ called' \in [Tasks -> Nat]
      BY <1>0, <2>1, <2>2, Now
    <2> QED BY <2>1, <2>2, <2>3, <2>4, BeginInv
  <1>8. CASE NanosleepNsec(t)
    <2>1. /\ isr = "off" /\ pc[t] = "wait_sec" /\ sem[wd[t]] > 0
          /\ sem' = [sem EXCEPT ![wd[t]] = @ - 1]
          /\ Begin(t, wd[t], NsecTicks(req[t][2]), "wait_nsec")
          /\ UNCHANGED <<ticks, wdog_head, start, end, live, isr, iter, niter,
                         req, called, fault>>
      BY <1>8 DEF NanosleepNsec
    <2>2. wd[t] \in Owned[t] /\ wd[t] \in live /\ wd[t] \in Wds
      BY <2>1, Now DEF Inv, CallInv
    <2>3. sem' \in [Wds -> Nat]
      BY <1>0, <2>1, <2>2
    <2>4. NsecTicks(req[t][2]) \in AllDelays /\ "wait_nsec" \in Returns
      BY <1>0, TicksOfRequest DEF Returns
    <2> QED BY <1>0, <2>1, <2>2, <2>3, <2>4, BeginInv
  <1>9. CASE NanosleepReturn(t)
    <2>1. /\ isr = "off" /\ pc[t] = "wait_nsec" /\ sem[wd[t]] > 0
          /\ sem' = [sem EXCEPT ![wd[t]] = @ - 1]
          /\ wdog_head' = Unlink(wdog_head, wd[t]) /\ live' = live \ {wd[t]}
          /\ pc' = [pc EXCEPT ![t] = "idle"] /\ called' = [called EXCEPT ![t] = 0]
          /\ UNCHANGED <<ticks, start, end, isr, iter, niter, after, wd,
                         ticks_arg, current_ticks, req, fault>>
      BY <1>9 DEF NanosleepReturn
    <2>2. wd[t] \in Owned[t] /\ wd[t] \in Wds
      BY <2>1, Now DEF Inv, CallInv
    <2>3. sem' \in [Wds -> Nat] /\ called' \in [Tasks -> Nat]
      BY <1>0, <2>1, <2>2
    <2>4. /\ pc' \in [Tasks -> Pcs] /\ pc'[t] = "idle"
          /\ \A u \in Tasks \ {t} : pc'[u] = pc[u]
      BY <1>0, <2>1 DEF Pcs, Returns
    <2> QED BY <2>1, <2>2, <2>3, <2>4, TakeOutInv
  <1> QED
    BY <1>1, <1>2, <1>3, <1>4, <1>5, <1>6, <1>7, <1>8, <1>9 DEF Task

\* Every step keeps the invariant.
LEMMA WatchdogStep ==
    ASSUME Inv, [Next]_vars
    PROVE  Inv'
  <1>1. CASE Tick
    BY <1>1, SystickInv, CheckInv, CallbacksInv DEF Tick
  <1>2. CASE \E t \in Tasks : Task(t)
    BY <1>2, TasksInv
  <1>3. CASE UNCHANGED vars
    <2> USE <1>3 DEF vars, isrvars, taskvars
    <2>1. TypeOK' /\ TimeInv'
      BY DEF Inv, TypeOK, TimeInv
    <2>2. Armed' = Armed /\ Visited' = Visited
      BY DEF Armed, Visited
    <2>3. ListInv' /\ IsrInv' /\ CallInv'
      BY <2>2 DEF Inv, ListInv, IsrInv, CallInv
    <2> QED BY <2>1, <2>3 DEF Inv
  <1> QED BY <1>1, <1>2, <1>3 DEF Next

\* The watchdogs at the start.
LEMMA WatchdogInit ==
    ASSUME Init
    PROVE  Inv
  <1>1. TypeOK
    <2>1. fault \in BOOLEAN
      BY Zenon DEF Init
    <2>2. wdog_head \in Seq(Wds) /\ ticks \in Nat /\ live \subseteq Wds
      BY DEF Init
    <2>3. /\ start \in [Wds -> Nat] /\ end \in [Wds -> Nat]
          /\ sem \in [Wds -> Nat]
      BY DEF Init
    <2>4. pc \in [Tasks -> Pcs] /\ after \in [Tasks -> Returns]
      BY DEF Init, Pcs, Returns
    <2>5. wd \in [Tasks -> Wds]
      <3>1. \A t \in Tasks : (CHOOSE x \in Owned[t] : TRUE) \in Wds
        BY WatchdogAssumption
      <3> QED BY <3>1 DEF Init
    <2>6. req \in [Tasks -> Requests]
      <3>1. (CHOOSE r \in Requests : TRUE) \in Requests
        BY WatchdogAssumption
      <3> QED BY <3>1 DEF Init
    <2>7. /\ ticks_arg \in [Tasks -> Nat \ {0}]
          /\ current_ticks \in [Tasks -> Nat] /\ called \in [Tasks -> Nat]
      BY DEF Init
    <2>8. isr = "off" /\ iter = Head_ /\ niter = Head_
      BY DEF Init
    <2> QED BY <2>1, <2>2, <2>3, <2>4, <2>5, <2>6, <2>7, <2>8 DEF TypeOK
  <1>2. ListInv
    <2>1. ~fault
      BY Zenon DEF Init
    <2>2. IsInjective(wdog_head) /\ Range(wdog_head) = {} /\ Len(wdog_head) = 0
      BY DEF Init, IsInjective, Range
    <2>3. Ordered(wdog_head, end)
      BY <2>2 DEF Ordered
    <2>4. Started \subseteq live
      <3>1. ASSUME NEW x \in Started, x \in SleepWds PROVE FALSE
        <4>1. PICK t \in Sleepers : x \in Owned[t]
          BY <3>1 DEF SleepWds
        <4>2. t \in Tasks /\ Owned[t] \cap Started = {}
          BY WatchdogAssumption
        <4> QED BY <4>1, <4>2
      <3>2. Started \subseteq Wds
        BY WatchdogAssumption
      <3> QED BY <3>1, <3>2 DEF Init
    <2> QED BY <2>1, <2>2, <2>3, <2>4 DEF ListInv
  <1>3. IsrInv /\ CallInv
    BY DEF Init, IsrInv, Visited, CallInv
  <1>4. TimeInv
    BY WatchdogAssumption DEF Init, TimeInv
  <1> QED BY <1>1, <1>2, <1>3, <1>4 DEF Inv

\* The invariant of the list.
LEMMA WatchdogInv == Spec => []Inv
  BY WatchdogInit, WatchdogStep, PTL DEF Spec

(* The list of running watchdogs (watchdog.c:20) never holds a node twice  *)
(* nor one whose memory is freed, and watchdog_start never links a node    *)
(* that is linked, although it gives up the lock (watchdog.c:102) and a    *)
(* callback may restart any watchdog from a tick in between.               *)
THEOREM WatchdogListSound == Spec => []ListSound
  <1>1. Inv => ListSound
    <2> SUFFICES ASSUME Inv PROVE ListSound
      OBVIOUS
    <2>1. ~fault /\ Range(wdog_head) \subseteq live
      BY DEF Inv, ListInv, Armed
    <2>2. \A i, j \in 1..Len(wdog_head) : i # j => wdog_head[i] # wdog_head[j]
      <3>1. IsInjective(wdog_head) /\ wdog_head \in Seq(Wds)
        BY DEF Inv, TypeOK, ListInv
      <3> QED BY <3>1 DEF IsInjective
    <2> QED BY <2>1, <2>2 DEF ListSound
  <1> QED BY <1>1, WatchdogInv, PTL

(* The list is in the order of expiration, for all times that the int of   *)
(* watchdog_expiration_comparator (watchdog.c:54) can tell apart.          *)
THEOREM WatchdogListSorted == Spec => []Sorted
  <1>1. Inv => Sorted
    BY DEF Inv, ListInv, Ordered, Sorted
  <1> QED BY <1>1, WatchdogInv, PTL

-----------------------------------------------------------------------------
(* The handler's walk *)

(* What callbacks cancel, no callback starts and no sleeper owns.  Without *)
(* this a callback can cancel the node that the handler visits next and    *)
(* start it again behind the handler's back, which ends the walk early.    *)
CancelOthers == Cancelled \cap (Periodic \cup Started \cup SleepWds) = {}

First == NodeAfter(Head_, wdog_head, Head_)

NoneDue == \A x \in Range(wdog_head) : end[x] > ticks

(* The handler stands on the first watchdog, or none is due any more, or   *)
(* it stands on a due one that a callback has cancelled: it never leaves   *)
(* that one.  The saved node is up to date but across a callback.          *)
WalkInv ==
    /\ isr = "loop" =>
         /\ iter \in Range(wdog_head) \cup {Head_} \cup Cancelled
         /\ niter = NodeAfter(Head_, wdog_head, iter)
         /\ \/ iter = First \/ NoneDue
            \/ iter \in Cancelled \ Range(wdog_head) /\ end[iter] <= ticks
    /\ isr = "callback" =>
         /\ iter \notin Range(wdog_head) /\ end[iter] <= ticks
         /\ niter \in Range(wdog_head) \cup {Head_} \cup Cancelled
         /\ niter = First \/ NoneDue \/ (niter = iter /\ iter \in Cancelled)

\* On a sorted list, when any watchdog is due the first one is.
LEMMA FirstDue ==
    ASSUME Inv
    PROVE  /\ First = IF wdog_head = <<>> THEN Head_ ELSE wdog_head[1]
           /\ wdog_head # <<>> => First \in Range(wdog_head) /\ First \in Wds
           /\ ~NoneDue => wdog_head # <<>> /\ end[wdog_head[1]] <= ticks
  <1>1. /\ wdog_head \in Seq(Wds) /\ IsInjective(wdog_head)
        /\ Ordered(wdog_head, end) /\ end \in [Wds -> Nat] /\ ticks \in Nat
    BY DEF Inv, ListInv, TypeOK
  <1>2. First = IF wdog_head = <<>> THEN Head_ ELSE wdog_head[1]
    BY <1>1, NodeAfterAt, WatchdogAssumption DEF First
  <1>3. wdog_head # <<>> => wdog_head[1] \in Range(wdog_head) /\ wdog_head[1] \in Wds
    BY <1>1, FirstStays
  <1>4. ASSUME ~NoneDue
        PROVE  wdog_head # <<>> /\ end[wdog_head[1]] <= ticks
    <2>1. PICK x \in Range(wdog_head) : ~(end[x] > ticks)
      BY <1>4 DEF NoneDue
    <2>2. PICK i \in 1..Len(wdog_head) : wdog_head[i] = x
      BY <1>1, <2>1, RangeAt
    <2>3. Len(wdog_head) \in Nat \ {0} /\ 1 \in 1..Len(wdog_head)
      BY <1>1, <2>2
    <2>4. end[wdog_head[1]] <= end[wdog_head[i]]
      <3>1. wdog_head[1] \in Wds /\ end[wdog_head[1]] \in Nat
        BY <1>1, <2>3
      <3>2. CASE i = 1
        BY <3>1, <3>2
      <3>3. CASE i # 1
        BY <1>1, <2>2, <2>3, <3>3 DEF Ordered
      <3> QED BY <3>2, <3>3
    <2>5. /\ end[wdog_head[1]] \in Nat /\ end[wdog_head[i]] \in Nat
          /\ ~(end[wdog_head[i]] > ticks)
      BY <1>1, <2>1, <2>2, <2>3
    <2> QED BY <1>1, <2>3, <2>4, <2>5
  <1> QED BY <1>2, <1>3, <1>4

\* The handler's first node.
LEMMA WalkSystick ==
    ASSUME Inv, Systick
    PROVE  WalkInv'
  <1>1. /\ isr' = "loop" /\ wdog_head' = wdog_head
        /\ iter' = NodeAfter(Head_, wdog_head, Head_)
        /\ niter' = NodeAfter(Head_, wdog_head, iter')
    BY DEF Systick
  <1>2. iter' \in Range(wdog_head) \cup {Head_}
    BY <1>1, Now, NodeAfterIn
  <1>3. iter' = First'
    BY <1>1 DEF First
  <1> QED BY <1>1, <1>2, <1>3 DEF WalkInv

\* An expired watchdog is the first: its successor is the next to look at.
LEMMA WalkCheck ==
    ASSUME Inv, WalkInv, watchdog_check_expired
    PROVE  /\ WalkInv'
           /\ isr' = "off" => NoneDue
           /\ isr' = "callback" => end[iter] <= ticks
  <1>1. /\ wdog_head \in Seq(Wds) /\ IsInjective(wdog_head)
        /\ Ordered(wdog_head, end) /\ end \in [Wds -> Nat]
        /\ start \in [Wds -> Nat] /\ ticks \in Nat /\ Head_ \notin Wds
        /\ Range(wdog_head) \subseteq Wds
    BY RangeAt, WatchdogAssumption DEF Inv, ListInv, TypeOK
  <1>2. isr = "loop" /\ UNCHANGED <<ticks, start, end, iter, niter>>
    BY DEF watchdog_check_expired
  <1>3. /\ iter \in Range(wdog_head) \cup {Head_} \cup Cancelled
        /\ niter = NodeAfter(Head_, wdog_head, iter)
        /\ \/ iter = First \/ NoneDue
           \/ iter \in Cancelled \ Range(wdog_head) /\ end[iter] <= ticks
    BY <1>2 DEF WalkInv
  <1>4. iter # Head_ =>
          /\ iter \in Wds /\ end[iter] \in Nat /\ start[iter] < end[iter]
          /\ watchdog_has_expired(iter) <=> end[iter] <= ticks
    <2> SUFFICES ASSUME iter # Head_
                 PROVE  /\ iter \in Wds /\ end[iter] \in Nat
                        /\ start[iter] < end[iter]
                        /\ watchdog_has_expired(iter) <=> end[iter] <= ticks
      OBVIOUS
    <2>1. iter \in Armed
      BY <1>2 DEF Inv, IsrInv, Visited
    <2>2. iter \in Wds /\ start[iter] < end[iter]
      BY <2>1 DEF Armed, Inv, TypeOK
    <2>3. end[iter] \in Nat /\ start[iter] \in Nat
      BY <1>1, <2>2
    <2> QED BY <1>1, <2>2, <2>3 DEF watchdog_has_expired
  <1>5. CASE iter = Head_ \/ ~watchdog_has_expired(iter)
    <2>1. isr' = "off"
      BY <1>5 DEF watchdog_check_expired
    <2>2. NoneDue
      <3>1. CASE iter = First /\ ~NoneDue
        <4>1. iter = wdog_head[1] /\ end[iter] <= ticks /\ iter \in Wds
          BY <3>1, FirstDue
        <4> QED BY <1>1, <1>4, <1>5, <4>1
      <3>2. CASE iter \in Cancelled \ Range(wdog_head) /\ end[iter] <= ticks
        <4>1. iter \in Wds
          BY <3>2, WatchdogAssumption
        <4> QED BY <1>1, <1>4, <1>5, <3>2, <4>1
      <3> QED BY <1>3, <3>1, <3>2
    <2> QED BY <2>1, <2>2 DEF WalkInv
  <1>6. CASE iter # Head_ /\ watchdog_has_expired(iter)
    <2>1. /\ isr' = "callback" /\ wdog_head' = Unlink(wdog_head, iter)
          /\ end[iter] <= ticks /\ iter \in Wds /\ end[iter] \in Nat
      BY <1>4, <1>6 DEF watchdog_check_expired
    <2>2. Range(wdog_head') = Range(wdog_head) \ {iter}
      BY <1>1, <2>1, UnlinkOnce
    <2>3. NoneDue => NoneDue'
      BY <1>2, <2>2 DEF NoneDue
    <2>4. CASE iter \in Range(wdog_head)
      <3>1. ~NoneDue
        BY <1>1, <2>1, <2>4 DEF NoneDue
      <3>2. iter = wdog_head[1] /\ wdog_head # <<>>
        <4>1. iter = First /\ wdog_head # <<>>
          BY <1>3, <2>4, <3>1, FirstDue
        <4>2. First = wdog_head[1]
          BY <4>1, FirstDue
        <4> QED BY <1>1, <4>1, <4>2
      <3>7. niter = First'
        <4>1. NodeAfter(Head_, Unlink(wdog_head, wdog_head[1]), Head_) =
                NodeAfter(Head_, wdog_head, wdog_head[1])
          BY <1>1, <3>2, UnlinkFirst
        <4> QED BY <1>3, <2>1, <3>2, <4>1 DEF First
      <3>8. niter \in Range(wdog_head') \cup {Head_}
        <4>1. wdog_head' \in Seq(Wds)
          BY <1>1, <2>1, UnlinkType
        <4> QED BY <3>7, <4>1, NodeAfterIn DEF First
      <3> QED BY <1>2, <2>1, <2>2, <3>7, <3>8 DEF WalkInv
    <2>5. CASE iter \notin Range(wdog_head)
      <3>1. wdog_head' = wdog_head /\ iter \in Cancelled /\ niter = iter
        BY <1>3, <1>6, <2>1, <2>5 DEF Unlink, NodeAfter
      <3> QED BY <1>2, <2>1, <2>2, <2>5, <3>1 DEF WalkInv
    <2> QED BY <2>1, <2>4, <2>5
  <1> QED BY <1>5, <1>6

\* The loop's increment makes the saved node the one the handler stands on.
LEMMA WalkNext ==
    ASSUME NextNode, niter \in Range(wdog_head') \cup {Head_} \cup Cancelled,
           \/ niter = First' \/ NoneDue'
           \/ niter \in Cancelled \ Range(wdog_head') /\ end'[niter] <= ticks
    PROVE  WalkInv'
  <1>1. /\ isr' = "loop" /\ iter' = niter /\ ticks' = ticks
        /\ niter' = NodeAfter(Head_, wdog_head', niter)
    BY DEF NextNode
  <1> QED BY <1>1 DEF WalkInv

\* A watchdog that a callback starts comes behind every one that is due.
LEMMA WalkArm ==
    ASSUME Inv, WalkInv, isr = "callback", NextNode,
           NEW x \in live, x \notin Range(wdog_head) \cup Cancelled,
           NEW d \in Delays, Arm(wdog_head, x, ticks, d)
    PROVE  WalkInv'
  <1>1. /\ wdog_head \in Seq(Wds) /\ IsInjective(wdog_head)
        /\ Ordered(wdog_head, end) /\ end \in [Wds -> Nat] /\ ticks \in Nat
        /\ Range(wdog_head) \subseteq Wds /\ x \in Wds /\ Head_ \notin Wds
        /\ \A y \in Wds : end[y] < IntHalf
    BY RangeAt, Now, WatchdogAssumption DEF Inv, TypeOK
  <1>2. /\ d \in AllDelays /\ d \in Nat \ {0} /\ ticks <= ticks
        /\ live' = live /\ ticks' = ticks
    BY <1>1, DelayTypes, WatchdogAssumption DEF NextNode
  <1>3. /\ wdog_head' \in Seq(Wds) /\ Range(wdog_head') = Range(wdog_head) \cup {x}
        /\ IsInjective(wdog_head') /\ end'[x] = ticks + d
        /\ \A y \in Wds \ {x} : end'[y] = end[y]
    BY <1>1, <1>2, ArmList
  <1>4. /\ iter \notin Range(wdog_head) /\ end[iter] <= ticks
        /\ niter \in Range(wdog_head) \cup {Head_} \cup Cancelled
        /\ niter = First \/ NoneDue \/ (niter = iter /\ iter \in Cancelled)
    BY DEF WalkInv
  <1>5. niter \in Range(wdog_head') \cup {Head_} \cup Cancelled
    BY <1>3, <1>4
  <1>6. ASSUME NoneDue PROVE NoneDue'
    <2>1. \A y \in Range(wdog_head') : end'[y] > ticks
      BY <1>1, <1>2, <1>3, <1>6 DEF NoneDue
    <2> QED BY <1>2, <2>1 DEF NoneDue
  <1>7. ASSUME ~NoneDue PROVE First' = First
    <2>1. wdog_head # <<>> /\ end[wdog_head[1]] <= ticks /\ First = wdog_head[1]
      BY <1>7, FirstDue
    <2>2. ticks + d \in Nat /\ ticks + d < IntHalf /\ ticks + d > ticks
      <3>1. ticks <= MaxTick
        BY DEF Inv, TimeInv
      <3>2. MaxTick + d < IntHalf /\ MaxTick \in Nat /\ IntHalf \in Nat
        BY <1>2, UptimeAssumption, WatchdogAssumption
      <3> QED BY <1>1, <1>2, <3>1, <3>2
    <2>3. PICK p \in 1..Len(wdog_head) + 1 :
            /\ list_sorted_add(wdog_head, x, ticks + d) = Put(wdog_head, p, x)
            /\ p <= Len(wdog_head) => ticks + d < end[wdog_head[p]]
      BY <1>1, <2>2, SortedAddPlace
    <2>4. Len(wdog_head) \in Nat \ {0} /\ wdog_head[1] \in Wds
      <3>1. Len(wdog_head) # 0
        BY <1>1, <2>1, RangeAt
      <3>2. Len(wdog_head) \in Nat
        BY <1>1
      <3> QED BY <1>1, <3>1, <3>2
    <2>5. p # 1
      <3>1. end[wdog_head[1]] \in Nat
        BY <1>1, <2>4
      <3> QED BY <1>1, <2>1, <2>2, <2>3, <2>4, <3>1
    <2>6. p \in 2..Len(wdog_head) + 1
      BY <2>4, <2>5
    <2>7. wdog_head' = Put(wdog_head, p, x)
      BY <2>3 DEF Arm
    <2>8. wdog_head' # <<>> /\ wdog_head'[1] = wdog_head[1]
      BY <1>1, <2>1, <2>6, <2>7, FirstStays
    <2>9. First' = wdog_head'[1]
      <3>1. NodeAfter(Head_, wdog_head', Head_) =
              IF wdog_head' = <<>> THEN Head_ ELSE wdog_head'[1]
        BY <1>1, <1>3, NodeAfterAt
      <3> QED BY <2>8, <3>1 DEF First
    <2> QED BY <2>1, <2>8, <2>9
  <1>8. ASSUME niter = iter, iter \in Cancelled
        PROVE  niter \in Cancelled \ Range(wdog_head') /\ end'[niter] <= ticks
    <2>1. iter \in Wds \ {x}
      BY <1>8, WatchdogAssumption
    <2> QED BY <1>3, <1>4, <1>8, <2>1
  <1> QED BY <1>4, <1>5, <1>6, <1>7, <1>8, WalkNext

(* A callback may cancel the very node that the handler visits next: the   *)
(* handler then stands on a node that is on no list.                       *)
LEMMA WalkCancel ==
    ASSUME Inv, WalkInv, isr = "callback", NextNode, NEW x \in Cancelled \ {iter},
           wdog_head' = Unlink(wdog_head, x), end' = end
    PROVE  WalkInv'
  <1>1. /\ wdog_head \in Seq(Wds) /\ IsInjective(wdog_head)
        /\ end \in [Wds -> Nat] /\ ticks \in Nat /\ Head_ \notin Wds
        /\ ticks' = ticks
    BY Now, WatchdogAssumption DEF Inv, TypeOK, NextNode
  <1>2. /\ wdog_head' \in Seq(Wds) /\ IsInjective(wdog_head')
        /\ Range(wdog_head') = Range(wdog_head) \ {x}
    BY UnlinkList
  <1>3. /\ iter \notin Range(wdog_head) /\ end[iter] <= ticks
        /\ niter \in Range(wdog_head) \cup {Head_} \cup Cancelled
        /\ niter = First \/ NoneDue \/ (niter = iter /\ iter \in Cancelled)
    BY DEF WalkInv
  <1>4. niter \in Range(wdog_head') \cup {Head_} \cup Cancelled
    BY <1>2, <1>3
  <1>5. NoneDue => NoneDue'
    BY <1>1, <1>2 DEF NoneDue
  <1>6. ASSUME niter = First, ~NoneDue
        PROVE  \/ niter = First'
               \/ niter \in Cancelled \ Range(wdog_head') /\ end'[niter] <= ticks
    <2>1. /\ wdog_head # <<>> /\ end[wdog_head[1]] <= ticks
          /\ First = wdog_head[1]
      BY <1>6, FirstDue
    <2>2. CASE x = niter
      BY <1>2, <1>6, <2>1, <2>2
    <2>3. CASE x # niter
      <3>1. wdog_head' # <<>> /\ wdog_head'[1] = wdog_head[1]
        BY <1>1, <1>6, <2>1, <2>3, FirstStays
      <3>2. NodeAfter(Head_, wdog_head', Head_) =
              IF wdog_head' = <<>> THEN Head_ ELSE wdog_head'[1]
        BY <1>1, <1>2, NodeAfterAt
      <3> QED BY <1>6, <2>1, <3>1, <3>2 DEF First
    <2> QED BY <2>2, <2>3
  <1>7. ASSUME niter = iter, iter \in Cancelled
        PROVE  niter \in Cancelled \ Range(wdog_head') /\ end'[niter] <= ticks
    BY <1>2, <1>3, <1>7
  <1> QED BY <1>3, <1>4, <1>5, <1>6, <1>7, WalkNext

\* Every step keeps the walk on the first watchdog, while any is due.
LEMMA WalkStep ==
    ASSUME CancelOthers, Inv, WalkInv, [Next]_vars
    PROVE  WalkInv'
  <1>0. iter \in Wds \cup {Head_}
    BY DEF Inv, TypeOK
  <1>1. CASE Systick
    BY <1>1, WalkSystick
  <1>2. CASE watchdog_check_expired
    BY <1>2, WalkCheck
  <1>3. CASE sleep_timeout
    <2>1. /\ isr = "callback" /\ NextNode /\ ticks' = ticks
          /\ wdog_head' = wdog_head /\ end' = end
      BY <1>3 DEF sleep_timeout, NextNode
    <2>2. First' = First /\ NoneDue' = NoneDue
      BY <2>1 DEF First, NoneDue
    <2> QED BY <2>1, <2>2, WalkNext DEF WalkInv
  <1>4. CASE timer_callback
    <2>1. isr = "callback" /\ NextNode /\ iter \in Periodic
      BY <1>4 DEF timer_callback
    <2>2. PICK d \in Delays : Arm(Unlink(wdog_head, iter), iter, ticks, d)
      BY <1>4 DEF timer_callback
    <2>3. iter \notin Range(wdog_head) /\ iter \notin Cancelled
      BY <2>1 DEF WalkInv, CancelOthers
    <2>4. Unlink(wdog_head, iter) = wdog_head
      BY <2>3 DEF Unlink
    <2>5. iter \in live
      BY <2>1 DEF Inv, IsrInv, Visited, Armed
    <2> QED BY <2>1, <2>2, <2>3, <2>4, <2>5, WalkArm
  <1>5. CASE CallbackStarts
    <2>1. isr = "callback" /\ NextNode
      BY <1>5 DEF CallbackStarts
    <2>2. PICK x \in Started, d \in Delays :
            ~Linked(x) /\ Arm(wdog_head, x, ticks, d)
      BY <1>5 DEF CallbackStarts
    <2>3. x \in live /\ x \notin Range(wdog_head) \cup Cancelled
      BY <2>2 DEF Inv, ListInv, Linked, CancelOthers
    <2> QED BY <2>1, <2>2, <2>3, WalkArm
  <1>6. CASE CallbackCancels
    <2>1. isr = "callback" /\ NextNode /\ end' = end
      BY <1>6 DEF CallbackCancels
    <2>2. PICK x \in Cancelled \ {iter} : wdog_head' = Unlink(wdog_head, x)
      BY <1>6 DEF CallbackCancels
    <2> QED BY <2>1, <2>2, WalkCancel
  <1>7. ASSUME NEW t \in Tasks, Task(t) PROVE WalkInv'
    <2>1. isr = "off" /\ isr' = isr
      BY <1>7 DEF Task, OwnerStart, StartLock, StartCancel, StartAdd,
                  watchdog_cancel, watchdog_delete, watchdog_init, nanosleep,
                  NanosleepNsec, NanosleepReturn, isrvars
    <2> QED BY <2>1 DEF WalkInv
  <1>8. CASE UNCHANGED vars
    <2>1. UNCHANGED <<ticks, wdog_head, end, isr, iter, niter>>
      BY <1>8 DEF vars, isrvars
    <2>2. First' = First /\ NoneDue' = NoneDue
      BY <2>1 DEF First, NoneDue
    <2> QED BY <2>1, <2>2 DEF WalkInv
  <1> QED BY <1>1, <1>2, <1>3, <1>4, <1>5, <1>6, <1>7, <1>8 DEF Next, Tick

(* When the tick handler ends, no watchdog that runs is due, whatever the  *)
(* callbacks start or cancel under its saved next node (watchdog.c:163).   *)
THEOREM WatchdogTickFiresAll ==
    ASSUME CancelOthers
    PROVE  Spec => TickFiresAll
  <1>1. Init => WalkInv
    BY DEF Init, WalkInv
  <1>2. Inv /\ WalkInv /\ [Next]_vars => WalkInv'
    BY WalkStep
  <1>3. ASSUME Inv, WalkInv, [Next]_vars, isr = "loop", isr' = "off"
        PROVE  \A w \in Range(wdog_head) : ticks < end[w]
    <2>1. watchdog_check_expired
      <3>1. Next
        BY <1>3 DEF vars, isrvars
      <3>2. CASE Tick
        BY <1>3, <3>2 DEF Tick, Systick, sleep_timeout, timer_callback,
                          CallbackStarts, CallbackCancels
      <3>3. ASSUME NEW t \in Tasks, Task(t) PROVE FALSE
        BY <1>3, <3>3 DEF Task, OwnerStart, StartLock, StartCancel, StartAdd,
                          watchdog_cancel, watchdog_delete, watchdog_init,
                          nanosleep, NanosleepNsec, NanosleepReturn
      <3> QED BY <3>1, <3>2, <3>3 DEF Next
    <2>2. NoneDue
      BY <1>3, <2>1, WalkCheck
    <2>3. wdog_head \in Seq(Wds) /\ end \in [Wds -> Nat] /\ ticks \in Nat
      BY <1>3 DEF Inv, TypeOK
    <2>4. \A w \in Range(wdog_head) : end[w] > ticks /\ end[w] \in Nat
      BY <2>2, <2>3, RangeAt DEF NoneDue
    <2> QED BY <2>3, <2>4
  <1>4. Inv /\ WalkInv /\ [Next]_vars =>
          [isr = "loop" /\ isr' = "off" =>
             \A w \in Range(wdog_head) : ticks < end[w]]_vars
    BY <1>3
  <1> QED BY <1>1, <1>2, <1>4, WatchdogInv, PTL DEF Spec, TickFiresAll

-----------------------------------------------------------------------------
(* nanosleep *)

\* Nothing is left to come of x: it does not run, nor does its callback.
Quiet(x) == x \notin Range(wdog_head) /\ ~(isr = "callback" /\ iter = x)

\* The tick before which sleeper t may not go on from p.
Deadline(t, p) ==
    called[t] + SecTicks(req[t][1])
    + (IF p = "wait_nsec" THEN NsecTicks(req[t][2]) ELSE 0)

(* While t starts its watchdog, the semaphore is empty and no callback is  *)
(* left to come; then it either waits for one, with a late enough time, or *)
(* has been posted once, late enough.                                      *)
Asleep(t) ==
    /\ pc[t] \in {"lock"} \cup Returns
    /\ pc[t] = "idle" => Owned[t] \cap live = {}
    /\ pc[t] = "lock" =>
         /\ sem[wd[t]] = 0 /\ Quiet(wd[t]) /\ after[t] # "idle"
         /\ current_ticks[t] + ticks_arg[t] >= Deadline(t, after[t])
    /\ pc[t] \in {"wait_sec", "wait_nsec"} =>
         \/ sem[wd[t]] = 0 /\ ~Quiet(wd[t]) /\ end[wd[t]] >= Deadline(t, pc[t])
         \/ sem[wd[t]] = 1 /\ Quiet(wd[t]) /\ ticks >= Deadline(t, pc[t])

SleepInv == \A t \in Sleepers : Asleep(t)

\* Deadlines are times.
LEMMA DeadlineType ==
    ASSUME Inv, NEW t \in Tasks, NEW p
    PROVE  Deadline(t, p) \in Nat
  <1>1. called[t] \in Nat /\ req[t] \in Requests
    BY DEF Inv, TypeOK
  <1>2. SecTicks(req[t][1]) \in Nat /\ NsecTicks(req[t][2]) \in Nat
    BY <1>1, TicksOfRequest
  <1> QED BY <1>1, <1>2 DEF Deadline

\* A sleeper's watchdog is its own, and no callback starts or cancels it.
LEMMA SleepersOwn ==
    ASSUME CancelOthers, NEW t \in Sleepers
    PROVE  /\ t \in Tasks /\ Owned[t] \subseteq Wds /\ Owned[t] \subseteq SleepWds
           /\ Owned[t] \cap (Periodic \cup Started \cup Cancelled) = {}
           /\ \A x \in Owned[t] : Owned[t] = {x}
  <1>1. t \in Tasks /\ Owned[t] \subseteq Wds /\ Owned[t] \subseteq SleepWds
    BY WatchdogAssumption DEF SleepWds
  <1>2. Owned[t] \cap (Periodic \cup Started \cup Cancelled) = {}
    BY <1>1, WatchdogAssumption DEF CancelOthers
  <1>3. \A x \in Owned[t] : Owned[t] = {x}
    BY WatchdogAssumption
  <1> QED BY <1>1, <1>2, <1>3

\* A step that leaves a sleeper and its watchdog alone.
LEMMA AsleepFrame ==
    ASSUME Inv, NEW t \in Sleepers, Asleep(t), ticks' \in Nat, ticks' >= ticks,
           /\ pc'[t] = pc[t] /\ after'[t] = after[t] /\ wd'[t] = wd[t]
           /\ ticks_arg'[t] = ticks_arg[t] /\ current_ticks'[t] = current_ticks[t]
           /\ req'[t] = req[t] /\ called'[t] = called[t],
           \A x \in Owned[t] :
             /\ sem'[x] = sem[x] /\ end'[x] = end[x] /\ Quiet(x)' = Quiet(x)
             /\ x \in live' <=> x \in live
    PROVE  Asleep(t)'
  <1>1. t \in Tasks /\ ticks \in Nat
    BY WatchdogAssumption DEF Inv, TypeOK
  <1>2. \A p : Deadline(t, p)' = Deadline(t, p) /\ Deadline(t, p) \in Nat
    BY <1>1, DeadlineType DEF Deadline
  <1>3. pc[t] # "idle" => wd[t] \in Owned[t]
    BY <1>1 DEF Inv, CallInv
  <1>4. pc[t] \in {"lock"} \cup Returns
    BY DEF Asleep
  <1>5. CASE pc[t] = "idle"
    <2>1. Owned[t] \cap live' = {}
      BY <1>5 DEF Asleep
    <2> QED BY <1>5, <2>1 DEF Asleep, Returns
  <1>6. CASE pc[t] = "lock"
    <2>1. /\ sem[wd[t]] = 0 /\ Quiet(wd[t]) /\ after[t] # "idle"
          /\ current_ticks[t] + ticks_arg[t] >= Deadline(t, after[t])
      BY <1>6 DEF Asleep
    <2>2. sem'[wd[t]] = 0 /\ Quiet(wd[t])'
      BY <1>3, <1>6, <2>1
    <2> QED BY <1>2, <1>6, <2>1, <2>2 DEF Asleep
  <1>7. CASE pc[t] \in {"wait_sec", "wait_nsec"}
    <2>1. \/ sem[wd[t]] = 0 /\ ~Quiet(wd[t]) /\ end[wd[t]] >= Deadline(t, pc[t])
          \/ sem[wd[t]] = 1 /\ Quiet(wd[t]) /\ ticks >= Deadline(t, pc[t])
      BY <1>7 DEF Asleep
    <2>2. /\ sem'[wd[t]] = sem[wd[t]] /\ end'[wd[t]] = end[wd[t]]
          /\ Quiet(wd[t])' = Quiet(wd[t])
      BY <1>3, <1>7
    <2>3. ticks >= Deadline(t, pc[t]) => ticks' >= Deadline(t, pc[t])
      BY <1>1, <1>2
    <2> QED BY <1>2, <1>4, <1>7, <2>1, <2>2, <2>3 DEF Asleep
  <1> QED BY <1>4, <1>5, <1>6, <1>7 DEF Returns

\* A task's step leaves the others alone, and all watchdogs but one of its own.
LEMMA TaskTouches ==
    ASSUME Inv, NEW t \in Tasks, Task(t)
    PROVE  /\ isr = "off" /\ isr' = "off" /\ ticks' = ticks
           /\ \A u \in Tasks \ {t} :
                /\ pc'[u] = pc[u] /\ after'[u] = after[u] /\ wd'[u] = wd[u]
                /\ ticks_arg'[u] = ticks_arg[u]
                /\ current_ticks'[u] = current_ticks[u]
                /\ req'[u] = req[u] /\ called'[u] = called[u]
           /\ \E y \in Owned[t] : \A x \in Wds \ {y} :
                /\ sem'[x] = sem[x] /\ end'[x] = end[x]
                /\ x \in Range(wdog_head') <=> x \in Range(wdog_head)
                /\ x \in live' <=> x \in live
  <1> USE DEF isrvars, taskvars
  <1>0. /\ pc \in [Tasks -> Pcs] /\ called \in [Tasks -> Nat]
        /\ sem \in [Wds -> Nat] /\ req \in [Tasks -> Requests]
        /\ after \in [Tasks -> Returns] /\ wd \in [Tasks -> Wds]
        /\ ticks_arg \in [Tasks -> Nat \ {0}]
        /\ current_ticks \in [Tasks -> Nat]
        /\ wdog_head \in Seq(Wds) /\ IsInjective(wdog_head)
    BY DEF Inv, TypeOK, ListInv
  <1> DEFINE Same(x) == /\ sem'[x] = sem[x] /\ end'[x] = end[x]
                        /\ x \in Range(wdog_head') <=> x \in Range(wdog_head)
                        /\ x \in live' <=> x \in live
             Still(u) == /\ pc'[u] = pc[u] /\ after'[u] = after[u]
                         /\ wd'[u] = wd[u] /\ ticks_arg'[u] = ticks_arg[u]
                         /\ current_ticks'[u] = current_ticks[u]
                         /\ req'[u] = req[u] /\ called'[u] = called[u]
  <1>1. isr = "off" /\ isr' = "off" /\ ticks' = ticks
    BY DEF Task, OwnerStart, StartLock, StartCancel, StartAdd,
           watchdog_cancel, watchdog_delete, watchdog_init, nanosleep,
           NanosleepNsec, NanosleepReturn
  <1>2. \A u \in Tasks \ {t} : Still(u)
    <2>1. CASE OwnerStart(t) \/ nanosleep(t) \/ NanosleepNsec(t)
      BY <1>0, <2>1 DEF OwnerStart, nanosleep, NanosleepNsec, Begin
    <2>2. CASE StartLock(t) \/ StartAdd(t)
      BY <1>0, <2>2 DEF StartLock, StartAdd, Leave
    <2>3. CASE \/ watchdog_cancel(t) \/ watchdog_delete(t) \/ watchdog_init(t)
               \/ StartCancel(t) \/ NanosleepReturn(t)
      BY <1>0, <2>3 DEF watchdog_cancel, watchdog_delete, watchdog_init,
                        StartCancel, NanosleepReturn
    <2> QED BY <2>1, <2>2, <2>3 DEF Task
  <1>3. \A y : Range(Unlink(wdog_head, y)) = Range(wdog_head) \ {y}
    BY <1>0, UnlinkOnce
  <1>4. pc[t] # "idle" => wd[t] \in Owned[t]
    BY DEF Inv, CallInv
  <1>5. Owned[t] # {}
    BY WatchdogAssumption
  <1>6. \E y \in Owned[t] : \A x \in Wds \ {y} : Same(x)
    <2>1. CASE OwnerStart(t)
      BY <1>5, <2>1 DEF OwnerStart
    <2>2. CASE (StartLock(t) \/ StartAdd(t)) /\ pc'[t] # "cancel"
      <3>1. /\ Arm(Unlink(wdog_head, wd[t]), wd[t], current_ticks[t], ticks_arg[t])
            /\ Leave(t) /\ pc[t] \in {"lock", "add"}
            /\ UNCHANGED <<ticks, live, sem, isr, iter, niter, after, wd, req,
                           called, fault>>
        BY <2>2, StartLockArms
      <3>2. /\ \A y \in Wds \ {wd[t]} : end'[y] = end[y]
            /\ Range(wdog_head') = Range(wdog_head) \cup {wd[t]}
        BY <1>1, <3>1, ArmInv
      <3>3. wd[t] \in Owned[t] /\ \A x \in Wds \ {wd[t]} : Same(x)
        BY <1>4, <3>1, <3>2
      <3> QED BY <3>3
    <2>3. CASE (StartLock(t) \/ StartAdd(t)) /\ pc'[t] = "cancel"
      <3>1. StartLock(t)
        BY <1>0, <2>3 DEF StartAdd, Leave, Returns
      <3>2. UNCHANGED <<wdog_head, end, live, sem>>
        BY <1>0, <2>3, <3>1 DEF StartLock, Leave, Returns
      <3> QED BY <1>5, <3>2
    <2>4. CASE StartCancel(t) \/ NanosleepReturn(t)
      <3>1. /\ wd[t] \in Owned[t] /\ wd[t] \in Wds /\ end' = end
            /\ wdog_head' = Unlink(wdog_head, wd[t])
        BY <1>0, <1>4, <2>4 DEF StartCancel, NanosleepReturn
      <3>2. /\ sem' \in {sem, [sem EXCEPT ![wd[t]] = @ - 1]}
            /\ live' \in {live, live \ {wd[t]}}
        BY <2>4 DEF StartCancel, NanosleepReturn
      <3>3. \A x \in Wds \ {wd[t]} : sem'[x] = sem[x]
        BY <1>0, <3>1, <3>2
      <3>4. \A x \in Wds \ {wd[t]} : Same(x)
        BY <1>3, <3>1, <3>2, <3>3
      <3> QED BY <3>1, <3>4
    <2>5. CASE watchdog_cancel(t) \/ watchdog_delete(t)
      <3>1. PICK y \in Owned[t] :
              /\ wdog_head' = Unlink(wdog_head, y) /\ live' \in {live, live \ {y}}
        BY <2>5 DEF watchdog_cancel, watchdog_delete
      <3>2. UNCHANGED <<end, sem>>
        BY <2>5 DEF watchdog_cancel, watchdog_delete
      <3>3. \A x \in Wds \ {y} : Same(x)
        BY <1>3, <3>1, <3>2
      <3> QED BY <3>3
    <2>6. CASE watchdog_init(t)
      <3>1. PICK y \in Owned[t] : live' = live \cup {y}
        BY <2>6 DEF watchdog_init
      <3>2. UNCHANGED <<end, sem, wdog_head>>
        BY <2>6 DEF watchdog_init
      <3>3. \A x \in Wds \ {y} : Same(x)
        BY <3>1, <3>2
      <3> QED BY <3>3
    <2>7. CASE nanosleep(t)
      <3>1. PICK y \in Owned[t] :
              live' = live \cup {y} /\ sem' = [sem EXCEPT ![y] = 0]
        BY <2>7 DEF nanosleep
      <3>2. UNCHANGED <<end, wdog_head>>
        BY <2>7 DEF nanosleep
      <3>3. \A x \in Wds \ {y} : Same(x)
        BY <1>0, <3>1, <3>2
      <3> QED BY <3>3
    <2>8. CASE NanosleepNsec(t)
      <3>1. /\ wd[t] \in Owned[t] /\ sem' = [sem EXCEPT ![wd[t]] = @ - 1]
            /\ UNCHANGED <<end, wdog_head, live>>
        BY <1>4, <2>8 DEF NanosleepNsec
      <3>2. \A x \in Wds \ {wd[t]} : Same(x)
        BY <1>0, <3>1
      <3> QED BY <3>1, <3>2
    <2> QED BY <2>1, <2>2, <2>3, <2>4, <2>5, <2>6, <2>7, <2>8 DEF Task
  <1> QED BY <1>1, <1>2, <1>6

\* Another task's step.
LEMMA SleepOthers ==
    ASSUME CancelOthers, Inv, NEW u \in Sleepers, Asleep(u),
           NEW t \in Tasks \ {u}, Task(t)
    PROVE  Asleep(u)'
  <1>1. u \in Tasks \ {t} /\ Owned[u] \subseteq Wds
    BY SleepersOwn
  <1>2. /\ isr = "off" /\ isr' = "off" /\ ticks' = ticks
        /\ pc'[u] = pc[u] /\ after'[u] = after[u] /\ wd'[u] = wd[u]
        /\ ticks_arg'[u] = ticks_arg[u] /\ current_ticks'[u] = current_ticks[u]
        /\ req'[u] = req[u] /\ called'[u] = called[u]
    BY <1>1, TaskTouches
  <1>3. PICK y \in Owned[t] : \A x \in Wds \ {y} :
          /\ sem'[x] = sem[x] /\ end'[x] = end[x]
          /\ x \in Range(wdog_head') <=> x \in Range(wdog_head)
          /\ x \in live' <=> x \in live
    BY TaskTouches
  <1>4. y \notin Owned[u]
    BY <1>1, <1>3, WatchdogAssumption
  <1>5. \A x \in Owned[u] :
          /\ sem'[x] = sem[x] /\ end'[x] = end[x] /\ Quiet(x)' = Quiet(x)
          /\ x \in live' <=> x \in live
    BY <1>1, <1>2, <1>3, <1>4 DEF Quiet
  <1>6. ticks' \in Nat /\ ticks' >= ticks
    BY <1>2, Now
  <1> QED BY <1>2, <1>5, <1>6, AsleepFrame

\* The tick handler: only a sleeper's own callback posts its semaphore.
LEMMA SleepTick ==
    ASSUME CancelOthers, Inv, WalkInv, NEW u \in Sleepers, Asleep(u), Tick
    PROVE  Asleep(u)'
  <1>1. /\ u \in Tasks /\ Owned[u] \subseteq Wds /\ Owned[u] \subseteq SleepWds
        /\ Owned[u] \cap (Periodic \cup Started \cup Cancelled) = {}
    BY SleepersOwn
  <1>2. /\ live' = live /\ ticks' \in {ticks, ticks + 1}
        /\ UNCHANGED <<pc, after, wd, ticks_arg, current_ticks, req, called>>
    BY DEF Tick, Systick, watchdog_check_expired, sleep_timeout,
           timer_callback, CallbackStarts, CallbackCancels, NextNode, taskvars
  <1>3. ticks \in Nat /\ ticks' \in Nat /\ ticks' >= ticks
    BY <1>2, Now
  <1>4. /\ sem \in [Wds -> Nat] /\ end \in [Wds -> Nat]
        /\ wdog_head \in Seq(Wds) /\ IsInjective(wdog_head)
    BY DEF Inv, TypeOK, ListInv
  <1> DEFINE Same(x) == /\ sem'[x] = sem[x] /\ end'[x] = end[x]
                        /\ Quiet(x)' = Quiet(x)
  <1>5. ASSUME \A x \in Owned[u] : Same(x) PROVE Asleep(u)'
    BY <1>2, <1>3, <1>5, AsleepFrame
  <1>6. CASE Systick
    <2>1. /\ isr = "off" /\ isr' = "loop"
          /\ UNCHANGED <<wdog_head, sem, end>>
      BY <1>6 DEF Systick
    <2> QED BY <1>5, <2>1 DEF Quiet
  <1>7. CASE watchdog_check_expired
    <2>1. isr = "loop" /\ UNCHANGED <<sem, end, iter>>
      BY <1>7 DEF watchdog_check_expired
    <2>2. CASE isr' = "off" /\ wdog_head' = wdog_head
      BY <1>5, <2>1, <2>2 DEF Quiet
    <2>3. CASE /\ isr' = "callback" /\ wdog_head' = Unlink(wdog_head, iter)
               /\ iter # Head_
      <3>1. Range(wdog_head') = Range(wdog_head) \ {iter}
        BY <1>4, <2>3, UnlinkOnce
      <3>2. iter \in Range(wdog_head) \cup Cancelled
        BY <2>1, <2>3 DEF WalkInv
      <3>3. ASSUME NEW x \in Owned[u] PROVE Quiet(x)' = Quiet(x)
        <4>1. CASE x = iter
          <5>1. ~Quiet(x) /\ ~Quiet(x)'
            BY <1>1, <2>1, <2>3, <3>2, <4>1 DEF Quiet
          <5> QED BY <5>1 DEF Quiet
        <4>2. CASE x # iter
          BY <2>1, <2>3, <3>1, <4>2 DEF Quiet
        <4> QED BY <4>1, <4>2
      <3> QED BY <1>5, <2>1, <3>3
    <2> QED BY <1>7, <2>2, <2>3 DEF watchdog_check_expired
  <1>8. CASE sleep_timeout
    <2>1. /\ isr = "callback" /\ isr' = "loop" /\ ticks' = ticks
          /\ UNCHANGED <<wdog_head, end>>
          /\ sem' = IF iter \in SleepWds THEN [sem EXCEPT ![iter] = @ + 1] ELSE sem
          /\ iter \notin Range(wdog_head) /\ end[iter] <= ticks
      BY <1>8 DEF sleep_timeout, NextNode, WalkInv
    <2>2. CASE iter \notin Owned[u]
      BY <1>1, <1>4, <1>5, <2>1, <2>2 DEF Quiet
    <2>3. CASE iter \in Owned[u] /\ pc[u] = "idle"
      <3>1. iter \in live
        BY <2>1, <2>3, <1>1, WatchdogAssumption DEF Inv, IsrInv, Visited, Armed
      <3>2. Owned[u] \cap live = {}
        BY <2>3 DEF Asleep
      <3> QED BY <2>3, <3>1, <3>2
    <2>4. CASE iter \in Owned[u] /\ pc[u] # "idle"
      <3>1. iter = wd[u] /\ ~Quiet(wd[u]) /\ iter \in Wds /\ iter \in SleepWds
        <4>1. wd[u] \in Owned[u]
          BY <1>1, <2>4 DEF Inv, CallInv
        <4>2. wd[u] = iter
          BY <2>4, <4>1, SleepersOwn
        <4> QED BY <1>1, <2>1, <2>4, <4>2 DEF Quiet
      <3>2. pc[u] \in {"wait_sec", "wait_nsec"}
        BY <2>4, <3>1 DEF Asleep, Returns
      <3>3. sem[iter] = 0 /\ end[iter] >= Deadline(u, pc[u])
        BY <3>1, <3>2 DEF Asleep
      <3>4. sem'[iter] = 1
        BY <1>4, <2>1, <3>1, <3>3
      <3>5. ticks >= Deadline(u, pc[u])
        <4>1. Deadline(u, pc[u]) \in Nat /\ end[iter] \in Nat
          BY <1>1, <1>4, <3>1, DeadlineType
        <4> QED BY <1>3, <2>1, <3>3, <4>1
      <3>6. Deadline(u, pc[u])' = Deadline(u, pc[u])
        BY <1>2 DEF Deadline
      <3>7. Quiet(wd[u])'
        BY <1>2, <2>1, <3>1 DEF Quiet
      <3> QED BY <1>2, <2>1, <3>1, <3>2, <3>4, <3>5, <3>6, <3>7 DEF Asleep, Returns
    <2> QED BY <2>2, <2>3, <2>4
  <1>9. CASE timer_callback \/ CallbackStarts \/ CallbackCancels
    <2>1. /\ isr = "callback" /\ isr' = "loop" /\ NextNode /\ sem' = sem
          /\ iter \notin Owned[u] /\ iter \in live
      <3>1. iter \notin Owned[u]
        BY <1>1, <1>9 DEF timer_callback, CallbackStarts, CallbackCancels
      <3>2. isr = "callback" /\ NextNode /\ sem' = sem
        BY <1>9 DEF timer_callback, CallbackStarts, CallbackCancels
      <3> QED BY <3>1, <3>2 DEF Inv, IsrInv, Visited, Armed, NextNode
    <2>2. ASSUME NEW x \in live, x \notin Owned[u], NEW q \in Seq(Wds),
                 IsInjective(q), Ordered(q, end), x \notin Range(q),
                 Range(q) = Range(wdog_head) \ {x},
                 NEW d \in Delays, Arm(q, x, ticks, d)
          PROVE  Asleep(u)'
      <3>1. d \in AllDelays /\ ticks <= ticks /\ Range(q) \subseteq Range(wdog_head)
        BY <1>3, <2>2, DelayTypes
      <3>2. /\ Range(wdog_head') = Range(q) \cup {x}
            /\ \A y \in Wds \ {x} : end'[y] = end[y]
        BY <1>2, <1>3, <2>2, <3>1, ArmList
      <3>3. \A y \in Owned[u] : Same(y)
        BY <1>1, <2>1, <2>2, <3>2 DEF Quiet
      <3> QED BY <1>5, <3>3
    <2>3. CASE timer_callback
      <3>1. PICK d \in Delays : Arm(Unlink(wdog_head, iter), iter, ticks, d)
        BY <2>3 DEF timer_callback
      <3>2. /\ Unlink(wdog_head, iter) \in Seq(Wds)
            /\ IsInjective(Unlink(wdog_head, iter))
            /\ Ordered(Unlink(wdog_head, iter), end)
            /\ Range(Unlink(wdog_head, iter)) = Range(wdog_head) \ {iter}
            /\ iter \notin Range(Unlink(wdog_head, iter))
        BY <1>4, Now, UnlinkType, UnlinkOnce, UnlinkOrdered
      <3> QED BY <2>1, <2>2, <3>1, <3>2
    <2>4. CASE CallbackStarts
      <3>1. PICK x \in Started, d \in Delays :
              ~Linked(x) /\ Arm(wdog_head, x, ticks, d)
        BY <2>4 DEF CallbackStarts
      <3>2. /\ x \in live /\ x \notin Owned[u] /\ x \notin Range(wdog_head)
            /\ Range(wdog_head) = Range(wdog_head) \ {x}
            /\ Ordered(wdog_head, end)
        BY <1>1, <3>1 DEF Inv, ListInv, Linked
      <3> QED BY <1>4, <2>2, <3>1, <3>2
    <2>5. CASE CallbackCancels
      <3>1. PICK x \in Cancelled : wdog_head' = Unlink(wdog_head, x)
        BY <2>5 DEF CallbackCancels
      <3>2. end' = end /\ x \notin Owned[u]
        BY <1>1, <2>5, <3>1 DEF CallbackCancels
      <3>3. Range(wdog_head') = Range(wdog_head) \ {x}
        BY <1>4, <3>1, UnlinkOnce
      <3>4. \A y \in Owned[u] : Same(y)
        BY <2>1, <3>2, <3>3 DEF Quiet
      <3> QED BY <1>5, <3>4
    <2> QED BY <1>9, <2>3, <2>4, <2>5
  <1> QED BY <1>6, <1>7, <1>8, <1>9 DEF Tick

\* The sleeper's own steps.
LEMMA SleepOwn ==
    ASSUME CancelOthers, Inv, NEW u \in Sleepers, Asleep(u), Task(u)
    PROVE  /\ Asleep(u)'
           /\ pc[u] = "wait_nsec" /\ pc'[u] = "idle" =>
                /\ ticks >= Deadline(u, "wait_nsec") /\ Quiet(wd[u])
                /\ sem'[wd[u]] = 0
  <1> USE DEF isrvars, taskvars
  <1>1. /\ u \in Tasks /\ Owned[u] \subseteq Wds
        /\ \A x \in Owned[u] : Owned[u] = {x}
    BY SleepersOwn
  <1>2. /\ pc \in [Tasks -> Pcs] /\ called \in [Tasks -> Nat]
        /\ sem \in [Wds -> Nat] /\ req \in [Tasks -> Requests]
        /\ after \in [Tasks -> Returns] /\ wd \in [Tasks -> Wds]
        /\ ticks_arg \in [Tasks -> Nat \ {0}]
        /\ current_ticks \in [Tasks -> Nat] /\ ticks \in Nat
    BY DEF Inv, TypeOK
  <1>3. /\ pc[u] \in {"lock"} \cup Returns
        /\ pc[u] # "idle" => wd[u] \in Owned[u] /\ wd[u] \in Wds
    BY <1>1, <1>2 DEF Asleep, Inv, CallInv
  <1>4. isr = "off" /\ isr' = "off" /\ ticks' = ticks
    BY <1>1, TaskTouches
  <1>5. CASE nanosleep(u)
    <2>1. PICK x \in Owned[u], r \in Requests :
            /\ live' = live \cup {x} /\ sem' = [sem EXCEPT ![x] = 0]
            /\ req' = [req EXCEPT ![u] = r]
            /\ Begin(u, x, SecTicks(r[1]), "wait_sec")
      BY <1>5 DEF nanosleep
    <2>2. /\ pc[u] = "idle" /\ called' = [called EXCEPT ![u] = ticks]
          /\ wdog_head' = wdog_head
      BY <1>5 DEF nanosleep
    <2>3. /\ pc'[u] = "lock" /\ wd'[u] = x /\ after'[u] = "wait_sec"
          /\ current_ticks'[u] = ticks /\ ticks_arg'[u] = SecTicks(r[1])
          /\ sem'[x] = 0 /\ req'[u] = r /\ called'[u] = ticks
      BY <1>1, <1>2, <2>1, <2>2 DEF Begin
    <2>4. x \notin Range(wdog_head)
      <3>1. Owned[u] \cap live = {}
        BY <2>2 DEF Asleep
      <3>2. Range(wdog_head) \subseteq live
        BY DEF Inv, ListInv, Armed
      <3> QED BY <3>1, <3>2
    <2>5. Quiet(wd[u])'
      BY <1>4, <2>2, <2>3, <2>4 DEF Quiet
    <2>6. Deadline(u, "wait_sec")' = ticks + SecTicks(r[1]) + 0
      BY <2>3 DEF Deadline
    <2>7. SecTicks(r[1]) \in Nat
      BY TicksOfRequest
    <2>8. current_ticks'[u] + ticks_arg'[u] >= Deadline(u, "wait_sec")'
      BY <1>2, <2>3, <2>6, <2>7
    <2>9. Deadline(u, after[u])' = Deadline(u, "wait_sec")'
      BY <2>3 DEF Deadline
    <2> QED BY <2>2, <2>3, <2>5, <2>8, <2>9 DEF Asleep
  <1>6. CASE NanosleepNsec(u)
    <2>1. /\ pc[u] = "wait_sec" /\ sem[wd[u]] > 0
          /\ sem' = [sem EXCEPT ![wd[u]] = @ - 1]
          /\ Begin(u, wd[u], NsecTicks(req[u][2]), "wait_nsec")
          /\ UNCHANGED <<wdog_head, req, called>>
      BY <1>6 DEF NanosleepNsec
    <2>2. sem[wd[u]] = 1 /\ Quiet(wd[u]) /\ ticks >= Deadline(u, "wait_sec")
      BY <2>1 DEF Asleep
    <2>3. /\ pc'[u] = "lock" /\ wd'[u] = wd[u] /\ after'[u] = "wait_nsec"
          /\ current_ticks'[u] = ticks
          /\ ticks_arg'[u] = NsecTicks(req[u][2]) /\ sem'[wd[u]] = 0
      BY <1>1, <1>2, <1>3, <2>1, <2>2 DEF Begin
    <2>4. Quiet(wd[u])'
      BY <1>4, <2>1, <2>2, <2>3 DEF Quiet
    <2>5. /\ Deadline(u, after[u])' =
               called[u] + SecTicks(req[u][1]) + NsecTicks(req[u][2])
          /\ Deadline(u, "wait_sec") = called[u] + SecTicks(req[u][1]) + 0
      BY <2>1, <2>3 DEF Deadline
    <2>6. /\ SecTicks(req[u][1]) \in Nat /\ NsecTicks(req[u][2]) \in Nat
          /\ called[u] \in Nat
      BY <1>1, <1>2, TicksOfRequest
    <2>7. current_ticks'[u] + ticks_arg'[u] >= Deadline(u, after[u])'
      BY <1>2, <2>2, <2>3, <2>5, <2>6
    <2> QED BY <2>1, <2>3, <2>4, <2>7 DEF Asleep
  <1>7. CASE NanosleepReturn(u)
    <2>1. /\ pc[u] = "wait_nsec" /\ sem[wd[u]] > 0 /\ live' = live \ {wd[u]}
          /\ sem' = [sem EXCEPT ![wd[u]] = @ - 1]
          /\ pc' = [pc EXCEPT ![u] = "idle"]
      BY <1>7 DEF NanosleepReturn
    <2>2. sem[wd[u]] = 1 /\ Quiet(wd[u]) /\ ticks >= Deadline(u, "wait_nsec")
      BY <2>1 DEF Asleep
    <2>3. sem'[wd[u]] = 0 /\ pc'[u] = "idle"
      BY <1>1, <1>2, <1>3, <2>1, <2>2
    <2>4. Owned[u] \cap live' = {}
      BY <1>1, <1>3, <2>1
    <2>5. Asleep(u)'
      BY <2>3, <2>4 DEF Asleep, Returns
    <2> QED BY <2>2, <2>3, <2>5
  <1>8. CASE StartLock(u)
    <2>1. /\ pc[u] = "lock" /\ wd[u] \in Wds
          /\ sem[wd[u]] = 0 /\ Quiet(wd[u]) /\ after[u] # "idle"
          /\ current_ticks[u] + ticks_arg[u] >= Deadline(u, after[u])
      BY <1>3, <1>8 DEF StartLock, Asleep
    <2>2. ~Linked(wd[u])
      BY <2>1 DEF Quiet, Linked
    <2>3. Leave(u)
      BY <1>8, <2>2 DEF StartLock
    <2>4. pc'[u] = after[u] /\ after[u] \in {"wait_sec", "wait_nsec"}
      BY <1>1, <1>2, <2>1, <2>3 DEF Leave, Returns
    <2>5. /\ Arm(Unlink(wdog_head, wd[u]), wd[u], current_ticks[u], ticks_arg[u])
          /\ pc[u] \in {"lock", "add"}
          /\ UNCHANGED <<ticks, live, sem, isr, iter, niter, after, wd, req,
                         called, fault>>
      BY <1>1, <1>8, <2>4, StartLockArms
    <2>6. /\ end'[wd[u]] = current_ticks[u] + ticks_arg[u]
          /\ Range(wdog_head') = Range(wdog_head) \cup {wd[u]}
      BY <1>1, <1>4, <2>3, <2>5, ArmInv
    <2>7. ~Quiet(wd[u])'
      BY <2>5, <2>6 DEF Quiet
    <2>8. Deadline(u, pc[u])' = Deadline(u, after[u])
      BY <2>4, <2>5 DEF Deadline
    <2> QED BY <2>1, <2>4, <2>5, <2>6, <2>7, <2>8 DEF Asleep, Returns
  <1>9. ~(StartCancel(u) \/ StartAdd(u))
    BY <1>3 DEF StartCancel, StartAdd, Returns
  <1>10. ~(OwnerStart(u) \/ watchdog_cancel(u) \/ watchdog_delete(u) \/ watchdog_init(u))
    BY DEF OwnerStart, watchdog_cancel, watchdog_delete, watchdog_init
  <1> QED BY <1>5, <1>6, <1>7, <1>8, <1>9, <1>10 DEF Task

\* Every step keeps what each sleeper waits for.
LEMMA SleepStep ==
    ASSUME CancelOthers, Inv, WalkInv, SleepInv, [Next]_vars, NEW u \in Sleepers
    PROVE  /\ Asleep(u)'
           /\ pc[u] = "wait_nsec" /\ pc'[u] = "idle" =>
                /\ ticks >= Deadline(u, "wait_nsec") /\ Quiet(wd[u])
                /\ sem'[wd[u]] = 0
  <1>1. Asleep(u) /\ u \in Tasks
    BY WatchdogAssumption DEF SleepInv
  <1>2. CASE Tick
    <2>1. pc' = pc
      BY <1>2 DEF Tick, Systick, watchdog_check_expired, sleep_timeout,
                  timer_callback, CallbackStarts, CallbackCancels, NextNode,
                  taskvars
    <2> QED BY <1>1, <1>2, <2>1, SleepTick
  <1>3. CASE Task(u)
    BY <1>1, <1>3, SleepOwn
  <1>4. ASSUME NEW t \in Tasks \ {u}, Task(t)
        PROVE  Asleep(u)' /\ pc'[u] = pc[u]
    BY <1>1, <1>4, SleepOthers, TaskTouches
  <1>5. CASE UNCHANGED vars
    <2> USE <1>5 DEF vars, isrvars, taskvars
    <2>1. pc' = pc /\ ticks' \in Nat /\ ticks' >= ticks
      BY Now
    <2>2. \A x \in Owned[u] : Quiet(x)' = Quiet(x)
      BY DEF Quiet
    <2> QED BY <1>1, <2>1, <2>2, AsleepFrame
  <1> QED BY <1>2, <1>3, <1>4, <1>5 DEF Next

(* nanosleep (lib/sleep.c:27) returns after at least the time of its       *)
(* request, and with it no callback is left that would post the semaphore  *)
(* of the frame it leaves; the conversions to ticks lose nothing.          *)
THEOREM SleepersSleepEnough ==
    ASSUME CancelOthers
    PROVE  Spec => SleepsEnough
  <1> DEFINE Enough(t) ==
               /\ ticks * TICK_IN_NSEC >=
                    (called[t] + req[t][1] * HZ) * TICK_IN_NSEC + req[t][2]
               /\ ~Linked(wd[t]) /\ sem'[wd[t]] = 0
  <1>1. Init => WalkInv /\ SleepInv
    <2> SUFFICES ASSUME Init PROVE WalkInv /\ SleepInv
      OBVIOUS
    <2>1. WalkInv
      BY DEF Init, WalkInv
    <2>2. ASSUME NEW t \in Sleepers PROVE Asleep(t)
      <3>1. t \in Tasks
        BY SleepersOwn
      <3>2. pc[t] = "idle" /\ Owned[t] \cap live = {}
        BY <3>1, SleepersOwn DEF Init
      <3> QED BY <3>2 DEF Asleep, Returns
    <2> QED BY <2>1, <2>2 DEF SleepInv
  <1>2. Inv /\ WalkInv /\ SleepInv /\ [Next]_vars => WalkInv' /\ SleepInv'
    BY WalkStep, SleepStep DEF SleepInv
  <1>3. ASSUME Inv, WalkInv, SleepInv, [Next]_vars, NEW t \in Sleepers,
               pc[t] = "wait_nsec", pc'[t] = "idle"
        PROVE  Enough(t)
    <2>1. /\ ticks >= Deadline(t, "wait_nsec") /\ Quiet(wd[t])
          /\ sem'[wd[t]] = 0
      BY <1>3, SleepStep
    <2>2. t \in Tasks /\ called[t] \in Nat /\ req[t] \in Requests /\ ticks \in Nat
      BY <1>3, SleepersOwn DEF Inv, TypeOK
    <2> DEFINE a == SecTicks(req[t][1])
               b == NsecTicks(req[t][2])
               T == TICK_IN_NSEC
    <2>3. ticks >= called[t] + a + b
      BY <2>1 DEF Deadline
    <2>4. /\ a \in Nat /\ b \in Nat /\ req[t][1] \in Nat /\ req[t][2] \in Nat
          /\ a >= req[t][1] * HZ /\ b * T >= req[t][2] /\ T \in Nat /\ HZ \in Nat
      BY <2>2, TicksOfRequest, WatchdogAssumption
    <2> HIDE DEF a, b, T
    <2>5. ticks * T >= (called[t] + req[t][1] * HZ) * T + req[t][2]
      <3> DEFINE c == called[t] + req[t][1] * HZ
      <3>1. c \in Nat
        BY <2>2, <2>4
      <3>2. ticks >= c + b
        BY <2>2, <2>3, <2>4
      <3> HIDE DEF c
      <3>3. ticks * T >= (c + b) * T /\ (c + b) * T = c * T + b * T
        BY <2>2, <2>4, <3>1, <3>2
      <3>4. ticks * T \in Nat /\ c * T \in Nat /\ b * T \in Nat
        BY <2>2, <2>4, <3>1
      <3>5. ticks * T >= c * T + req[t][2]
        BY <2>4, <3>3, <3>4
      <3> QED BY <3>5 DEF c
    <2> QED BY <2>1, <2>5 DEF T, Quiet, Linked
  <1>4. Inv /\ WalkInv /\ SleepInv /\ [Next]_vars =>
          [\A t \in Sleepers : pc[t] = "wait_nsec" /\ pc'[t] = "idle" =>
             Enough(t)]_vars
    BY <1>3
  <1> QED BY <1>1, <1>2, <1>4, WatchdogInv, PTL DEF Spec, SleepsEnough

=============================================================================
