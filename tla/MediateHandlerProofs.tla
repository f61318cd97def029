------------------------ MODULE MediateHandlerProofs ------------------------
(***************************************************************************)
(* What is proved of MediateHandler for every set of patterns, every bound *)
(* and every choice of faults: type correctness, with the count of the     *)
(* promises every call still awaits; that a bound pattern is listed; and   *)
(* that a handler that has been paused is deaf.                            *)
(***************************************************************************)
EXTENDS MediateHandler, FiniteSetTheorems, FunctionTheorems, TLAPS

Once(s) == \A a, b \in DOMAIN s : s[a] = s[b] => a = b

\* A sequence without repetition has as many elements as it is long.
LEMMA OnceCounts ==
    ASSUME NEW S, NEW s \in Seq(S), Once(s)
    PROVE  IsFiniteSet(Elements(s)) /\ Cardinality(Elements(s)) = Len(s)
<1> DEFINE n == Len(s)
           f == [i \in 1..n |-> s[i]]
<1>1. n \in Nat /\ DOMAIN s = 1..n
  OBVIOUS
<1>2. f \in Bijection(1..n, Elements(s))
  <2>1. \A i \in 1..n : f[i] \in Elements(s)
    BY <1>1 DEF Elements
  <2>2. \A e \in Elements(s) : \E i \in 1..n : f[i] = e
    BY <1>1 DEF Elements
  <2>3. \A a, b \in 1..n : f[a] = f[b] => a = b
    BY <1>1 DEF Once
  <2> QED
    BY <2>1, <2>2, <2>3 DEF Bijection, Injection, Surjection, IsInjective
<1>3. IsFiniteSet(1..n) /\ Cardinality(1..n) = n
  BY <1>1, FS_Interval
<1>4. ExistsBijection(1..n, Elements(s))
  BY <1>2 DEF ExistsBijection
<1> QED
  BY <1>3, <1>4, FS_Bijection

-----------------------------------------------------------------------------
\* What a call asks for.
Ours(rs) ==
    /\ rs \in Seq(Request) /\ Once(rs)
    /\ \A a \in DOMAIN rs : rs[a].who = Self

LEMMA SelfIsId ==
    ASSUME TypeOK, MayCall
    PROVE  Self \in Ids /\ Self \in Nat /\ Self = Len(calls) + 1 /\ Self \notin DOMAIN calls
BY MaxCallsAssumption DEF TypeOK, MayCall, Self, Ids

LEMMA StopRequestsOurs ==
    ASSUME TypeOK, MayCall
    PROVE  /\ Ours(StopRequests)
           /\ \A a \in DOMAIN StopRequests : StopRequests[a] = Cancel(tag, Self)
           /\ isListening => Elements(StopRequests) = {Cancel(tag, Self)}
<1>1. tag \in Ids \cup {NoTag} /\ Self \in Ids
  BY SelfIsId DEF TypeOK, ConnectorTypeOK
<1>2. isListening => Cancel(tag, Self) \in Request
  BY <1>1 DEF isListening, Cancel, Request
<1>3. Cancel(tag, Self).who = Self
  BY DEF Cancel
<1>4. CASE isListening
  <2>1. StopRequests = <<Cancel(tag, Self)>>
    BY <1>4 DEF StopRequests
  <2> QED
    BY <1>2, <1>3, <1>4, <2>1 DEF Ours, Once, Elements
<1>5. CASE ~isListening
  BY <1>5 DEF StopRequests, Ours, Once
<1> QED
  BY <1>4, <1>5

LEMMA HalfOf ==
    ASSUME NEW m \in Nat
    PROVE  m \div 2 \in Nat /\ (m = 2 * (m \div 2) \/ m = 2 * (m \div 2) + 1)
OBVIOUS

\* Every other pattern of a list.
LEMMA Halves ==
    ASSUME NEW S, NEW s \in Seq(S), Once(s)
    PROVE  /\ Reached(s) \in Seq(S) /\ Once(Reached(s))
           /\ Skipped(s) \in Seq(S) /\ Once(Skipped(s))
           /\ Elements(s) = Elements(Reached(s)) \cup Elements(Skipped(s))
           /\ Reached(s) = <<>> => s = <<>>
<1> DEFINE n == Len(s)
           up == (n + 1) \div 2
           down == n \div 2
<1>1. n \in Nat /\ DOMAIN s = 1..n
  OBVIOUS
<1>2. up \in Nat /\ down \in Nat /\ (up = 0 => n = 0)
      /\ (\A i \in 1..up : 2 * i - 1 \in 1..n) /\ (\A i \in 1..down : 2 * i \in 1..n)
      /\ \A j \in 1..n : (\E i \in 1..up : j = 2 * i - 1) \/ (\E i \in 1..down : j = 2 * i)
  <2>1. up \in Nat /\ (n + 1 = 2 * up \/ n = 2 * up)
    <3>1. n + 1 \in Nat
      BY <1>1
    <3>2. up \in Nat /\ (n + 1 = 2 * up \/ n + 1 = 2 * up + 1)
      BY <3>1, HalfOf
    <3> HIDE DEF n, up
    <3> QED
      BY <1>1, <3>2
  <2>2. down \in Nat /\ (n = 2 * down \/ n = 2 * down + 1)
    BY <1>1, HalfOf
  <2>3. \A j \in 1..n : \E i \in Nat : j = 2 * i \/ j = 2 * i + 1
    <3> SUFFICES ASSUME NEW j \in 1..n PROVE \E i \in Nat : j = 2 * i \/ j = 2 * i + 1
      OBVIOUS
    <3>1. j \in Nat
      BY <1>1
    <3> QED
      BY <3>1, HalfOf
  <2> HIDE DEF n, up, down
  <2>4. ASSUME NEW j \in 1..n
        PROVE  (\E i \in 1..up : j = 2 * i - 1) \/ (\E i \in 1..down : j = 2 * i)
    <3>1. PICK i \in Nat : j = 2 * i \/ j = 2 * i + 1
      BY <2>3
    <3>2. CASE j = 2 * i
      <4>1. i \in 1..down
        BY <1>1, <2>2, <3>2
      <4> QED
        BY <3>2, <4>1
    <3>3. CASE j = 2 * i + 1
      <4>1. i + 1 \in 1..up /\ j = 2 * (i + 1) - 1
        BY <1>1, <2>1, <3>3
      <4> QED
        BY <4>1
    <3> QED
      BY <3>1, <3>2, <3>3
  <2>5. \A i \in 1..up : 2 * i - 1 \in 1..n
    BY <1>1, <2>1
  <2>6. \A i \in 1..down : 2 * i \in 1..n
    BY <1>1, <2>2
  <2> QED
    BY <1>1, <2>1, <2>2, <2>4, <2>5, <2>6
<1>3. DOMAIN Reached(s) = 1..up /\ \A i \in 1..up : Reached(s)[i] = s[2 * i - 1]
  BY DEF Reached
<1>4. DOMAIN Skipped(s) = 1..down /\ \A i \in 1..down : Skipped(s)[i] = s[2 * i]
  BY DEF Skipped
<1>i. Reached(s) = [i \in 1..up |-> s[2 * i - 1]] /\ Skipped(s) = [i \in 1..down |-> s[2 * i]]
  BY DEF Reached, Skipped
<1>j. \A j \in 1..n : s[j] \in S
  OBVIOUS
<1> HIDE DEF n, up, down
<1>5. Reached(s) \in Seq(S)
  <2>1. \A i \in 1..up : s[2 * i - 1] \in S
    BY <1>2, <1>j
  <2> QED
    BY <1>2, <1>i, <2>1
<1>6. Skipped(s) \in Seq(S)
  <2>1. \A i \in 1..down : s[2 * i] \in S
    BY <1>2, <1>j
  <2> QED
    BY <1>2, <1>i, <2>1
<1>7. Once(Reached(s))
  <2> SUFFICES ASSUME NEW a \in 1..up, NEW b \in 1..up, Reached(s)[a] = Reached(s)[b]
               PROVE  a = b
    BY <1>3 DEF Once
  <2>1. 2 * a - 1 = 2 * b - 1
    BY <1>1, <1>2, <1>3 DEF Once
  <2> QED
    BY <1>2, <2>1
<1>8. Once(Skipped(s))
  <2> SUFFICES ASSUME NEW a \in 1..down, NEW b \in 1..down, Skipped(s)[a] = Skipped(s)[b]
               PROVE  a = b
    BY <1>4 DEF Once
  <2>1. 2 * a = 2 * b
    BY <1>1, <1>2, <1>4 DEF Once
  <2> QED
    BY <1>2, <2>1
<1>9. Elements(s) = Elements(Reached(s)) \cup Elements(Skipped(s))
  <2>1. ASSUME NEW j \in 1..n
        PROVE  s[j] \in Elements(Reached(s)) \cup Elements(Skipped(s))
    BY <1>2, <1>3, <1>4 DEF Elements
  <2>2. \A i \in 1..up : Reached(s)[i] \in Elements(s)
    BY <1>1, <1>2, <1>3 DEF Elements
  <2>3. \A i \in 1..down : Skipped(s)[i] \in Elements(s)
    BY <1>1, <1>2, <1>4 DEF Elements
  <2> QED
    BY <1>1, <1>3, <1>4, <2>1, <2>2, <2>3 DEF Elements
<1>10. Reached(s) = <<>> => s = <<>>
  BY <1>1, <1>2, <1>3 DEF n
<1> QED
  BY <1>5, <1>6, <1>7, <1>8, <1>9, <1>10

\* One sequence after another.
LEMMA Concat ==
    ASSUME NEW S, NEW s \in Seq(S), NEW t \in Seq(S)
    PROVE  /\ s \o t \in Seq(S)
           /\ Elements(s \o t) = Elements(s) \cup Elements(t)
           /\ Once(s) /\ Once(t) /\ Elements(s) \cap Elements(t) = {} => Once(s \o t)
<1> DEFINE n == Len(s)
           m == Len(t)
<1>1. /\ n \in Nat /\ m \in Nat /\ DOMAIN s = 1..n /\ DOMAIN t = 1..m
      /\ s \o t \in Seq(S) /\ DOMAIN (s \o t) = 1..(n + m)
      /\ \A i \in 1..n : (s \o t)[i] = s[i]
      /\ \A i \in 1..m : (s \o t)[n + i] = t[i]
  OBVIOUS
<1>2. \A j \in 1..(n + m) : j \in 1..n \/ \E i \in 1..m : j = n + i
  <2> SUFFICES ASSUME NEW j \in 1..(n + m), j \notin 1..n PROVE \E i \in 1..m : j = n + i
    OBVIOUS
  <2>1. j - n \in 1..m /\ j = n + (j - n)
    BY <1>1
  <2> QED
    BY <2>1
<1>3. \A j \in 1..n : j \in 1..(n + m)
  BY <1>1
<1>4. \A j \in 1..m : n + j \in 1..(n + m)
  BY <1>1
<1> DEFINE u == s \o t
<1> HIDE DEF n, m, u
<1>5. Elements(u) = Elements(s) \cup Elements(t)
  <2>1. \A j \in DOMAIN u : u[j] \in Elements(s) \cup Elements(t)
    BY <1>1, <1>2 DEF Elements, u
  <2>2. \A j \in DOMAIN s : s[j] \in Elements(u)
    <3> SUFFICES ASSUME NEW j \in DOMAIN s PROVE s[j] \in Elements(u)
      OBVIOUS
    <3>1. j \in DOMAIN u /\ u[j] = s[j]
      BY <1>1, <1>3 DEF u
    <3> QED
      BY <3>1 DEF Elements
  <2>3. \A j \in DOMAIN t : t[j] \in Elements(u)
    <3> SUFFICES ASSUME NEW j \in DOMAIN t PROVE t[j] \in Elements(u)
      OBVIOUS
    <3>1. n + j \in DOMAIN u /\ u[n + j] = t[j]
      BY <1>1, <1>4 DEF u
    <3> QED
      BY <3>1 DEF Elements
  <2> QED
    BY <2>1, <2>2, <2>3 DEF Elements
<1>6. ASSUME Once(s), Once(t), Elements(s) \cap Elements(t) = {} PROVE Once(u)
  <2> SUFFICES ASSUME NEW a \in 1..(n + m), NEW b \in 1..(n + m), u[a] = u[b]
               PROVE  a = b
    BY <1>1 DEF Once, u
  <2>1. CASE a \in 1..n /\ b \in 1..n
    BY <1>1, <1>6, <2>1 DEF Once, u
  <2>2. ASSUME a \in 1..n, NEW k \in 1..m, b = n + k PROVE FALSE
    <3>1. s[a] \in Elements(s) /\ t[k] \in Elements(t)
      BY <1>1, <2>2 DEF Elements
    <3>2. s[a] = t[k]
      BY <1>1, <2>2 DEF u
    <3> QED
      BY <1>6, <3>1, <3>2
  <2>3. ASSUME b \in 1..n, NEW k \in 1..m, a = n + k PROVE FALSE
    <3>1. s[b] \in Elements(s) /\ t[k] \in Elements(t)
      BY <1>1, <2>3 DEF Elements
    <3>2. s[b] = t[k]
      BY <1>1, <2>3 DEF u
    <3> QED
      BY <1>6, <3>1, <3>2
  <2>4. ASSUME NEW k \in 1..m, a = n + k, NEW l \in 1..m, b = n + l PROVE a = b
    BY <1>1, <1>6, <2>4 DEF Once, u
  <2> QED
    BY <1>2, <2>1, <2>2, <2>3, <2>4
<1> QED
  BY <1>1, <1>5, <1>6 DEF u

\* dispose asks for the cancelling of the consumer and for every other pattern
\* to be unbound.
Disposing == StopRequests \o Unsubscribing(Reached(listed))

LEMMA DisposingOurs ==
    ASSUME TypeOK, MayCall, Once(listed)
    PROVE  /\ Ours(Disposing)
           /\ Elements(Disposing) = Elements(StopRequests)
                                    \cup {Unbind(q, Self) : q \in Elements(Reached(listed))}
           /\ Disposing = <<>> => listed = <<>>
<1> DEFINE half == Reached(listed)
           rs == Unsubscribing(half)
<1>1. listed \in Seq(Patterns) /\ Self \in Ids
  BY SelfIsId DEF TypeOK
<1>2. half \in Seq(Patterns) /\ Once(half) /\ (half = <<>> => listed = <<>>)
  BY <1>1, Halves
<1> HIDE DEF half
<1>3. /\ DOMAIN half = 1..Len(half) /\ Len(half) \in Nat
      /\ DOMAIN rs = DOMAIN half /\ \A a \in DOMAIN half : rs[a] = Unbind(half[a], Self)
  BY <1>2 DEF Unsubscribing
<1>4. rs = [a \in 1..Len(half) |-> Unbind(half[a], Self)]
  BY <1>3 DEF Unsubscribing
<1> HIDE DEF rs
<1>5. \A q \in Patterns : /\ Unbind(q, Self) \in Request /\ Unbind(q, Self).who = Self
                          /\ Unbind(q, Self).op = "unbind" /\ Unbind(q, Self).key = q
  BY <1>1 DEF Unbind, Request
<1>6. \A a \in 1..Len(half) : half[a] \in Patterns
  BY <1>2
<1>7. rs \in Seq(Request)
  <2>1. rs \in [1..Len(half) -> Request]
    BY <1>4, <1>5, <1>6
  <2> QED
    BY <1>3, <2>1
<1>8. Once(rs)
  BY <1>2, <1>3, <1>5, <1>6 DEF Once
<1>9. Elements(rs) = {Unbind(q, Self) : q \in Elements(half)}
  BY <1>3 DEF Elements
<1>10. /\ StopRequests \in Seq(Request) /\ Once(StopRequests)
       /\ \A a \in DOMAIN StopRequests : /\ StopRequests[a].who = Self
                                         /\ StopRequests[a].op = "cancel"
  BY StopRequestsOurs DEF Ours, Cancel
<1>11. Elements(StopRequests) \cap Elements(rs) = {}
  BY <1>3, <1>5, <1>6, <1>10 DEF Elements
<1>12. Disposing = StopRequests \o rs
  BY DEF Disposing, rs, half
<1>13. /\ Disposing \in Seq(Request) /\ Once(Disposing)
       /\ Elements(Disposing) = Elements(StopRequests) \cup Elements(rs)
  BY <1>7, <1>8, <1>10, <1>11, <1>12, Concat
<1>14. \A a \in DOMAIN Disposing : Disposing[a].who = Self
  <2> SUFFICES ASSUME NEW a \in DOMAIN Disposing PROVE Disposing[a].who = Self
    OBVIOUS
  <2>1. Disposing[a] \in Elements(StopRequests) \cup Elements(rs)
    BY <1>13 DEF Elements
  <2> QED
    BY <1>3, <1>5, <1>6, <1>10, <2>1 DEF Elements
<1>15. ASSUME Disposing = <<>> PROVE listed = <<>>
  <2>1. Elements(rs) = {}
    BY <1>13, <1>15 DEF Elements
  <2>2. 1 \notin DOMAIN half
    BY <1>3, <2>1 DEF Elements
  <2>3. half = <<>>
    BY <1>2, <1>3, <2>2
  <2> QED
    BY <1>2, <2>3
<1> QED
  BY <1>9, <1>13, <1>14, <1>15 DEF Ours, half

-----------------------------------------------------------------------------
\* The requests that are not settled yet, and those of a call among them.
Outstanding == InFlight \cup refused
Of(S, i) == {r \in S : r.who = i}

\* A call counts the requests it has outstanding; the channel dies for all of
\* them at once.
Accounts ==
    /\ Once(pipe)
    /\ \A r \in Outstanding : r.who \in DOMAIN calls
    /\ \A i \in DOMAIN calls :
         /\ IsFiniteSet(Of(Outstanding, i)) /\ calls[i].left = Cardinality(Of(Outstanding, i))
         /\ calls[i].st = "done" => Of(Outstanding, i) = {}
    /\ \A r \in InFlight : calls[r.who].st = "pending"
                           /\ \A q \in refused : q.who # r.who

Base == TypeOK /\ Once(listed) /\ Accounts

\* The types of what the requests are about.
RequestsOK == pipe \in Seq(Request) /\ refused \subseteq Request /\ calls \in Seq(CallRecord)

LEMMA FlightElements == InFlight = Elements(pipe)
BY DEF InFlight, Elements

\* A call makes its requests.
LEMMA MakingKeeps ==
    ASSUME Base, MayCall, NEW did \in {"handle", "start", "pause", "dispose"},
           NEW rs, Ours(rs), Making(did, rs)
    PROVE  /\ RequestsOK' /\ Accounts'
           /\ InFlight' = (IF Usable THEN InFlight \cup Elements(rs) ELSE InFlight)
           /\ refused' = (IF Usable THEN refused ELSE refused \cup Elements(rs))
<1> DEFINE E == Elements(rs)
           c == [did |-> did, left |-> Len(rs), st |-> IF rs = <<>> THEN "done" ELSE "pending"]
<1>1. /\ Self \in Nat /\ Self = Len(calls) + 1 /\ calls \in Seq(CallRecord)
      /\ Self \notin DOMAIN calls /\ pipe \in Seq(Request) /\ refused \subseteq Request
  BY SelfIsId DEF Base, TypeOK, ConnectorTypeOK
<1>2. /\ IsFiniteSet(E) /\ Cardinality(E) = Len(rs) /\ Len(rs) \in Nat /\ E \subseteq Request
      /\ \A r \in E : r.who = Self
      /\ rs = <<>> => E = {}
  <2>1. IsFiniteSet(E) /\ Cardinality(E) = Len(rs) /\ Len(rs) \in Nat
    BY OnceCounts DEF Ours
  <2>2. E \subseteq Request /\ \A r \in E : r.who = Self
    BY DEF Ours, Elements
  <2> QED
    BY <2>1, <2>2 DEF Elements
<1>3. c \in CallRecord
  BY <1>2 DEF CallRecord
<1>4. calls' = Append(calls, c)
  BY DEF Making, Made
<1> HIDE DEF c
<1>5. /\ calls' \in Seq(CallRecord) /\ DOMAIN calls' = DOMAIN calls \cup {Self}
      /\ calls'[Self] = c /\ \A i \in DOMAIN calls : calls'[i] = calls[i]
  BY <1>1, <1>3, <1>4
<1>6. \A r \in Outstanding : r.who \in DOMAIN calls
  BY DEF Base, Accounts
<1>7. /\ pipe' \in Seq(Request) /\ Once(pipe')
      /\ InFlight' = IF Usable THEN InFlight \cup E ELSE InFlight
  <2>1. CASE Usable
    <3>1. pipe' = pipe \o rs
      BY <2>1 DEF Making
    <3>2. Elements(pipe) \cap E = {}
      BY <1>1, <1>2, <1>6, FlightElements DEF Outstanding
    <3>3. pipe \o rs \in Seq(Request) /\ Elements(pipe \o rs) = Elements(pipe) \cup E
          /\ Once(pipe \o rs)
      BY <1>1, <3>2, Concat DEF Ours, Base, Accounts
    <3> QED
      BY <2>1, <3>1, <3>3 DEF InFlight, Elements
  <2>2. CASE ~Usable
    BY <1>1, <2>2 DEF Making, Base, Accounts, InFlight
  <2> QED
    BY <2>1, <2>2
<1>8. refused' = (IF Usable THEN refused ELSE refused \cup E)
  BY DEF Making
<1> HIDE DEF E
<1>9. refused' \subseteq Request
  BY <1>1, <1>2, <1>8
<1>10. Outstanding' = Outstanding \cup E
  BY <1>7, <1>8 DEF Outstanding
<1>11. Of(Outstanding', Self) = E /\ \A i \in DOMAIN calls : Of(Outstanding', i) = Of(Outstanding, i)
  BY <1>1, <1>2, <1>6, <1>10 DEF Of
<1>12. \A r \in Outstanding' : r.who \in DOMAIN calls'
  BY <1>2, <1>5, <1>6, <1>10
<1>13. ASSUME NEW i \in DOMAIN calls'
       PROVE  /\ IsFiniteSet(Of(Outstanding', i)) /\ calls'[i].left = Cardinality(Of(Outstanding', i))
              /\ calls'[i].st = "done" => Of(Outstanding', i) = {}
  <2>1. CASE i = Self
    BY <1>2, <1>5, <1>11, <2>1 DEF c
  <2>2. CASE i \in DOMAIN calls
    BY <1>5, <1>11, <2>2 DEF Base, Accounts
  <2> QED
    BY <1>5, <2>1, <2>2
<1>14. ASSUME NEW r \in InFlight'
       PROVE  calls'[r.who].st = "pending" /\ \A q \in refused' : q.who # r.who
  <2>1. CASE r \in InFlight
    <3>1. r.who \in DOMAIN calls /\ calls[r.who].st = "pending"
          /\ \A q \in refused : q.who # r.who
      BY <1>6, <2>1 DEF Base, Accounts, Outstanding
    <3> QED
      BY <1>1, <1>2, <1>5, <1>8, <3>1
  <2>2. CASE Usable /\ r \in E
    <3>1. rs # <<>> /\ r.who = Self /\ calls'[r.who].st = "pending"
      BY <1>2, <1>5, <2>2 DEF c
    <3>2. \A q \in refused : q.who # Self
      BY <1>1, <1>6 DEF Outstanding
    <3> QED
      BY <1>8, <2>2, <3>1, <3>2
  <2> QED
    BY <1>7, <2>1, <2>2
<1>15. Accounts'
  BY <1>7, <1>12, <1>13, <1>14 DEF Accounts
<1> QED
  BY <1>5, <1>7, <1>8, <1>9, <1>15 DEF RequestsOK, E

\* A call is rejected at once.
LEMMA RejectingKeeps ==
    ASSUME Base, MayCall, NEW did \in {"handle", "start", "pause", "dispose"},
           Rejecting(did)
    PROVE  RequestsOK' /\ Accounts' /\ InFlight' = InFlight
<1> DEFINE c == [did |-> did, left |-> 0, st |-> "failed"]
<1>1. /\ Self \in Nat /\ Self = Len(calls) + 1 /\ calls \in Seq(CallRecord)
      /\ Self \notin DOMAIN calls
  BY SelfIsId DEF Base, TypeOK
<1>2. c \in CallRecord /\ calls' = Append(calls, c)
  BY DEF CallRecord, Rejecting, Made
<1> HIDE DEF c
<1>3. /\ calls' \in Seq(CallRecord) /\ DOMAIN calls' = DOMAIN calls \cup {Self}
      /\ calls'[Self] = c /\ \A i \in DOMAIN calls : calls'[i] = calls[i]
  BY <1>1, <1>2
<1>4. /\ UNCHANGED <<pipe, refused>> /\ InFlight' = InFlight
      /\ Outstanding' = Outstanding 
  BY DEF Rejecting, InFlight, Outstanding
<1>5. \A r \in Outstanding : r.who \in DOMAIN calls
  BY DEF Base, Accounts
<1>6. Of(Outstanding, Self) = {} /\ IsFiniteSet({}) /\ Cardinality({}) = 0
  BY <1>1, <1>5, FS_EmptySet DEF Of
<1>7. ASSUME NEW i \in DOMAIN calls'
      PROVE  /\ IsFiniteSet(Of(Outstanding', i)) /\ calls'[i].left = Cardinality(Of(Outstanding', i))
             /\ calls'[i].st = "done" => Of(Outstanding', i) = {}
  <2>1. CASE i = Self
    <3>1. Of(Outstanding', i) = {}
      BY <1>4, <1>6, <2>1
    <3>2. calls'[i].left = 0 /\ calls'[i].st = "failed"
      BY <1>3, <2>1 DEF c
    <3> QED
      BY <1>6, <3>1, <3>2
  <2>2. CASE i \in DOMAIN calls
    BY <1>3, <1>4, <2>2 DEF Base, Accounts
  <2> QED
    BY <1>3, <2>1, <2>2
<1>8. Accounts'
  BY <1>3, <1>4, <1>5, <1>7 DEF Accounts, Base, Outstanding, Once
<1> QED
  BY <1>3, <1>4, <1>8 DEF RequestsOK, Base, TypeOK, ConnectorTypeOK

\* One of the outstanding requests of a call settles: as its reply arrives, or
\* as it is rejected.
LEMMA SettledKeeps ==
    ASSUME Base, NEW r \in Outstanding, NEW ok \in BOOLEAN, Settled(r.who, ok),
           pipe' \in Seq(Request), Once(pipe'), refused' \subseteq refused,
           InFlight' \subseteq InFlight, Outstanding' = Outstanding \ {r},
           ok <=> r \in InFlight
    PROVE  /\ calls' \in Seq(CallRecord) /\ Len(calls') = Len(calls)
           /\ RequestsOK' /\ Accounts'
           /\ \A i \in DOMAIN calls : calls'[i].did = calls[i].did
           /\ \A i \in DOMAIN calls \ {r.who} : calls'[i] = calls[i]
           /\ calls[r.who].st # "pending" => calls'[r.who].st = calls[r.who].st
                                              \/ calls'[r.who].st = "failed"
           /\ ~ok => calls'[r.who].st = "failed"
           /\ \A i \in DOMAIN calls : calls[i].st = "failed" => calls'[i].st = "failed"
<1> DEFINE k == r.who
           O == Outstanding \ {r}
<1>1. /\ calls \in Seq(CallRecord) /\ k \in DOMAIN calls /\ refused \subseteq Request
      /\ \A i \in DOMAIN calls : calls[i] \in CallRecord
  BY DEF Base, TypeOK, ConnectorTypeOK, Accounts
<1>2. \A i \in DOMAIN calls :
        /\ IsFiniteSet(Of(Outstanding, i)) /\ calls[i].left = Cardinality(Of(Outstanding, i))
        /\ calls[i].st = "done" => Of(Outstanding, i) = {}
  BY DEF Base, Accounts
<1>3. r \in Of(Outstanding, k)
  BY DEF Of
<1>4. /\ Of(O, k) = Of(Outstanding, k) \ {r}
      /\ \A i \in DOMAIN calls \ {k} : Of(O, i) = Of(Outstanding, i)
  BY DEF Of
<1>5. /\ IsFiniteSet(Of(O, k)) /\ Cardinality(Of(O, k)) = calls[k].left - 1
      /\ calls[k].left \in Nat /\ Cardinality(Of(O, k)) \in Nat
  <2>1. IsFiniteSet(Of(O, k)) /\ Cardinality(Of(O, k)) = Cardinality(Of(Outstanding, k)) - 1
    <3> DEFINE S == Of(Outstanding, k)
    <3>1. IsFiniteSet(S) /\ r \in S /\ Of(O, k) = S \ {r}
      BY <1>1, <1>2, <1>3, <1>4
    <3> HIDE DEF S
    <3>2. IsFiniteSet(S \ {r}) /\ Cardinality(S \ {r}) = Cardinality(S) - 1
      BY <3>1, FS_RemoveElement
    <3> QED
      BY <3>1, <3>2 DEF S
  <2>2. Cardinality(Of(O, k)) \in Nat
    BY <2>1, FS_CardinalityType
  <2> QED
    BY <1>1, <1>2, <2>1, <2>2 DEF CallRecord
<1> DEFINE c == [calls[k] EXCEPT !.left = @ - 1,
                 !.st = CASE ~ok -> "failed"
                          [] ok /\ @ = "pending" /\ calls[k].left = 1 -> "done"
                          [] OTHER -> @]
<1>6. /\ c \in CallRecord /\ c.did = calls[k].did /\ c.left = calls[k].left - 1
      /\ c.st = CASE ~ok -> "failed"
                  [] ok /\ calls[k].st = "pending" /\ calls[k].left = 1 -> "done"
                  [] OTHER -> calls[k].st
  BY <1>1, <1>5 DEF CallRecord
<1>7. calls' = [calls EXCEPT ![k] = c]
  BY <1>1 DEF Settled, CallRecord
<1> HIDE DEF c, O
<1>8. /\ calls' \in Seq(CallRecord) /\ Len(calls') = Len(calls) /\ DOMAIN calls' = DOMAIN calls
      /\ calls'[k] = c /\ \A i \in DOMAIN calls \ {k} : calls'[i] = calls[i]
  BY <1>1, <1>6, <1>7
<1>9. Outstanding' = O
  BY DEF O
<1>10. calls[k].st # "done"
  BY <1>1, <1>2, <1>3
<1>11. \A i \in DOMAIN calls' :
         /\ IsFiniteSet(Of(Outstanding', i)) /\ calls'[i].left = Cardinality(Of(Outstanding', i))
         /\ calls'[i].st = "done" => Of(Outstanding', i) = {}
  <2> SUFFICES ASSUME NEW i \in DOMAIN calls
               PROVE  /\ IsFiniteSet(Of(O, i)) /\ calls'[i].left = Cardinality(Of(O, i))
                      /\ calls'[i].st = "done" => Of(O, i) = {}
    BY <1>8, <1>9
  <2>1. CASE i = k
    <3>1. ASSUME c.st = "done" PROVE Of(O, k) = {}
      <4>1. calls[k].left = 1
        BY <1>6, <1>10, <3>1
      <4>2. Cardinality(Of(O, k)) = 0
        BY <1>5, <4>1
      <4> QED
        BY <1>5, <4>2, FS_EmptySet
    <3> QED
      BY <1>5, <1>6, <1>8, <2>1, <3>1
  <2>2. CASE i # k
    BY <1>2, <1>4, <1>8, <2>2
  <2> QED
    BY <2>1, <2>2
<1>12. ASSUME NEW q \in InFlight'
       PROVE  calls'[q.who].st = "pending" /\ \A p \in refused' : p.who # q.who
  <2>1. q \in InFlight /\ q.who \in DOMAIN calls /\ calls[q.who].st = "pending"
        /\ \A p \in refused : p.who # q.who
    BY DEF Base, Accounts, Outstanding
  <2>2. CASE q.who = k
    <3>1. q \in Of(O, k)
      BY <1>9, <2>2 DEF Of, Outstanding
    <3>2. Of(O, k) # {} /\ calls[k].left # 1
      BY <1>5, <3>1, FS_EmptySet
    <3>3. ok
      BY <2>1, <2>2 DEF Outstanding
    <3>4. c.st = "pending"
      BY <1>6, <2>1, <2>2, <3>2, <3>3
    <3> QED
      BY <1>8, <2>1, <2>2, <3>4
  <2>3. CASE q.who # k
    BY <1>8, <2>1, <2>3
  <2> QED
    BY <2>2, <2>3
<1>13. \A q \in Outstanding' : q.who \in DOMAIN calls'
  BY <1>8 DEF Base, Accounts
<1>14. Accounts'
  BY <1>11, <1>12, <1>13 DEF Accounts, Once
<1>15. RequestsOK'
  BY <1>1, <1>8 DEF RequestsOK
<1>16. /\ \A i \in DOMAIN calls : calls'[i].did = calls[i].did
       /\ calls[k].st # "pending" => calls'[k].st = calls[k].st \/ calls'[k].st = "failed"
       /\ ~ok => calls'[k].st = "failed"
       /\ \A i \in DOMAIN calls : calls[i].st = "failed" => calls'[i].st = "failed"
  BY <1>6, <1>8
<1> QED
  BY <1>8, <1>14, <1>15, <1>16

\* The oldest request of the channel is answered.
LEMMA ServedKeeps ==
    ASSUME Base, NEW r, Served(r), UNCHANGED refused
    PROVE  /\ r \in InFlight /\ InFlight' = InFlight \ {r}
           /\ Outstanding' = Outstanding \ {r} /\ r \in Request
           /\ pipe' \in Seq(Request) /\ Once(pipe')
<1>1. pipe \in Seq(Request) /\ pipe # <<>> /\ r = Head(pipe) /\ pipe' = Tail(pipe)
  BY DEF Base, TypeOK, ConnectorTypeOK, Served, Reply
<1>2. /\ DOMAIN pipe = 1..Len(pipe) /\ Len(pipe) \in Nat /\ Len(pipe) >= 1
      /\ r = pipe[1] /\ r \in Request
      /\ pipe' \in Seq(Request) /\ DOMAIN pipe' = 1..(Len(pipe) - 1)
      /\ \A i \in 1..(Len(pipe) - 1) : pipe'[i] = pipe[i + 1]
  BY <1>1
<1>3. \A a, b \in DOMAIN pipe : pipe[a] = pipe[b] => a = b
  BY DEF Base, Accounts, Once
<1>4. Once(pipe')
  <2> SUFFICES ASSUME NEW a \in 1..(Len(pipe) - 1), NEW b \in 1..(Len(pipe) - 1),
                      pipe'[a] = pipe'[b]
               PROVE  a = b
    BY <1>2 DEF Once
  <2>1. a + 1 \in DOMAIN pipe /\ b + 1 \in DOMAIN pipe /\ pipe[a + 1] = pipe[b + 1]
    BY <1>2
  <2>2. a + 1 = b + 1
    BY <1>3, <2>1
  <2> QED
    BY <1>2, <2>2
<1>5. r \in InFlight
  BY <1>2 DEF InFlight
<1>6. InFlight' = InFlight \ {r}
  <2>1. ASSUME NEW i \in DOMAIN pipe' PROVE pipe'[i] \in InFlight \ {r}
    <3>1. i + 1 \in DOMAIN pipe /\ pipe'[i] = pipe[i + 1] /\ i + 1 # 1 /\ 1 \in DOMAIN pipe
      BY <1>2
    <3> QED
      BY <1>2, <1>3, <3>1 DEF InFlight
  <2>2. ASSUME NEW i \in DOMAIN pipe, pipe[i] # r PROVE pipe[i] \in InFlight'
    <3>1. i - 1 \in DOMAIN pipe' /\ pipe'[i - 1] = pipe[i]
      <4>1. i # 1 /\ i - 1 \in 1..(Len(pipe) - 1)
        BY <1>2, <2>2
      <4>2. pipe'[i - 1] = pipe[(i - 1) + 1] /\ (i - 1) + 1 = i
        BY <1>2, <4>1
      <4> QED
        BY <1>2, <4>1, <4>2
    <3> QED
      BY <3>1 DEF InFlight
  <2> QED
    BY <2>1, <2>2 DEF InFlight
<1>7. r \notin refused
  BY <1>5 DEF Base, Accounts
<1> QED
  BY <1>2, <1>4, <1>5, <1>6, <1>7 DEF Outstanding

\* The channel dies.
LEMMA AllRefusedKeeps ==
    ASSUME Base, AllRefused, UNCHANGED calls
    PROVE  RequestsOK' /\ Accounts' /\ InFlight' = {}
<1>1. pipe' = <<>> /\ refused' = refused \cup InFlight /\ InFlight \subseteq Request
  BY DEF AllRefused, InFlight, Base, TypeOK, ConnectorTypeOK
<1>2. InFlight' = {} /\ Outstanding' = Outstanding /\ Once(pipe')
  BY <1>1 DEF InFlight, Outstanding, Once
<1> QED
  BY <1>1, <1>2 DEF RequestsOK, Base, TypeOK, ConnectorTypeOK, Accounts

\* What a reply does to the calls.
LEMMA ServedSettles ==
    ASSUME Base, NEW r, Served(r), UNCHANGED refused
    PROVE  /\ RequestsOK' /\ Accounts' /\ Len(calls') = Len(calls)
           /\ r \in InFlight /\ InFlight' = InFlight \ {r} /\ r \in Request
           /\ r.who \in DOMAIN calls /\ calls[r.who].st = "pending"
           /\ \A i \in DOMAIN calls : /\ calls'[i].did = calls[i].did
                                      /\ calls[i].st = "failed" => calls'[i].st = "failed"
           /\ \A i \in DOMAIN calls \ {r.who} : calls'[i] = calls[i]
<1>1. /\ r \in InFlight /\ InFlight' = InFlight \ {r}
      /\ Outstanding' = Outstanding \ {r} /\ r \in Request
      /\ pipe' \in Seq(Request) /\ Once(pipe')
  BY ServedKeeps
<1>2. r \in Outstanding /\ Settled(r.who, TRUE) /\ TRUE \in BOOLEAN
  BY <1>1 DEF Outstanding, Served
<1>3. r.who \in DOMAIN calls /\ calls[r.who].st = "pending"
  BY <1>1, <1>2 DEF Base, Accounts
<1>4. refused' \subseteq refused /\ InFlight' \subseteq InFlight /\ (TRUE <=> r \in InFlight)
  BY <1>1
<1> HIDE DEF Served
<1> QED
  BY <1>1, <1>2, <1>3, <1>4, SettledKeeps

\* A rejection runs.
LEMMA RefusedSettles ==
    ASSUME Base, NEW r \in refused, refused' = refused \ {r}, Settled(r.who, FALSE),
           UNCHANGED pipe
    PROVE  /\ RequestsOK' /\ Accounts' /\ Len(calls') = Len(calls) /\ InFlight' = InFlight
           /\ r.who \in DOMAIN calls /\ calls'[r.who].st = "failed"
           /\ \A i \in DOMAIN calls : calls'[i].did = calls[i].did
           /\ \A i \in DOMAIN calls \ {r.who} : calls'[i] = calls[i]
           /\ calls'[r.who].st # "pending"
<1>1. InFlight' = InFlight /\ r \notin InFlight /\ r \in Outstanding
  BY DEF InFlight, Outstanding, Base, Accounts
<1>2. Outstanding' = Outstanding \ {r}
  BY <1>1 DEF Outstanding
<1>3. pipe' \in Seq(Request) /\ Once(pipe') /\ refused' \subseteq refused /\ FALSE \in BOOLEAN
      /\ InFlight' \subseteq InFlight /\ (FALSE <=> r \in InFlight) /\ r.who \in DOMAIN calls
  BY <1>1 DEF Base, TypeOK, ConnectorTypeOK, Accounts, Once
<1> QED
  BY <1>1, <1>2, <1>3, SettledKeeps

LEMMA OneRequest ==
    ASSUME NEW r \in Request, r.who = Self
    PROVE  Ours(<<r>>) /\ Elements(<<r>>) = {r}
BY DEF Ours, Once, Elements

LEMMA TypesFrom ==
    ASSUME TypeOK, RequestsOK', UNCHANGED <<careful, losses, tag, bound, consumers, queue, link>>,
           listed' \in Seq(Patterns), asked' \in BOOLEAN, declared' \in BOOLEAN
    PROVE  TypeOK'
BY DEF TypeOK, ConnectorTypeOK, RequestsOK

-----------------------------------------------------------------------------
LEMMA BaseInit == Init => Base
<1> SUFFICES ASSUME Init PROVE Base
  OBVIOUS
<1>1. pipe = <<>> /\ refused = {} /\ calls = <<>> /\ listed = <<>>
  BY DEF Init, ConnectorInit
<1>2. TypeOK
  <2>1. 0 \in 0..MaxLoss
    BY MaxLossAssumption
  <2>2. ConnectorTypeOK
    BY <1>1, <2>1 DEF Init, ConnectorInit, ConnectorTypeOK
  <2>3. calls \in Seq(CallRecord) /\ listed \in Seq(Patterns)
    BY <1>1
  <2>4. careful \in BOOLEAN /\ asked \in BOOLEAN /\ declared \in BOOLEAN
    BY DEF Init
  <2> QED
    BY <2>2, <2>3, <2>4 DEF TypeOK
<1>3. Once(listed) /\ Accounts
  BY <1>1 DEF Once, Accounts, Outstanding, InFlight
<1> QED
  BY <1>2, <1>3 DEF Base

LEMMA BaseHandle == ASSUME Base, NEW p \in Patterns, Handle(p) PROVE Base'
<1>1. MayCall /\ "handle" \in {"handle", "start", "pause", "dispose"}
      /\ UNCHANGED <<careful, listed, declared, link, losses, tag, bound, consumers, queue>>
  BY DEF Handle, brokerVars
<1>2. Bind(p, Self) \in Request /\ Bind(p, Self).who = Self
  BY <1>1, SelfIsId DEF Base, Bind, Request
<1>3. RequestsOK' /\ Accounts' /\ asked' \in BOOLEAN
  <2>1. CASE link = "gone"
    BY <1>1, <2>1, RejectingKeeps DEF Handle, Base, TypeOK
  <2>2. CASE link # "gone"
    <3>1. Making("handle", <<Bind(p, Self)>>) /\ asked' = TRUE
      BY <2>2 DEF Handle
    <3> QED
      BY <1>1, <1>2, <3>1, OneRequest, MakingKeeps
  <2> QED
    BY <2>1, <2>2
<1>4. listed' \in Seq(Patterns) /\ declared' \in BOOLEAN /\ Once(listed')
  BY <1>1 DEF Base, TypeOK
<1>5. TypeOK'
  BY <1>1, <1>3, <1>4, TypesFrom DEF Base
<1> QED
  BY <1>3, <1>4, <1>5 DEF Base, Once

LEMMA BaseStart == ASSUME Base, Start PROVE Base'
<1>1. MayCall /\ "start" \in {"handle", "start", "pause", "dispose"}
      /\ UNCHANGED <<careful, listed, asked, declared, link, losses, tag, bound, consumers, queue>>
  BY DEF Start, brokerVars
<1>2. Consume(Self, Self) \in Request /\ Consume(Self, Self).who = Self
  BY <1>1, SelfIsId DEF Base, Consume, Request
<1>3. RequestsOK' /\ Accounts'
  <2>1. CASE asked
    <3>1. Making("start", <<Consume(Self, Self)>>)
      BY <2>1 DEF Start
    <3> QED
      BY <1>1, <1>2, <3>1, OneRequest, MakingKeeps
  <2>2. CASE ~asked
    BY <1>1, <2>2, RejectingKeeps DEF Start
  <2> QED
    BY <2>1, <2>2
<1>4. listed' \in Seq(Patterns) /\ asked' \in BOOLEAN /\ declared' \in BOOLEAN /\ Once(listed')
  BY <1>1 DEF Base, TypeOK
<1>5. TypeOK'
  BY <1>1, <1>3, <1>4, TypesFrom DEF Base
<1> QED
  BY <1>3, <1>4, <1>5 DEF Base, Once

LEMMA BasePause == ASSUME Base, Pause PROVE Base'
<1>1. MayCall /\ "pause" \in {"handle", "start", "pause", "dispose"}
      /\ Making("pause", StopRequests)
      /\ UNCHANGED <<careful, listed, asked, declared, link, losses, tag, bound, consumers, queue>>
  BY DEF Pause, brokerVars
<1>2. RequestsOK' /\ Accounts'
  BY <1>1, StopRequestsOurs, MakingKeeps DEF Base
<1>3. listed' \in Seq(Patterns) /\ asked' \in BOOLEAN /\ declared' \in BOOLEAN /\ Once(listed')
  BY <1>1 DEF Base, TypeOK
<1>4. TypeOK'
  BY <1>1, <1>2, <1>3, TypesFrom DEF Base
<1> QED
  BY <1>2, <1>3, <1>4 DEF Base, Once

LEMMA BaseDispose == ASSUME Base, Dispose PROVE Base'
<1>1. MayCall /\ "dispose" \in {"handle", "start", "pause", "dispose"}
      /\ UNCHANGED <<careful, asked, declared, link, losses, tag, bound, consumers, queue>>
  BY DEF Dispose, brokerVars
<1>2. RequestsOK' /\ Accounts'
  <2>1. CASE link # "gone"
    <3>1. Making("dispose", Disposing)
      BY <2>1 DEF Dispose, Disposing
    <3>2. Ours(Disposing)
      BY <1>1, DisposingOurs DEF Base
    <3> QED
      BY <1>1, <3>1, <3>2, MakingKeeps
  <2>2. CASE link = "gone" /\ listed = <<>>
    <3>1. Making("dispose", <<>>) /\ Ours(<<>>)
      BY <2>2 DEF Dispose, Ours, Once
    <3> QED
      BY <1>1, <3>1, MakingKeeps
  <2>3. CASE link = "gone" /\ listed # <<>>
    BY <1>1, <2>3, RejectingKeeps DEF Dispose
  <2> QED
    BY <2>1, <2>2, <2>3
<1>3. listed' \in Seq(Patterns) /\ Once(listed')
  <2>1. listed \in Seq(Patterns) /\ Once(listed)
    BY DEF Base, TypeOK
  <2>2. listed' = listed \/ listed' = Skipped(listed)
    BY DEF Dispose
  <2> QED
    BY <2>1, <2>2, Halves
<1>4. asked' \in BOOLEAN /\ declared' \in BOOLEAN
  BY <1>1 DEF Base, TypeOK
<1>5. TypeOK'
  BY <1>1, <1>2, <1>3, <1>4, TypesFrom DEF Base
<1> QED
  BY <1>2, <1>3, <1>5 DEF Base, Once

LEMMA BaseAnswer == ASSUME Base, Answer PROVE Base'
<1>1. /\ careful \in BOOLEAN /\ listed \in Seq(Patterns) /\ asked \in BOOLEAN
      /\ declared \in BOOLEAN /\ Once(listed) /\ ConnectorTypeOK
  BY DEF Base, TypeOK
<1>2. ASSUME NEW p \in Patterns, NEW i \in DOMAIN calls, Served(Bind(p, i)),
             Bound(Bind(p, i)), declared' = TRUE,
             listed' = IF p \in Elements(listed) THEN listed ELSE Append(listed, p),
             UNCHANGED <<careful, asked, link, losses, refused>>
      PROVE  Base'
  <2>1. RequestsOK' /\ Accounts'
    BY <1>2, ServedSettles
  <2>2. UNCHANGED <<tag, consumers, queue>> /\ bound' \subseteq Patterns
    BY <1>1, <1>2 DEF Bound, Bind, ConnectorTypeOK
  <2>3. listed' \in Seq(Patterns) /\ Once(listed')
    <3>1. CASE p \in Elements(listed)
      BY <1>1, <1>2, <3>1
    <3>2. CASE p \notin Elements(listed)
      <4>1. listed' = Append(listed, p) /\ \A a \in DOMAIN listed : listed[a] # p
        BY <1>2, <3>2 DEF Elements
      <4> QED
        BY <1>1, <4>1 DEF Once
    <3> QED
      BY <3>1, <3>2
  <2>4. TypeOK'
    BY <1>1, <1>2, <2>1, <2>2, <2>3 DEF TypeOK, ConnectorTypeOK, RequestsOK
  <2> QED
    BY <2>1, <2>3, <2>4 DEF Base, Once
<1>3. ASSUME NEW r, Served(r),
             (Consumed(r) /\ r.key \in Ids) \/ Unbound(r) \/ Cancelled(r),
             UNCHANGED <<careful, listed, asked, declared, link, losses, refused>>
      PROVE  Base'
  <2>1. RequestsOK' /\ Accounts' /\ r \in Request
    BY <1>3, ServedSettles
  <2>2. UNCHANGED queue /\ tag' \in Ids \cup {NoTag} /\ bound' \subseteq Patterns
        /\ consumers' \subseteq Ids
    BY <1>1, <1>3, <2>1 DEF Consumed, Unbound, Cancelled, ConnectorTypeOK
  <2>3. TypeOK'
    BY <1>1, <1>3, <2>1, <2>2 DEF TypeOK, ConnectorTypeOK, RequestsOK
  <2> QED
    BY <1>1, <1>3, <2>1, <2>3 DEF Base, Once
<1>4. CASE Subscribed
  BY <1>2, <1>4 DEF Subscribed
<1>5. CASE Listening
  <2>1. PICK i \in DOMAIN calls :
          /\ Served(Consume(i, i)) /\ Consumed(Consume(i, i))
          /\ UNCHANGED <<careful, listed, asked, declared, link, losses, refused>>
    BY <1>5 DEF Listening
  <2>2. Consume(i, i) \in Request
    BY <2>1, ServedSettles
  <2>3. Consume(i, i).key \in Ids
    BY <2>2 DEF Consume, Request
  <2> QED
    BY <1>3, <2>1, <2>3
<1>6. CASE Unsubscribed
  <2>1. PICK p \in Patterns, i \in DOMAIN calls :
          /\ Served(Unbind(p, i)) /\ Unbound(Unbind(p, i))
          /\ UNCHANGED <<careful, listed, asked, declared, link, losses, refused>>
    BY <1>6 DEF Unsubscribed
  <2> QED
    BY <1>3, <2>1
<1>7. CASE ConsumerStopped
  <2>1. PICK g \in Ids, i \in DOMAIN calls :
          /\ Served(Cancel(g, i)) /\ Cancelled(Cancel(g, i))
          /\ UNCHANGED <<careful, listed, asked, declared, link, losses, refused>>
    BY <1>7 DEF ConsumerStopped
  <2> QED
    BY <1>3, <2>1
<1>8. CASE QueueMissing
  <2>1. RequestsOK' /\ Accounts'
    BY <1>8, AllRefusedKeeps DEF QueueMissing
  <2> QED
    BY <1>1, <1>8, <2>1 DEF QueueMissing, Base, TypeOK, ConnectorTypeOK, RequestsOK, Once, brokerVars
<1>9. CASE Refused
  <2>1. PICK r \in refused : refused' = refused \ {r} /\ Settled(r.who, FALSE)
                             /\ UNCHANGED <<careful, listed, asked, declared, link, losses, pipe>>
                             /\ UNCHANGED <<tag, bound, consumers, queue>>
    BY <1>9 DEF Refused, brokerVars
  <2>2. RequestsOK' /\ Accounts'
    BY <2>1, RefusedSettles
  <2> QED
    BY <1>1, <2>1, <2>2, TypesFrom DEF Base, Once
<1> QED
  BY <1>4, <1>5, <1>6, <1>7, <1>8, <1>9 DEF Answer

LEMMA BaseLinkStep == ASSUME Base, Recreate \/ LinkStep PROVE Base'
<1>1. /\ listed \in Seq(Patterns) /\ Once(listed) /\ TypeOK /\ ConnectorTypeOK
      /\ UNCHANGED <<careful, calls, listed, declared>> /\ asked' \in BOOLEAN
  BY DEF Base, TypeOK, Recreate, LinkStep
<1>2. CASE Recreate \/ Open
  <2>1. UNCHANGED <<pipe, refused>>
    BY <1>2 DEF Recreate, Open
  <2>2. RequestsOK' /\ Accounts'
    <3>1. InFlight' = InFlight /\ Outstanding' = Outstanding
      BY <2>1 DEF InFlight, Outstanding
    <3>2. Accounts'
      BY <1>1, <2>1, <3>1 DEF Base, Accounts, Once
    <3> QED
      BY <1>1, <2>1, <3>2 DEF RequestsOK, TypeOK, ConnectorTypeOK
  <2>3. TypeOK'
    BY <1>1, <1>2, <2>2 DEF Recreate, Open, TypeOK, ConnectorTypeOK, RequestsOK, brokerVars
  <2> QED
    BY <1>1, <2>2, <2>3 DEF Base, Once
<1>3. CASE Lose \/ OpenFails \/ Disconnect
  <2>1. RequestsOK' /\ Accounts'
    BY <1>1, <1>3, AllRefusedKeeps DEF Lose, OpenFails, Disconnect
  <2>2. losses' \in 0..MaxLoss
    BY <1>1, <1>3, MaxLossAssumption DEF Lose, OpenFails, Disconnect, ConnectorTypeOK
  <2>3. TypeOK'
    BY <1>1, <1>3, <2>1, <2>2
    DEF Lose, OpenFails, Disconnect, QueueDeleted, TypeOK, ConnectorTypeOK, RequestsOK
  <2> QED
    BY <1>1, <2>1, <2>3 DEF Base, Once
<1> QED
  BY <1>2, <1>3 DEF LinkStep

LEMMA BaseNext == Base /\ [Next]_vars => Base'
<1> SUFFICES ASSUME Base, [Next]_vars PROVE Base'
  OBVIOUS
<1>1. CASE Next
  BY <1>1, BaseHandle, BaseStart, BasePause, BaseDispose, BaseAnswer, BaseLinkStep DEF Next
<1>2. CASE UNCHANGED vars
  BY <1>2 DEF vars, brokerVars, Base, TypeOK, ConnectorTypeOK, Once, Accounts, Outstanding, InFlight
<1> QED
  BY <1>1, <1>2

\* The three facts hold of every behaviour: every call counts what it awaits.
THEOREM BaseAlways == Spec => []Base
<1>1. Init => Base
  BY BaseInit
<1>2. Base /\ [Next]_vars => Base'
  BY BaseNext
<1> QED
  BY <1>1, <1>2, PTL DEF Spec

\* Every variable stays within its type, and "left", of which the code takes
\* one away as each promise settles, stays a natural number: no promise settles
\* that Promise.all does not wait for.
THEOREM TypeCorrect == Spec => []TypeOK
<1>1. Base => TypeOK
  BY DEF Base
<1> QED
  BY <1>1, BaseAlways, PTL

-----------------------------------------------------------------------------
\* A new call leaves the earlier ones as they are.
LEMMA CallsKept ==
    ASSUME TypeOK, MayCall, NEW did, NEW left, NEW st, Made(did, left, st)
    PROVE  /\ DOMAIN calls' = DOMAIN calls \cup {Self} /\ Self \notin DOMAIN calls
           /\ \A i \in DOMAIN calls : calls'[i] = calls[i]
           /\ calls'[Self].did = did /\ calls'[Self].st = st
           /\ Len(calls') = Self /\ \A i \in DOMAIN calls : i <= Self
<1> DEFINE c == [did |-> did, left |-> left, st |-> st]
<1>1. /\ Self \in Nat /\ Self = Len(calls) + 1 /\ calls \in Seq(CallRecord)
      /\ Self \notin DOMAIN calls
  BY SelfIsId DEF TypeOK
<1>2. PICK S : calls \in Seq(S) /\ c \in S
  <2>1. calls \in Seq(CallRecord \cup {c})
    BY <1>1
  <2> QED
    BY <2>1
<1>3. calls' = Append(calls, c) /\ c.did = did /\ c.st = st
  BY DEF Made
<1> HIDE DEF c
<1> QED
  BY <1>1, <1>2, <1>3

NoneFailed == refused = {} /\ \A i \in DOMAIN calls : calls[i].st # "failed"
Traced(p) == p \in Elements(listed) \/ \E r \in InFlight : r.op = "unbind" /\ r.key = p

\* A new call does not take back that another has failed.
LEMMA CallForgives ==
    ASSUME TypeOK, MayCall, NEW did, NEW left, NEW st, Made(did, left, st),
           refused \subseteq refused', NoneFailed'
    PROVE  NoneFailed /\ st # "failed"
BY CallsKept DEF NoneFailed

\* A step that binds nothing, and takes nothing from the list and from what is
\* being unbound.
LEMMA StillTraced ==
    ASSUME BoundIsListed, NoneFailed' => NoneFailed, bound' \subseteq bound,
           Elements(listed') = Elements(listed),
           NoneFailed' => \A r \in InFlight : r.op = "unbind" /\ r.key \in bound' => r \in InFlight'
    PROVE  BoundIsListed'
BY DEF BoundIsListed, NoneFailed, Elements

LEMMA ListedHandle == ASSUME Base, BoundIsListed, NEW p \in Patterns, Handle(p)
                      PROVE  BoundIsListed'
<1>1. MayCall /\ TypeOK /\ UNCHANGED <<listed, bound>>
  BY DEF Handle, brokerVars, Base
<1>2. CASE link = "gone"
  BY <1>1, <1>2, CallForgives DEF Handle, Rejecting, BoundIsListed, NoneFailed
<1>3. CASE link # "gone"
  <2>1. Making("handle", <<Bind(p, Self)>>)
    BY <1>3 DEF Handle
  <2>2. Bind(p, Self) \in Request /\ Bind(p, Self).who = Self
    BY <1>1, SelfIsId DEF Bind, Request
  <2>3. InFlight \subseteq InFlight' /\ refused \subseteq refused'
    BY <1>1, <2>1, <2>2, OneRequest, MakingKeeps
  <2>4. NoneFailed' => NoneFailed
    BY <1>1, <2>1, <2>3, CallForgives DEF Making
  <2> QED
    BY <1>1, <2>3, <2>4, StillTraced
<1> QED
  BY <1>2, <1>3

LEMMA ListedStart == ASSUME Base, BoundIsListed, Start PROVE BoundIsListed'
<1>1. MayCall /\ TypeOK /\ UNCHANGED <<listed, bound>>
  BY DEF Start, brokerVars, Base
<1>2. CASE ~asked
  BY <1>1, <1>2, CallForgives DEF Start, Rejecting, BoundIsListed, NoneFailed
<1>3. CASE asked
  <2>1. Making("start", <<Consume(Self, Self)>>)
    BY <1>3 DEF Start
  <2>2. Consume(Self, Self) \in Request /\ Consume(Self, Self).who = Self
    BY <1>1, SelfIsId DEF Consume, Request
  <2>3. InFlight \subseteq InFlight' /\ refused \subseteq refused'
    BY <1>1, <2>1, <2>2, OneRequest, MakingKeeps
  <2>4. NoneFailed' => NoneFailed
    BY <1>1, <2>1, <2>3, CallForgives DEF Making
  <2> QED
    BY <1>1, <2>3, <2>4, StillTraced
<1> QED
  BY <1>2, <1>3

LEMMA ListedPause == ASSUME Base, BoundIsListed, Pause PROVE BoundIsListed'
<1>1. MayCall /\ TypeOK /\ UNCHANGED <<listed, bound>> /\ Making("pause", StopRequests)
  BY DEF Pause, brokerVars, Base
<1>2. InFlight \subseteq InFlight' /\ refused \subseteq refused'
  BY <1>1, StopRequestsOurs, MakingKeeps
<1>3. NoneFailed' => NoneFailed
  BY <1>1, <1>2, CallForgives DEF Making
<1> QED
  BY <1>1, <1>2, <1>3, StillTraced

\* What dispose takes out of the list it asks to be unbound, unless a request
\* is refused.
LEMMA ListedDispose == ASSUME Base, BoundIsListed, Dispose PROVE BoundIsListed'
<1>1. MayCall /\ TypeOK /\ UNCHANGED bound /\ listed \in Seq(Patterns) /\ Once(listed)
  BY DEF Dispose, brokerVars, Base, TypeOK
<1>2. CASE link = "gone"
  <2>1. listed' = listed /\ ~Usable
    BY <1>2 DEF Dispose, Usable
  <2>2. CASE listed = <<>>
    <3>1. Making("dispose", <<>>) /\ Ours(<<>>) /\ Elements(<<>>) = {}
      BY <1>2, <2>2 DEF Dispose, Ours, Once, Elements
    <3>2. InFlight' = InFlight /\ refused' = refused
      BY <1>1, <2>1, <3>1 DEF Making, InFlight
    <3>3. NoneFailed' => NoneFailed
      BY <1>1, <3>1, <3>2, CallForgives DEF Making
    <3> QED
      BY <1>1, <2>1, <3>2, <3>3, StillTraced
  <2>3. CASE listed # <<>>
    BY <1>1, <1>2, <2>3, CallForgives DEF Dispose, Rejecting, BoundIsListed, NoneFailed
  <2> QED
    BY <2>2, <2>3
<1>3. CASE link # "gone"
  <2>1. Making("dispose", Disposing) /\ listed' = Skipped(listed)
    BY <1>3 DEF Dispose, Disposing
  <2>2. /\ Ours(Disposing)
        /\ Elements(Disposing) = Elements(StopRequests)
                                 \cup {Unbind(q, Self) : q \in Elements(Reached(listed))}
        /\ Disposing = <<>> => listed = <<>>
    BY <1>1, DisposingOurs
  <2>3. /\ InFlight' = (IF Usable THEN InFlight \cup Elements(Disposing) ELSE InFlight)
        /\ refused' = (IF Usable THEN refused ELSE refused \cup Elements(Disposing))
    BY <1>1, <2>1, <2>2, MakingKeeps
  <2>4. Elements(listed) = Elements(Reached(listed)) \cup Elements(listed')
    BY <1>1, <2>1, Halves
  <2>5. NoneFailed' => NoneFailed
    BY <1>1, <2>1, <2>3, CallForgives DEF Making
  <2>6. ASSUME NoneFailed', NEW q \in Elements(listed) PROVE Traced(q)'
    <3>1. CASE Usable
      <4>1. ASSUME q \in Elements(Reached(listed)) PROVE Traced(q)'
        <5>1. Unbind(q, Self) \in InFlight'
          BY <2>2, <2>3, <3>1, <4>1
        <5> QED
          BY <5>1 DEF Traced, Unbind
      <4> QED
        BY <2>4, <2>6, <4>1 DEF Traced
    <3>2. CASE ~Usable
      <4>1. Elements(Disposing) = {}
        BY <2>3, <2>6, <3>2 DEF NoneFailed
      <4>2. Disposing \in Seq(Request)
        BY <2>2 DEF Ours
      <4>3. Disposing = <<>>
        <5> HIDE DEF Disposing
        <5>1. DOMAIN Disposing = 1..Len(Disposing) /\ Len(Disposing) \in Nat
          BY <4>2
        <5>2. 1 \notin DOMAIN Disposing
          BY <4>1 DEF Elements
        <5> QED
          BY <4>2, <5>1, <5>2
      <4> QED
        BY <2>2, <2>6, <4>3 DEF Elements
    <3> QED
      BY <3>1, <3>2
  <2>7. \A q \in bound : NoneFailed => Traced(q)
    BY DEF BoundIsListed, NoneFailed, Traced
  <2>8. InFlight \subseteq InFlight'
    BY <2>3
  <2>9. \A q \in bound' : NoneFailed' => Traced(q)'
    BY <1>1, <2>5, <2>6, <2>7, <2>8 DEF Traced
  <2> QED
    BY <2>9 DEF BoundIsListed, NoneFailed, Traced
<1> QED
  BY <1>2, <1>3

LEMMA ListedAnswer == ASSUME Base, BoundIsListed, Answer PROVE BoundIsListed'
<1>1. ASSUME NEW r, Served(r), UNCHANGED refused
      PROVE  (NoneFailed' => NoneFailed) /\ InFlight' = InFlight \ {r}
  <2>1. DOMAIN calls' = DOMAIN calls
    BY <1>1 DEF Served, Settled
  <2> QED
    BY <1>1, <2>1, ServedSettles DEF NoneFailed
<1>2. CASE Subscribed
  <2>1. PICK p \in Patterns, i \in DOMAIN calls :
          /\ Served(Bind(p, i)) /\ Bound(Bind(p, i)) /\ UNCHANGED refused
          /\ listed' = IF p \in Elements(listed) THEN listed ELSE Append(listed, p)
    BY <1>2 DEF Subscribed
  <2>2. bound' = bound \cup {p} /\ Bind(p, i).op = "bind"
    BY <2>1 DEF Bound, Bind
  <2>3. Elements(listed') = Elements(listed) \cup {p}
    <3>1. listed \in Seq(Patterns)
      BY DEF Base, TypeOK
    <3>2. CASE p \in Elements(listed)
      BY <2>1, <3>2
    <3>3. CASE p \notin Elements(listed)
      <4>1. listed' = Append(listed, p)
        BY <2>1, <3>3
      <4>2. /\ DOMAIN listed' = DOMAIN listed \cup {Len(listed) + 1}
            /\ listed'[Len(listed) + 1] = p
            /\ \A a \in DOMAIN listed : listed'[a] = listed[a]
        BY <3>1, <4>1
      <4> QED
        BY <4>2 DEF Elements
    <3> QED
      BY <3>2, <3>3
  <2>4. (NoneFailed' => NoneFailed) /\ InFlight' = InFlight \ {Bind(p, i)}
    BY <1>1, <2>1
  <2>5. ASSUME NoneFailed', NEW q \in bound' PROVE Traced(q)'
    <3>1. CASE q = p
      BY <2>3, <3>1 DEF Traced
    <3>2. CASE q \in bound
      <4>1. q \in Elements(listed) \/ \E r \in InFlight : r.op = "unbind" /\ r.key = q
        BY <2>4, <2>5, <3>2 DEF BoundIsListed, NoneFailed
      <4> QED
        BY <2>2, <2>3, <2>4, <4>1 DEF Traced
    <3> QED
      BY <2>2, <3>1, <3>2
  <2> QED
    BY <2>5 DEF BoundIsListed, NoneFailed, Traced
<1>3. CASE Listening
  <2>1. PICK i \in DOMAIN calls :
          /\ Served(Consume(i, i)) /\ Consumed(Consume(i, i)) /\ UNCHANGED <<refused, listed>>
    BY <1>3 DEF Listening
  <2>2. bound' = bound /\ Consume(i, i).op = "consume"
    BY <2>1 DEF Consumed, Consume
  <2> QED
    BY <1>1, <2>1, <2>2, StillTraced
<1>4. CASE Unsubscribed
  <2>1. PICK p \in Patterns, i \in DOMAIN calls :
          /\ Served(Unbind(p, i)) /\ Unbound(Unbind(p, i)) /\ UNCHANGED <<refused, listed>>
    BY <1>4 DEF Unsubscribed
  <2>2. bound' = bound \ {p} /\ Unbind(p, i).key = p
    BY <2>1 DEF Unbound, Unbind
  <2> QED
    BY <1>1, <2>1, <2>2, StillTraced
<1>5. CASE ConsumerStopped
  <2>1. PICK g \in Ids, i \in DOMAIN calls :
          /\ Served(Cancel(g, i)) /\ Cancelled(Cancel(g, i)) /\ UNCHANGED <<refused, listed>>
    BY <1>5 DEF ConsumerStopped
  <2>2. bound' = bound /\ Cancel(g, i).op = "cancel"
    BY <2>1 DEF Cancelled, Cancel
  <2> QED
    BY <1>1, <2>1, <2>2, StillTraced
<1>6. CASE QueueMissing
  <2>1. refused' = refused \cup InFlight /\ UNCHANGED <<calls, listed, bound>>
    BY <1>6 DEF QueueMissing, AllRefused, brokerVars
  <2>2. NoneFailed' => NoneFailed /\ InFlight = {}
    BY <2>1 DEF NoneFailed
  <2> QED
    BY <2>1, <2>2, StillTraced
<1>7. CASE Refused
  <2>1. PICK r \in refused : refused' = refused \ {r} /\ Settled(r.who, FALSE) /\ UNCHANGED pipe
    BY <1>7 DEF Refused
  <2>2. r.who \in DOMAIN calls' /\ calls'[r.who].st = "failed"
    <3>1. DOMAIN calls' = DOMAIN calls
      BY <2>1 DEF Settled
    <3> QED
      BY <2>1, <3>1, RefusedSettles
  <2> QED
    BY <2>2 DEF BoundIsListed
<1> QED
  BY <1>2, <1>3, <1>4, <1>5, <1>6, <1>7 DEF Answer

LEMMA ListedLinkStep == ASSUME Base, BoundIsListed, Recreate \/ LinkStep PROVE BoundIsListed'
<1>1. UNCHANGED <<calls, listed, bound>>
  BY DEF Recreate, LinkStep, Open, Lose, OpenFails, Disconnect, QueueDeleted, brokerVars
<1>2. \/ UNCHANGED <<pipe, refused>>
      \/ refused' = refused \cup InFlight
  BY DEF Recreate, LinkStep, Open, Lose, OpenFails, Disconnect, AllRefused
<1>3. NoneFailed' => NoneFailed /\ (InFlight = {} \/ InFlight' = InFlight)
  BY <1>1, <1>2 DEF NoneFailed, InFlight
<1> QED
  BY <1>1, <1>3, StillTraced

\* Until something is refused, a pattern that is bound can be unbound: handle
\* lists it as it is bound, and dispose takes it out of the list only to ask for
\* its unbinding, however the calls overlap.
THEOREM BoundListed == Spec => []BoundIsListed
<1>1. Init => BoundIsListed
  BY DEF Init, ConnectorInit, BoundIsListed
<1>2. Base /\ BoundIsListed /\ [Next]_vars => BoundIsListed'
  <2> SUFFICES ASSUME Base, BoundIsListed, [Next]_vars PROVE BoundIsListed'
    OBVIOUS
  <2>1. CASE Next
    BY <2>1, ListedHandle, ListedStart, ListedPause, ListedDispose, ListedAnswer, ListedLinkStep
    DEF Next
  <2>2. CASE UNCHANGED vars
    BY <2>2 DEF vars, brokerVars, BoundIsListed, InFlight, Elements
  <2> QED
    BY <2>1, <2>2
<1> QED
  BY <1>1, <1>2, BaseAlways, PTL DEF Spec

-----------------------------------------------------------------------------
\* A dead channel serves no consumer, and only a queue that exists has one.
Life == (link # "up" => consumers = {}) /\ (consumers # {} => declared)

Newest(l) == l \in Lifecycle /\ \A j \in Lifecycle : j <= l

\* While its user awaits every call, a handler has at most one consumer, that
\* of its tag, and it is there because the last thing asked for is a start, or
\* because its cancelling is under way.
Tended ==
    /\ \A i \in DOMAIN calls : calls[i].st = "pending" => i = Len(calls)
    /\ \A r \in InFlight :
         /\ r.op = "consume" => /\ consumers = {} /\ r.key = r.who
                                /\ calls[r.who].did = "start"
         /\ r.op = "cancel" => /\ consumers \subseteq {r.key}
                               /\ calls[r.who].did \in {"pause", "dispose"}
    /\ consumers \subseteq {tag}
    /\ consumers # {} =>
         \E l \in Lifecycle : /\ Newest(l)
                              /\ calls[l].did = "start" \/ Cancel(tag, l) \in InFlight

Deaf == Life /\ (careful => Tended)

LEMMA NewestIsLast ==
    ASSUME TypeOK, NEW l, Newest(l)
    PROVE  LastOf(Lifecycle) = l
<1>1. Lifecycle \subseteq Nat
  BY DEF TypeOK, Lifecycle
<1>2. \A k \in Lifecycle : (\A j \in Lifecycle : j <= k) => k = l
  BY <1>1 DEF Newest
<1>3. LastOf(Lifecycle) \in Lifecycle /\ \A j \in Lifecycle : j <= LastOf(Lifecycle)
  BY DEF LastOf, Newest
<1> QED
  BY <1>2, <1>3

\* Whoever has awaited every call has nothing in flight.
LEMMA NothingInFlight ==
    ASSUME Base, careful, MayCall
    PROVE  InFlight = {} /\ \A i \in DOMAIN calls : calls[i].st # "pending"
BY DEF Base, Accounts, Outstanding, MayCall

\* A careful user makes a call that asks for rs.
LEMMA CarefulCall ==
    ASSUME Base, careful, MayCall, NEW did \in {"handle", "start", "pause", "dispose"},
           NEW E, (\E left, st : Made(did, left, st)),
           InFlight' \subseteq E
    PROVE  /\ \A i \in DOMAIN calls' : calls'[i].st = "pending" => i = Len(calls')
           /\ calls'[Self].did = did
           /\ \A l : Newest(l) /\ did = "handle" => Newest(l)' /\ calls'[l].did = calls[l].did
           /\ did # "handle" => \A l : l = Self => Newest(l)'
<1>1. /\ DOMAIN calls' = DOMAIN calls \cup {Self} /\ Self \notin DOMAIN calls
      /\ \A i \in DOMAIN calls : calls'[i] = calls[i]
      /\ calls'[Self].did = did
      /\ Len(calls') = Self /\ \A i \in DOMAIN calls : i <= Self
  BY CallsKept DEF Base
<1>2. \A i \in DOMAIN calls : calls[i].st # "pending"
  BY NothingInFlight
<1>3. Lifecycle' = IF did = "handle" THEN Lifecycle ELSE Lifecycle \cup {Self}
  BY <1>1 DEF Lifecycle
<1>4. \A l : Newest(l) /\ did = "handle" => Newest(l)' /\ calls'[l].did = calls[l].did
  BY <1>1, <1>3 DEF Newest, Lifecycle
<1>5. Self <= Self
  BY SelfIsId DEF Base
<1>6. ASSUME did # "handle", NEW me, me = Self PROVE Newest(me)'
  <2>1. Lifecycle' = Lifecycle \cup {Self} /\ Lifecycle \subseteq DOMAIN calls
    BY <1>3, <1>6 DEF Lifecycle
  <2>2. me \in Lifecycle' /\ \A j \in Lifecycle' : j <= me
    BY <1>1, <1>5, <1>6, <2>1
  <2> QED
    BY <2>2 DEF Newest
<1> QED
  BY <1>1, <1>2, <1>4, <1>6

LEMMA DeafHandle == ASSUME Base, Deaf, NEW p \in Patterns, Handle(p) PROVE Deaf'
<1>1. MayCall /\ UNCHANGED <<careful, declared, link, tag, consumers>>
      /\ "handle" \in {"handle", "start", "pause", "dispose"}
  BY DEF Handle, brokerVars
<1>2. Life'
  BY <1>1 DEF Deaf, Life
<1>3. ASSUME careful PROVE Tended'
  <2>1. (\E left, st : Made("handle", left, st)) /\ InFlight' \subseteq {Bind(p, Self)}
    <3>1. CASE link = "gone"
      BY <1>1, <1>3, <3>1, RejectingKeeps, NothingInFlight DEF Handle, Rejecting
    <3>2. CASE link # "gone"
      <4>1. Making("handle", <<Bind(p, Self)>>)
        BY <3>2 DEF Handle
      <4>2. Bind(p, Self) \in Request /\ Bind(p, Self).who = Self
        BY <1>1, SelfIsId DEF Bind, Request, Base
      <4>3. InFlight' \subseteq {Bind(p, Self)}
        BY <1>1, <1>3, <4>1, <4>2, OneRequest, MakingKeeps, NothingInFlight
      <4> QED
        BY <4>1, <4>3 DEF Making
    <3> QED
      BY <3>1, <3>2
  <2>2. /\ \A i \in DOMAIN calls' : calls'[i].st = "pending" => i = Len(calls')
        /\ \A l : Newest(l) => Newest(l)' /\ calls'[l].did = calls[l].did
    BY <1>1, <1>3, <2>1, CarefulCall
  <2>3. \A r \in InFlight' : r.op # "consume" /\ r.op # "cancel"
    BY <2>1 DEF Bind
  <2>4. ASSUME consumers' # {}
        PROVE  \E l \in Lifecycle' : Newest(l)' /\ calls'[l].did = "start"
    <3>1. PICK l \in Lifecycle : Newest(l) /\ calls[l].did = "start"
      BY <1>1, <1>3, <2>4, NothingInFlight DEF Deaf, Tended
    <3>2. Newest(l)' /\ calls'[l].did = "start"
      BY <2>2, <3>1
    <3> QED
      BY <3>2 DEF Newest
  <2> QED
    BY <1>1, <1>3, <2>2, <2>3, <2>4 DEF Tended, Deaf
<1> QED
  BY <1>1, <1>2, <1>3 DEF Deaf

LEMMA DeafStart == ASSUME Base, Deaf, Start PROVE Deaf'
<1>1. MayCall /\ UNCHANGED <<careful, declared, link, tag, consumers>>
      /\ "start" \in {"handle", "start", "pause", "dispose"}
  BY DEF Start, brokerVars
<1>2. Life'
  BY <1>1 DEF Deaf, Life
<1>3. ASSUME careful PROVE Tended'
  <2>1. (\E left, st : Made("start", left, st)) /\ InFlight' \subseteq {Consume(Self, Self)}
    <3>1. CASE ~asked
      BY <1>1, <1>3, <3>1, RejectingKeeps, NothingInFlight DEF Start, Rejecting
    <3>2. CASE asked
      <4>1. Making("start", <<Consume(Self, Self)>>)
        BY <3>2 DEF Start
      <4>2. Consume(Self, Self) \in Request /\ Consume(Self, Self).who = Self
        BY <1>1, SelfIsId DEF Consume, Request, Base
      <4>3. InFlight' \subseteq {Consume(Self, Self)}
        BY <1>1, <1>3, <4>1, <4>2, OneRequest, MakingKeeps, NothingInFlight
      <4> QED
        BY <4>1, <4>3 DEF Making
    <3> QED
      BY <3>1, <3>2
  <2>2. /\ \A i \in DOMAIN calls' : calls'[i].st = "pending" => i = Len(calls')
        /\ calls'[Self].did = "start"
    BY <1>1, <1>3, <2>1, CarefulCall
  <2>3. consumers = {}
    <3> SUFFICES ASSUME consumers # {} PROVE FALSE
      OBVIOUS
    <3>1. PICK l \in Lifecycle : Newest(l) /\ calls[l].did = "start"
      BY <1>1, <1>3, NothingInFlight DEF Deaf, Tended
    <3>2. LastOf(Lifecycle) = l
      BY <3>1, NewestIsLast DEF Base
    <3>3. Started
      BY <3>1, <3>2 DEF Started
    <3> QED
      BY <1>3, <3>3 DEF Start
  <2>4. \A r \in InFlight' : r.op = "consume" /\ r.key = Self /\ r.who = Self
    BY <2>1 DEF Consume
  <2>5. consumers' = {}
    BY <1>1, <2>3
  <2> QED
    BY <2>2, <2>4, <2>5 DEF Tended
<1> QED
  BY <1>1, <1>2, <1>3 DEF Deaf

\* pause and dispose ask for the cancelling of the consumer there is.
LEMMA DeafStopping ==
    ASSUME Base, Deaf, careful, MayCall, NEW did \in {"pause", "dispose"},
           (\E left, st : Made(did, left, st)),
           \A r \in InFlight' : r.op = "cancel" => r = Cancel(tag, Self),
           \A r \in InFlight' : r.op # "consume",
           consumers # {} => Cancel(tag, Self) \in InFlight',
           UNCHANGED <<tag, consumers>>
    PROVE  Tended'
<1>1. /\ \A i \in DOMAIN calls' : calls'[i].st = "pending" => i = Len(calls')
      /\ calls'[Self].did = did /\ \A l : l = Self => Newest(l)'
  BY CarefulCall
<1>2. consumers \subseteq {tag}
  BY DEF Deaf, Tended
<1>3. ASSUME NEW r \in InFlight', r.op = "cancel"
      PROVE  r.key = tag /\ r.who = Self
  BY <1>3 DEF Cancel
<1>4. ASSUME consumers' # {}
      PROVE  \E l \in Lifecycle' : Newest(l)' /\ Cancel(tag', l) \in InFlight'
  <2>1. PICK l : l = Self
    OBVIOUS
  <2>2. Newest(l)' /\ Cancel(tag', l) \in InFlight'
    BY <1>1, <1>4, <2>1
  <2> QED
    BY <2>2 DEF Newest
<1> QED
  BY <1>1, <1>2, <1>3, <1>4 DEF Tended

\* A consumer means a channel that can be asked to cancel it.
LEMMA ConsumerHasTag ==
    ASSUME Base, Deaf, careful, consumers # {}
    PROVE  isListening /\ Usable
<1>1. tag \in consumers /\ consumers \subseteq Ids /\ link = "up"
  BY DEF Base, TypeOK, ConnectorTypeOK, Deaf, Tended, Life
<1> QED
  BY <1>1, MaxCallsAssumption DEF isListening, Usable, Ids, NoTag

LEMMA DeafPause == ASSUME Base, Deaf, Pause PROVE Deaf'
<1>1. MayCall /\ UNCHANGED <<careful, declared, link, tag, consumers>>
      /\ Making("pause", StopRequests) /\ TypeOK
  BY DEF Pause, brokerVars, Base
<1>2. Life'
  BY <1>1 DEF Deaf, Life
<1>3. ASSUME careful PROVE Tended'
  <2>1. InFlight' = (IF Usable THEN Elements(StopRequests) ELSE {})
    BY <1>1, <1>3, StopRequestsOurs, MakingKeeps, NothingInFlight
  <2>2. \A r \in InFlight' : r = Cancel(tag, Self)
    BY <1>1, <2>1, StopRequestsOurs DEF Elements
  <2>3. consumers # {} => Cancel(tag, Self) \in InFlight'
    BY <1>1, <1>3, <2>1, StopRequestsOurs, ConsumerHasTag
  <2>4. \A r \in InFlight' : r.op # "consume"
    BY <2>2 DEF Cancel
  <2>5. \E left, st : Made("pause", left, st)
    BY <1>1 DEF Making
  <2> QED
    BY <1>1, <1>3, <2>2, <2>3, <2>4, <2>5, DeafStopping
<1> QED
  BY <1>1, <1>2, <1>3 DEF Deaf

LEMMA DeafDispose == ASSUME Base, Deaf, Dispose PROVE Deaf'
<1>1. MayCall /\ UNCHANGED <<careful, declared, link, tag, consumers>> /\ TypeOK /\ Once(listed)
  BY DEF Dispose, brokerVars, Base
<1>2. Life'
  BY <1>1 DEF Deaf, Life
<1>3. ASSUME careful PROVE Tended'
  <2>1. CASE link = "gone"
    <3>1. consumers = {}
      BY <2>1 DEF Deaf, Life
    <3>2. InFlight' = {} /\ \E left, st : Made("dispose", left, st)
      <4>1. CASE listed = <<>>
        <5>1. Making("dispose", <<>>) /\ Ours(<<>>) /\ ~Usable
          BY <2>1, <4>1 DEF Dispose, Ours, Once, Usable
        <5> QED
          BY <1>1, <1>3, <5>1, MakingKeeps, NothingInFlight DEF Making
      <4>2. CASE listed # <<>>
        <5>1. Rejecting("dispose")
          BY <2>1, <4>2 DEF Dispose
        <5> QED
          BY <1>1, <1>3, <5>1, RejectingKeeps, NothingInFlight DEF Rejecting
      <4> QED
        BY <4>1, <4>2
    <3> QED
      BY <1>1, <1>3, <3>1, <3>2, DeafStopping
  <2>2. CASE link # "gone"
    <3>1. Making("dispose", Disposing)
      BY <2>2 DEF Dispose, Disposing
    <3>2. /\ Ours(Disposing)
          /\ Elements(Disposing) = Elements(StopRequests)
                                   \cup {Unbind(q, Self) : q \in Elements(Reached(listed))}
      BY <1>1, DisposingOurs
    <3>3. InFlight' = (IF Usable THEN Elements(Disposing) ELSE {})
      BY <1>1, <1>3, <3>1, <3>2, MakingKeeps, NothingInFlight
    <3>4. \A r \in InFlight' : r = Cancel(tag, Self) \/ r.op = "unbind"
      BY <1>1, <3>2, <3>3, StopRequestsOurs DEF Elements, Unbind
    <3>5. consumers # {} => Cancel(tag, Self) \in InFlight'
      BY <1>1, <1>3, <3>2, <3>3, StopRequestsOurs, ConsumerHasTag
    <3>6. \A r \in InFlight' : r.op # "consume" /\ (r.op = "cancel" => r = Cancel(tag, Self))
      BY <3>4 DEF Cancel
    <3>7. \E left, st : Made("dispose", left, st)
      BY <3>1 DEF Making
    <3> QED
      BY <1>1, <1>3, <3>5, <3>6, <3>7, DeafStopping
  <2> QED
    BY <2>1, <2>2
<1> QED
  BY <1>1, <1>2, <1>3 DEF Deaf

\* A promise settles, and the consumer stays as it was.
LEMMA DeafSettled ==
    ASSUME TypeOK, Tended, calls' \in Seq(CallRecord), Len(calls') = Len(calls),
           \A i \in DOMAIN calls : calls'[i].did = calls[i].did,
           \A i \in DOMAIN calls : calls'[i].st = "pending" => calls[i].st = "pending",
           \A r \in InFlight : r.who \in DOMAIN calls,
           InFlight' \subseteq InFlight,
           \A r \in InFlight \ InFlight' : r.op # "cancel",
           UNCHANGED <<tag, consumers>>
    PROVE  Tended'
<1>1. DOMAIN calls' = DOMAIN calls /\ Lifecycle' = Lifecycle
  BY DEF TypeOK, Lifecycle
<1>2. ASSUME consumers # {}
      PROVE  \E l \in Lifecycle' : /\ Newest(l)'
                                   /\ calls'[l].did = "start" \/ Cancel(tag, l) \in InFlight'
  <2>1. PICK l \in Lifecycle : /\ Newest(l)
                               /\ calls[l].did = "start" \/ Cancel(tag, l) \in InFlight
    BY <1>2 DEF Tended
  <2>2. Newest(l)' /\ l \in DOMAIN calls
    BY <1>1, <2>1 DEF Newest, Lifecycle
  <2>3. Cancel(tag, l).op = "cancel"
    BY DEF Cancel
  <2> QED
    BY <1>1, <2>1, <2>2, <2>3
<1> QED
  BY <1>1, <1>2 DEF Tended

LEMMA DeafAnswer == ASSUME Base, Deaf, Answer PROVE Deaf'
<1>1. \A r \in InFlight : r \in Request /\ r.who \in DOMAIN calls /\ calls[r.who].st = "pending"
  BY DEF Base, TypeOK, ConnectorTypeOK, Accounts, Outstanding, InFlight
<1>2. ASSUME NEW r, Served(r), UNCHANGED refused
      PROVE  /\ calls' \in Seq(CallRecord) /\ Len(calls') = Len(calls)
             /\ \A i \in DOMAIN calls : calls'[i].did = calls[i].did
             /\ \A i \in DOMAIN calls : calls'[i].st = "pending" => calls[i].st = "pending"
             /\ r \in InFlight /\ InFlight' = InFlight \ {r}
             /\ DOMAIN calls' = DOMAIN calls
  <2>1. DOMAIN calls' = DOMAIN calls
    BY <1>2 DEF Served, Settled
  <2> QED
    BY <1>2, <2>1, ServedSettles DEF RequestsOK
<1>3. ASSUME NEW r, Served(r), r.op \in {"bind", "unbind"}, declared => declared',
             UNCHANGED <<careful, link, refused, tag, consumers>>
      PROVE  Deaf'
  <2>1. careful => Tended'
    BY <1>1, <1>2, <1>3, DeafSettled DEF Base, Deaf
  <2> QED
    BY <1>3, <2>1 DEF Deaf, Life
<1>4. CASE Subscribed
  <2>1. PICK p \in Patterns, i \in DOMAIN calls :
          /\ Served(Bind(p, i)) /\ Bound(Bind(p, i)) /\ declared' = TRUE
          /\ UNCHANGED <<careful, link, refused>>
    BY <1>4 DEF Subscribed
  <2> QED
    BY <1>3, <2>1 DEF Bound, Bind
<1>5. CASE Unsubscribed
  <2>1. PICK p \in Patterns, i \in DOMAIN calls :
          /\ Served(Unbind(p, i)) /\ Unbound(Unbind(p, i))
          /\ UNCHANGED <<careful, link, refused, declared>>
    BY <1>5 DEF Unsubscribed
  <2> QED
    BY <1>3, <2>1 DEF Unbound, Unbind
<1>6. CASE Listening
  <2>1. PICK i \in DOMAIN calls :
          /\ Served(Consume(i, i)) /\ Consumed(Consume(i, i)) /\ declared /\ link = "up"
          /\ UNCHANGED <<careful, declared, link, refused>>
    BY <1>6 DEF Listening, Served, Reply
  <2>2. Consume(i, i).op = "consume" /\ Consume(i, i).key = i /\ Consume(i, i).who = i
    BY DEF Consume
  <2>3. consumers' = consumers \cup {i} /\ tag' = i
    BY <2>1, <2>2 DEF Consumed
  <2>4. Life'
    BY <2>1 DEF Life
  <2>5. ASSUME careful PROVE Tended'
    <3>1. Tended
      BY <2>5 DEF Deaf
    <3>2. Consume(i, i) \in InFlight /\ InFlight' = InFlight \ {Consume(i, i)}
      BY <1>2, <2>1
    <3>3. consumers' = {i} /\ calls[i].did = "start" /\ i = Len(calls)
      BY <1>1, <2>2, <2>3, <3>1, <3>2 DEF Tended
    <3>4. ASSUME NEW r \in InFlight' PROVE r.op # "consume" /\ r.op # "cancel"
      <4>1. r \in InFlight /\ r # Consume(i, i) /\ r.who = Len(calls)
        BY <1>1, <3>1, <3>2 DEF Tended
      <4>2. ASSUME r.op = "consume" PROVE FALSE
        <5>1. r.key = i /\ r.who = i
          BY <3>1, <3>3, <4>1, <4>2 DEF Tended
        <5>2. r = [op |-> r.op, key |-> r.key, who |-> r.who]
          BY <1>1, <4>1 DEF Request
        <5> QED
          BY <4>1, <4>2, <5>1, <5>2 DEF Consume
      <4>3. r.op # "cancel"
        BY <3>1, <3>3, <4>1 DEF Tended
      <4> QED
        BY <4>2, <4>3
    <3>5. \A j \in DOMAIN calls' : calls'[j].st = "pending" => j = Len(calls')
      BY <1>2, <2>1, <3>1 DEF Tended
    <3>6. Newest(i)' /\ calls'[i].did = "start"
      <4>1. calls'[i].did = "start" /\ i \in DOMAIN calls'
        BY <1>2, <2>1, <3>3
      <4>2. i \in Lifecycle'
        BY <4>1 DEF Lifecycle
      <4>3. \A j \in DOMAIN calls' : j <= i
        BY <1>2, <2>1, <3>3
      <4> QED
        BY <4>1, <4>2, <4>3 DEF Newest, Lifecycle
    <3>7. \E l \in Lifecycle' : Newest(l)' /\ calls'[l].did = "start"
      BY <3>6 DEF Newest
    <3> QED
      BY <2>3, <3>3, <3>4, <3>5, <3>7 DEF Tended
  <2> QED
    BY <2>1, <2>4, <2>5 DEF Deaf
<1>7. CASE ConsumerStopped
  <2>1. PICK g \in Ids, i \in DOMAIN calls :
          /\ Served(Cancel(g, i)) /\ Cancelled(Cancel(g, i))
          /\ UNCHANGED <<careful, declared, link, refused>>
    BY <1>7 DEF ConsumerStopped
  <2>2. Cancel(g, i).op = "cancel" /\ Cancel(g, i).key = g /\ consumers' = consumers \ {g}
    BY <2>1 DEF Cancelled, Cancel
  <2>3. Life'
    BY <2>1, <2>2 DEF Deaf, Life
  <2>4. ASSUME careful PROVE Tended'
    <3>1. Tended
      BY <2>4 DEF Deaf
    <3>2. Cancel(g, i) \in InFlight /\ InFlight' \subseteq InFlight
      BY <1>2, <2>1
    <3>3. consumers' = {}
      BY <2>2, <3>1, <3>2 DEF Tended
    <3>4. \A j \in DOMAIN calls' : calls'[j].st = "pending" => j = Len(calls')
      BY <1>2, <2>1, <3>1 DEF Tended
    <3>5. ASSUME NEW r \in InFlight'
          PROVE  /\ r.op = "consume" => r.key = r.who /\ calls'[r.who].did = "start"
                 /\ r.op = "cancel" => calls'[r.who].did \in {"pause", "dispose"}
      BY <1>1, <1>2, <2>1, <3>1, <3>2 DEF Tended
    <3> QED
      BY <3>3, <3>4, <3>5 DEF Tended
  <2> QED
    BY <2>1, <2>3, <2>4 DEF Deaf
<1>8. CASE QueueMissing
  <2>1. InFlight' = {} /\ UNCHANGED <<careful, calls, declared, tag, consumers>> /\ ~declared
    BY <1>8 DEF QueueMissing, AllRefused, InFlight, brokerVars
  <2>2. consumers' = {}
    BY <2>1 DEF Deaf, Life
  <2> QED
    BY <2>1, <2>2 DEF Deaf, Life, Tended
<1>9. CASE Refused
  <2>1. PICK r \in refused : /\ refused' = refused \ {r} /\ Settled(r.who, FALSE)
                             /\ UNCHANGED <<careful, declared, link, pipe, tag, consumers>>
    BY <1>9 DEF Refused, brokerVars
  <2>2. /\ RequestsOK' /\ Len(calls') = Len(calls) /\ InFlight' = InFlight
        /\ calls'[r.who].st # "pending"
        /\ \A i \in DOMAIN calls : calls'[i].did = calls[i].did
        /\ \A i \in DOMAIN calls \ {r.who} : calls'[i] = calls[i]
    BY <2>1, RefusedSettles
  <2>3. \A i \in DOMAIN calls : calls'[i].st = "pending" => calls[i].st = "pending"
    BY <2>2
  <2>4. careful => Tended'
    BY <1>1, <2>1, <2>2, <2>3, DeafSettled DEF Base, Deaf, RequestsOK
  <2> QED
    BY <2>1, <2>4 DEF Deaf, Life
<1> QED
  BY <1>4, <1>5, <1>6, <1>7, <1>8, <1>9 DEF Answer

LEMMA DeafLinkStep == ASSUME Base, Deaf, Recreate \/ LinkStep PROVE Deaf'
<1>1. UNCHANGED <<careful, calls, declared>>
  BY DEF Recreate, LinkStep
<1>2. CASE Recreate \/ Open
  <2>1. consumers = {} /\ UNCHANGED <<pipe, tag, consumers>>
    BY <1>2 DEF Recreate, Open, brokerVars, Deaf, Life
  <2> QED
    BY <1>1, <2>1 DEF Deaf, Life, Tended, InFlight
<1>3. CASE Lose \/ OpenFails \/ Disconnect
  <2>1. consumers' = {} /\ InFlight' = {}
    BY <1>3 DEF Lose, OpenFails, Disconnect, QueueDeleted, AllRefused, InFlight, Deaf, Life
  <2> QED
    BY <1>1, <2>1 DEF Deaf, Life, Tended
<1> QED
  BY <1>2, <1>3 DEF LinkStep

\* Once a user who awaits every call has paused or disposed the handler, no
\* consumer is left, whatever was lost or refused before, during or since.
THEOREM PausedIsDeaf == Spec => []PausedAcceptsNothing
<1>1. Init => Deaf
  BY DEF Init, ConnectorInit, Deaf, Life, Tended, InFlight
<1>2. Base /\ Deaf /\ [Next]_vars => Deaf'
  <2> SUFFICES ASSUME Base, Deaf, [Next]_vars PROVE Deaf'
    OBVIOUS
  <2>1. CASE Next
    BY <2>1, DeafHandle, DeafStart, DeafPause, DeafDispose, DeafAnswer, DeafLinkStep DEF Next
  <2>2. CASE UNCHANGED vars
    BY <2>2 DEF vars, brokerVars, Deaf, Life, Tended, InFlight, Newest, Lifecycle
  <2> QED
    BY <2>1, <2>2
<1>3. Base /\ Deaf => PausedAcceptsNothing
  <2> SUFFICES ASSUME Base, Deaf, careful, Quiet, Lifecycle # {},
                      calls[LastOf(Lifecycle)].did \in {"pause", "dispose"}, consumers # {}
               PROVE  FALSE
    BY DEF PausedAcceptsNothing
  <2>1. PICK l \in Lifecycle : /\ Newest(l)
                               /\ calls[l].did = "start" \/ Cancel(tag, l) \in InFlight
    BY DEF Deaf, Tended
  <2>2. LastOf(Lifecycle) = l
    BY <2>1, NewestIsLast DEF Base
  <2>3. Cancel(tag, l) \in InFlight
    BY <2>1, <2>2
  <2> QED
    BY <2>3 DEF Base, Accounts, Outstanding, Quiet
<1> QED
  BY <1>1, <1>2, <1>3, BaseAlways, PTL DEF Spec

=============================================================================
