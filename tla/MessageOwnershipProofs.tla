----------------------- MODULE MessageOwnershipProofs -----------------------
(***************************************************************************)
(* Why every natsMsg is destroyed exactly once and a fetch returns its     *)
(* messages in order: proofs for any number of messages, variables,        *)
(* threads and any size of a batch.                                        *)
(***************************************************************************)
EXTENDS MessageOwnership, FiniteSetTheorems, TLAPS

Distinct(s) == \A i, j \in DOMAIN s : s[i] = s[j] => i = j

\* What a fetch under way moved into its vector is gone from its list, and the
\* two together are what nats.c delivered.
FetchState ==
  \A t \in Thread :
    /\ Distinct(fetched[t])
    /\ pc[t] = "fetch" =>
         /\ Len(list[t]) = Len(fetched[t]) /\ Len(out[t]) <= Len(list[t])
         /\ \A i \in 1..Len(out[t]) : out[t][i] = fetched[t][i] /\ list[t][i] = None
         /\ \A i \in (Len(out[t]) + 1)..Len(list[t]) : list[t][i] = fetched[t][i]
    /\ pc[t] = "next" => list[t] = fetched[t]
    /\ pc[t] = "fetched" => out[t] = fetched[t] \/ out[t] = <<>>
    /\ pc[t] \notin {"fetch", "fetched"} => out[t] = <<>>

\* The messages a thread's call has to destroy or hand on.
Held(t) ==
  CASE pc[t] = "handler" -> {param[t]} \ {None}
    [] pc[t] = "sending" -> {raw[t]} \ {None}
    [] pc[t] \in {"fetch", "next"} -> Elements(fetched[t])
    [] pc[t] = "fetched" -> Elements(out[t])
    [] OTHER -> {}

\* Who has which messages: H says it for the calls under way.
Accounted(H) ==
  \A m \in Msg :
    m \in heap <=> \/ \E v \in Var : msg[v] = m
                   \/ \E t \in Thread : m \in H[t]
                   \/ m \in queue \/ m \in given
Apart(H) ==
  \A m \in Msg :
    /\ \A v, w \in Var : msg[v] = m /\ msg[w] = m => v = w
    /\ \A t, u \in Thread : m \in H[t] /\ m \in H[u] => t = u
    /\ \A v \in Var : msg[v] = m =>
         m \notin queue /\ m \notin given /\ \A t \in Thread : m \notin H[t]
    /\ \A t \in Thread : m \in H[t] => m \notin queue /\ m \notin given
    /\ m \in queue => m \notin given
Calls == [t \in Thread |-> Held(t)]

IInv == TypeOK /\ FetchState /\ Accounted(Calls) /\ Apart(Calls)

-----------------------------------------------------------------------------
\* The elements of a list are those at its indices.
LEMMA ElementsOf ==
  ASSUME NEW s \in Seq(Msg)
  PROVE  /\ Elements(s) = {s[i] : i \in 1..Len(s)}
         /\ Elements(s) \subseteq Msg
         /\ s = <<>> => Elements(s) = {}
<1>1. DOMAIN s = 1..Len(s) /\ \A i \in 1..Len(s) : s[i] \in Msg
  OBVIOUS
<1> QED
  BY <1>1, ConstantsAssumption DEF Elements

\* Taking the first of a list without repetition.
LEMMA FirstTaken ==
  ASSUME NEW s \in Seq(Msg), s # <<>>, Distinct(s)
  PROVE  /\ Head(s) \in Elements(s)
         /\ Elements(Tail(s)) = Elements(s) \ {Head(s)}
         /\ Tail(s) \in Seq(Msg) /\ Len(Tail(s)) = Len(s) - 1
         /\ Distinct(Tail(s))
<1>1. /\ Tail(s) \in Seq(Msg) /\ Len(s) \in Nat \ {0} /\ Len(Tail(s)) = Len(s) - 1
      /\ \A i \in 1..(Len(s) - 1) : Tail(s)[i] = s[i + 1]
      /\ Head(s) = s[1]
  OBVIOUS
<1>2. \A i, j \in 1..Len(s) : s[i] = s[j] => i = j
  BY DEF Distinct
<1>3. Elements(s) = {s[i] : i \in 1..Len(s)} /\ Elements(Tail(s)) = {Tail(s)[i] : i \in 1..Len(Tail(s))}
  BY <1>1, ElementsOf
<1>4. Head(s) \in Elements(s)
  BY <1>1, <1>3
<1>5. ASSUME NEW m \in Elements(Tail(s))
      PROVE  m \in Elements(s) \ {Head(s)}
  <2>1. PICK i \in 1..(Len(s) - 1) : m = s[i + 1]
    BY <1>1, <1>3
  <2>2. i + 1 \in 1..Len(s) /\ i + 1 # 1 /\ 1 \in 1..Len(s)
    BY <1>1
  <2> QED
    BY <1>1, <1>2, <1>3, <2>1, <2>2
<1>6. ASSUME NEW m \in Elements(s) \ {Head(s)}
      PROVE  m \in Elements(Tail(s))
  <2>1. PICK i \in 1..Len(s) : m = s[i]
    BY <1>3
  <2>2. i - 1 \in 1..(Len(s) - 1) /\ Tail(s)[i - 1] = s[i]
    BY <1>1, <2>1
  <2> QED
    BY <1>1, <1>3, <2>1, <2>2
<1>7. Distinct(Tail(s))
  <2> SUFFICES ASSUME NEW i \in 1..(Len(s) - 1), NEW j \in 1..(Len(s) - 1),
                      Tail(s)[i] = Tail(s)[j]
               PROVE  i = j
    BY <1>1 DEF Distinct
  <2>1. s[i + 1] = s[j + 1] /\ i + 1 \in 1..Len(s) /\ j + 1 \in 1..Len(s)
    BY <1>1
  <2> QED
    BY <1>2, <2>1
<1> QED
  BY <1>1, <1>4, <1>5, <1>6, <1>7

\* What natsSubscription_Fetch may fill a list with.
LEMMA FetchedLists ==
  ASSUME NEW s \in Lists
  PROVE  s \in Seq(Msg) /\ s \in Seq(Msg \cup {None}) /\ Len(s) <= Batch
<1>1. PICK n \in 0 .. Batch : s \in [1 .. n -> Msg]
  BY DEF Lists
<1>2. n \in Nat /\ n <= Batch
  BY <1>1, ConstantsAssumption
<1> QED
  BY <1>1, <1>2

\* Every step keeps the types.
LEMMA TypeStep == TypeOK /\ FetchState /\ [Next]_vars => TypeOK'
<1> SUFFICES ASSUME TypeOK /\ FetchState, [Next]_vars PROVE TypeOK'
  OBVIOUS
<1> USE ConstantsAssumption DEF TypeOK
<1>1. ASSUME NEW m \in Msg, Arrive(m) \/ GivenDestroyed(m)
      PROVE  TypeOK'
  BY <1>1 DEF Arrive, GivenDestroyed, Destroy, fetch
<1>2. ASSUME NEW v \in Var, NEW m \in Msg, NewMessage(v, m) \/ NextMessage(v, m)
      PROVE  TypeOK'
  <2>1. heap' \subseteq heap \cup {m} /\ queue' \subseteq queue /\ msg' = [msg EXCEPT ![v] = m]
    BY <1>2 DEF NewMessage, NextMessage, Destroy, Into
  <2>2. UNCHANGED <<pc, param, raw, fetch, given>>
    BY <1>2 DEF NewMessage, NextMessage
  <2> QED
    BY <2>1, <2>2 DEF fetch
<1>3. ASSUME NEW v \in Var, NEW w \in Var, Assign(v, w)
      PROVE  TypeOK'
  BY <1>3 DEF Assign, Destroy, fetch
<1>4. ASSUME NEW v \in Var, Drop(v) \/ Release(v)
      PROVE  TypeOK'
  <2>1. msg' = [msg EXCEPT ![v] = None] /\ given' \subseteq given \cup {msg[v]} /\ msg[v] # None
    BY <1>4 DEF Drop, Release, Into
  <2>2. heap' \subseteq heap /\ UNCHANGED <<queue, pc, param, raw, fetch>>
    BY <1>4 DEF Drop, Release, Destroy
  <2>3. given' \subseteq Msg
    BY <2>1
  <2> QED
    BY <2>1, <2>2, <2>3 DEF fetch
<1>5. ASSUME NEW t \in Thread, NEW m \in Msg, Dispatch(t, m)
      PROVE  TypeOK'
  BY <1>5 DEF Dispatch, fetch
<1>6. ASSUME NEW t \in Thread, NEW v \in Var, HandlerKeeps(t, v)
      PROVE  TypeOK'
  BY <1>6 DEF HandlerKeeps, Destroy, Into, fetch
<1>7. ASSUME NEW t \in Thread, HandlerEnds(t)
      PROVE  TypeOK'
  BY <1>7 DEF HandlerEnds, Destroy, fetch
<1>8. ASSUME NEW t \in Thread, NEW v \in Var, Send(t, v)
      PROVE  TypeOK'
  BY <1>8 DEF Send, Into, fetch
<1>9. ASSUME NEW t \in Thread, SendEnds(t)
      PROVE  TypeOK'
  BY <1>9 DEF SendEnds, Destroy, fetch
<1>10. ASSUME NEW t \in Thread, NEW v \in Var, NEW m \in Msg, Reply(t, v, m)
      PROVE  TypeOK'
  BY <1>10 DEF Reply, Into, fetch
<1>11. ASSUME NEW t \in Thread, NEW s \in Lists, FetchBatch(t, s) \/ FetchOne(t, s)
      PROVE  TypeOK'
  <2>1. s \in Seq(Msg) /\ s \in Seq(Msg \cup {None}) /\ Len(s) <= Batch
    BY FetchedLists
  <2>2. PICK call \in {"fetch", "next"} : Fetch(t, call, s)
    BY <1>11 DEF FetchBatch, FetchOne
  <2>3. /\ queue' \subseteq queue /\ list' = [list EXCEPT ![t] = s]
        /\ fetched' = [fetched EXCEPT ![t] = s] /\ pc' = [pc EXCEPT ![t] = call]
        /\ pc[t] = "idle" /\ UNCHANGED <<heap, msg, param, raw, out, given>>
    BY <2>2 DEF Fetch
  <2>4. list' \in [Thread -> Seq(Msg \cup {None})] /\ fetched' \in [Thread -> Seq(Msg)]
    BY <2>1, <2>3
  <2> QED
    BY <2>1, <2>3, <2>4
<1>12. ASSUME NEW t \in Thread, TakeFromList(t)
      PROVE  TypeOK'
  <2> DEFINE i == Len(out[t]) + 1
  <2>1. /\ out[t] \in Seq(Msg) /\ list[t] \in Seq(Msg \cup {None})
        /\ Len(list[t]) <= Batch /\ i \in 1..Len(list[t])
    BY <1>12 DEF TakeFromList
  <2>2. list[t][i] = fetched[t][i] /\ list[t][i] \in Msg
    <3>1. i \in (Len(out[t]) + 1)..Len(list[t])
      BY <2>1
    <3>2. list[t][i] = fetched[t][i] /\ Len(list[t]) = Len(fetched[t]) /\ fetched[t] \in Seq(Msg)
      BY <1>12, <3>1 DEF TakeFromList, FetchState
    <3> QED
      BY <2>1, <3>2
  <2>3. Append(out[t], list[t][i]) \in Seq(Msg) /\ Len(Append(out[t], list[t][i])) <= Batch
    BY <2>1, <2>2
  <2>4. /\ [list[t] EXCEPT ![i] = None] \in Seq(Msg \cup {None})
        /\ Len([list[t] EXCEPT ![i] = None]) = Len(list[t])
    BY <2>1
  <2>5. /\ out' = [out EXCEPT ![t] = Append(out[t], list[t][i])]
        /\ list' = [list EXCEPT ![t] = [list[t] EXCEPT ![i] = None]]
        /\ UNCHANGED <<heap, queue, msg, pc, param, raw, fetched, given>> /\ pc[t] = "fetch"
    BY <1>12 DEF TakeFromList
  <2> HIDE DEF i
  <2> QED
    BY <2>1, <2>3, <2>4, <2>5
<1>13. ASSUME NEW t \in Thread, FetchEnds(t)
      PROVE  TypeOK'
  BY <1>13 DEF FetchEnds, Destroy
<1>14. ASSUME NEW t \in Thread, NEW v \in Var, TakeResult(t, v)
      PROVE  TypeOK'
  <2>1. out[t] \in Seq(Msg) /\ out[t] # <<>> /\ pc[t] = "fetched" /\ fetched[t] = out[t]
    BY <1>14 DEF TakeResult, FetchState
  <2>2. Distinct(out[t])
    BY <2>1 DEF FetchState
  <2>3. /\ Tail(out[t]) \in Seq(Msg) /\ Head(out[t]) \in Msg
        /\ Len(Tail(out[t])) <= Batch /\ Tail(fetched[t]) = Tail(out[t])
    BY <2>1, <2>2, FirstTaken
  <2> QED
    BY <1>14, <2>1, <2>3 DEF TakeResult, Destroy, Into
<1>15. ASSUME NEW t \in Thread, DropResults(t)
      PROVE  TypeOK'
  BY <1>15 DEF DropResults, Destroy
<1>16. ASSUME NEW t \in Thread, NEW v \in Var, PullNext(t, v)
      PROVE  TypeOK'
  <2>1. list[t] = fetched[t] /\ list[t] # <<>>
    BY <1>16 DEF PullNext, FetchState
  <2>2. Head(list[t]) \in Msg
    BY <2>1
  <2> QED
    BY <1>16, <2>2 DEF PullNext, Into
<1>17. ASSUME NEW t \in Thread, PullTimeout(t)
      PROVE  TypeOK'
  BY <1>17 DEF PullTimeout, fetch
<1>18. CASE UNCHANGED vars
  BY <1>18 DEF vars, fetch
<1> QED
  BY <1>1, <1>2, <1>3, <1>4, <1>5, <1>6, <1>7, <1>8, <1>9, <1>10, <1>11, <1>12,
     <1>13, <1>14, <1>15, <1>16, <1>17, <1>18
  DEF Next

\* A fetch gives out its messages in order and loses none.
LEMMA FetchStep == TypeOK /\ FetchState /\ [Next]_vars => FetchState'
<1> SUFFICES ASSUME TypeOK /\ FetchState, [Next]_vars PROVE FetchState'
  OBVIOUS
<1> USE ConstantsAssumption DEF TypeOK, FetchState
<1>1. ASSUME NEW m \in Msg, Arrive(m) \/ GivenDestroyed(m)
      PROVE  FetchState'
  BY <1>1 DEF Arrive, GivenDestroyed, Destroy, fetch
<1>2. ASSUME NEW v \in Var, NEW m \in Msg, NewMessage(v, m) \/ NextMessage(v, m)
      PROVE  FetchState'
  BY <1>2 DEF NewMessage, NextMessage, Destroy, Into, fetch
<1>3. ASSUME NEW v \in Var, NEW w \in Var, Assign(v, w)
      PROVE  FetchState'
  BY <1>3 DEF Assign, Destroy, fetch
<1>4. ASSUME NEW v \in Var, Drop(v) \/ Release(v)
      PROVE  FetchState'
  BY <1>4 DEF Drop, Release, Destroy, Into, fetch
<1>5. ASSUME NEW t \in Thread, NEW m \in Msg, Dispatch(t, m)
      PROVE  FetchState'
  BY <1>5 DEF Dispatch, fetch
<1>6. ASSUME NEW t \in Thread, NEW v \in Var, HandlerKeeps(t, v)
      PROVE  FetchState'
  BY <1>6 DEF HandlerKeeps, Destroy, Into, fetch
<1>7. ASSUME NEW t \in Thread, HandlerEnds(t)
      PROVE  FetchState'
  BY <1>7 DEF HandlerEnds, Destroy, fetch
<1>8. ASSUME NEW t \in Thread, NEW v \in Var, Send(t, v)
      PROVE  FetchState'
  BY <1>8 DEF Send, Into, fetch
<1>9. ASSUME NEW t \in Thread, SendEnds(t)
      PROVE  FetchState'
  BY <1>9 DEF SendEnds, Destroy, fetch
<1>10. ASSUME NEW t \in Thread, NEW v \in Var, NEW m \in Msg, Reply(t, v, m)
      PROVE  FetchState'
  BY <1>10 DEF Reply, Into, fetch
<1>11. ASSUME NEW t \in Thread, NEW s \in Lists, FetchBatch(t, s) \/ FetchOne(t, s)
      PROVE  FetchState'
  <2>1. s \in Seq(Msg) /\ Distinct(s)
    BY <1>11, FetchedLists DEF FetchBatch, FetchOne, Fetch, Distinct
  <2>2. PICK call \in {"fetch", "next"} : Fetch(t, call, s)
    BY <1>11 DEF FetchBatch, FetchOne
  <2>3. /\ pc[t] = "idle" /\ out' = out /\ list' = [list EXCEPT ![t] = s]
        /\ fetched' = [fetched EXCEPT ![t] = s] /\ pc' = [pc EXCEPT ![t] = call]
    BY <2>2 DEF Fetch
  <2>4. out[t] = <<>>
    BY <2>3
  <2> QED
    BY <2>1, <2>3, <2>4
<1>12. ASSUME NEW t \in Thread, TakeFromList(t)
      PROVE  FetchState'
  <2> DEFINE i == Len(out[t]) + 1
  <2>1. /\ out[t] \in Seq(Msg) /\ list[t] \in Seq(Msg \cup {None}) /\ fetched[t] \in Seq(Msg)
        /\ i \in 1..Len(list[t]) /\ pc[t] = "fetch"
    BY <1>12 DEF TakeFromList
  <2>2. /\ out' = [out EXCEPT ![t] = Append(out[t], list[t][i])]
        /\ list' = [list EXCEPT ![t] = [list[t] EXCEPT ![i] = None]]
        /\ fetched' = fetched /\ pc' = pc
    BY <1>12 DEF TakeFromList
  <2>3. /\ Len(list[t]) = Len(fetched[t])
        /\ \A j \in 1..Len(out[t]) : out[t][j] = fetched[t][j] /\ list[t][j] = None
        /\ \A j \in i..Len(list[t]) : list[t][j] = fetched[t][j]
    BY <2>1
  <2>4. list[t][i] = fetched[t][i] /\ list[t][i] \in Msg
    BY <2>1, <2>3
  <2>5. /\ Len(out'[t]) = i /\ Len(list'[t]) = Len(list[t])
        /\ \A j \in 1..Len(out[t]) : out'[t][j] = out[t][j]
        /\ out'[t][i] = list[t][i]
        /\ \A j \in 1..Len(list[t]) : list'[t][j] = IF j = i THEN None ELSE list[t][j]
    BY <2>1, <2>2, <2>4
  <2>6. /\ \A j \in 1..Len(out'[t]) : out'[t][j] = fetched[t][j] /\ list'[t][j] = None
        /\ \A j \in (Len(out'[t]) + 1)..Len(list'[t]) : list'[t][j] = fetched[t][j]
    <3>1. \A j \in 1..i : j \in 1..Len(list[t]) /\ (j = i \/ j \in 1..Len(out[t]))
      BY <2>1
    <3>2. \A j \in (i + 1)..Len(list[t]) : j \in i..Len(list[t]) /\ j \in 1..Len(list[t]) /\ j # i
      BY <2>1
    <3>3. i \in i..Len(list[t])
      BY <2>1
    <3>4. Len(out'[t]) = i /\ Len(list'[t]) = Len(list[t])
      BY <2>5
    <3>5. \A j \in 1..Len(list[t]) : list'[t][j] = IF j = i THEN None ELSE list[t][j]
      BY <2>5
    <3>6. (\A j \in 1..Len(out[t]) : out'[t][j] = out[t][j]) /\ out'[t][i] = list[t][i]
      BY <2>5
    <3>7. \A j \in i..Len(list[t]) : list[t][j] = fetched[t][j]
      BY <2>3
    <3>8. \A j \in 1..Len(out[t]) : out[t][j] = fetched[t][j] /\ list[t][j] = None
      BY <2>3
    <3>9. ASSUME NEW j \in 1..i
          PROVE  out'[t][j] = fetched[t][j] /\ list'[t][j] = None
      <4>1. CASE j = i
        BY <3>1, <3>3, <3>5, <3>6, <3>7, <4>1
      <4>2. CASE j \in 1..Len(out[t]) /\ j # i
        BY <3>1, <3>5, <3>6, <3>8, <4>2
      <4> QED
        BY <3>1, <4>1, <4>2
    <3>10. ASSUME NEW j \in (i + 1)..Len(list[t])
           PROVE  list'[t][j] = fetched[t][j]
      BY <3>2, <3>5, <3>7
    <3> QED
      BY <3>4, <3>9, <3>10
  <2>7. \A u \in Thread \ {t} : out'[u] = out[u] /\ list'[u] = list[u]
    BY <2>2
  <2> HIDE DEF i
  <2> QED
    BY <2>1, <2>2, <2>3, <2>5, <2>6, <2>7
<1>13. ASSUME NEW t \in Thread, FetchEnds(t)
      PROVE  FetchState'
  <2>1. pc[t] = "fetch" /\ Len(out[t]) \in {0, Len(list[t])}
    BY <1>13 DEF FetchEnds
  <2>2. out[t] \in Seq(Msg) /\ fetched[t] \in Seq(Msg)
    OBVIOUS
  <2>3. out[t] = <<>> \/ out[t] = fetched[t]
    BY <2>1, <2>2
  <2> QED
    BY <1>13, <2>1, <2>3 DEF FetchEnds, Destroy
<1>14. ASSUME NEW t \in Thread, NEW v \in Var, TakeResult(t, v)
      PROVE  FetchState'
  <2>1. out[t] \in Seq(Msg) /\ out[t] # <<>> /\ pc[t] = "fetched" /\ fetched[t] = out[t]
    BY <1>14 DEF TakeResult
  <2>2. Distinct(out[t])
    BY <2>1
  <2>3. Distinct(Tail(fetched[t]))
    BY <2>1, <2>2, FirstTaken
  <2>4. /\ fetched' = [fetched EXCEPT ![t] = Tail(fetched[t])]
        /\ out' = [out EXCEPT ![t] = Tail(out[t])] /\ pc' = pc /\ list' = list
    BY <1>14 DEF TakeResult
  <2> QED
    BY <2>1, <2>3, <2>4
<1>15. ASSUME NEW t \in Thread, DropResults(t)
      PROVE  FetchState'
  <2>1. Distinct(<<>>)
    BY DEF Distinct
  <2> QED
    BY <1>15, <2>1 DEF DropResults, Destroy
<1>16. ASSUME NEW t \in Thread, NEW v \in Var, PullNext(t, v)
      PROVE  FetchState'
  <2>1. Distinct(<<>>)
    BY DEF Distinct
  <2> QED
    BY <1>16, <2>1 DEF PullNext, Into
<1>17. ASSUME NEW t \in Thread, PullTimeout(t)
      PROVE  FetchState'
  BY <1>17 DEF PullTimeout, fetch
<1>18. CASE UNCHANGED vars
  BY <1>18 DEF vars, fetch
<1> QED
  BY <1>1, <1>2, <1>3, <1>4, <1>5, <1>6, <1>7, <1>8, <1>9, <1>10, <1>11, <1>12,
     <1>13, <1>14, <1>15, <1>16, <1>17, <1>18
  DEF Next

\* When a fetch ends either every message was taken or none was.
LEMMA ListAtEnd ==
  ASSUME TypeOK, FetchState, NEW t \in Thread, pc[t] = "fetch",
         Len(out[t]) \in {0, Len(list[t])}
  PROVE  \/ out[t] = <<>> /\ Elements(list[t]) = Elements(fetched[t])
         \/ out[t] = fetched[t] /\ Elements(list[t]) = {}
<1>1. /\ out[t] \in Seq(Msg) /\ fetched[t] \in Seq(Msg) /\ list[t] \in Seq(Msg \cup {None})
      /\ Len(list[t]) = Len(fetched[t])
      /\ \A i \in 1..Len(out[t]) : out[t][i] = fetched[t][i] /\ list[t][i] = None
      /\ \A i \in (Len(out[t]) + 1)..Len(list[t]) : list[t][i] = fetched[t][i]
  BY DEF TypeOK, FetchState
<1>2. CASE Len(out[t]) = 0
  <2>1. out[t] = <<>>
    BY <1>1, <1>2
  <2>2. list[t] = fetched[t]
    BY <1>1, <1>2
  <2> QED
    BY <2>1, <2>2
<1>3. CASE Len(out[t]) = Len(list[t])
  <2>1. out[t] = fetched[t]
    BY <1>1, <1>3
  <2>2. \A i \in DOMAIN list[t] : list[t][i] = None
    BY <1>1, <1>3
  <2>3. Elements(list[t]) = {}
    BY <2>2 DEF Elements
  <2> QED
    BY <2>1, <2>3
<1> QED
  BY <1>2, <1>3

\* A thread has messages.
LEMMA CallsType == TypeOK => Calls \in [Thread -> SUBSET Msg]
<1> SUFFICES ASSUME TypeOK, NEW t \in Thread PROVE Held(t) \in SUBSET Msg
  BY DEF Calls
<1>1. Elements(fetched[t]) \subseteq Msg /\ Elements(out[t]) \subseteq Msg
  BY ElementsOf DEF TypeOK
<1>2. param[t] \in Msg \cup {None} /\ raw[t] \in Msg \cup {None}
  BY DEF TypeOK
<1> QED
  BY <1>1, <1>2 DEF Held

\* Every step passes a message on, destroys it, or leaves it where it is.
LEMMA AccountStep == IInv /\ [Next]_vars => Accounted(Calls)' /\ Apart(Calls)'
<1> SUFFICES ASSUME IInv, [Next]_vars PROVE Accounted(Calls)' /\ Apart(Calls)'
  OBVIOUS
<1> USE ConstantsAssumption
<1>0. /\ Calls \in [Thread -> SUBSET Msg] /\ msg \in [Var -> Msg \cup {None}]
      /\ param \in [Thread -> Msg \cup {None}] /\ raw \in [Thread -> Msg \cup {None}]
      /\ heap \subseteq Msg /\ queue \subseteq heap /\ given \subseteq heap
      /\ Accounted(Calls) /\ Apart(Calls)
  BY CallsType DEF IInv, TypeOK, Accounted
<1>1. ASSUME NEW m \in Msg, Arrive(m) \/ GivenDestroyed(m)
      PROVE  Accounted(Calls)' /\ Apart(Calls)'
  <2>1. Calls' = Calls
    BY <1>1 DEF IInv, TypeOK, Arrive, GivenDestroyed, Destroy, fetch, Calls, Held
  <2>8. Accounted(Calls)'
    BY <1>0, <1>1, <2>1 DEF Arrive, GivenDestroyed, Destroy, fetch, Accounted, Apart
  <2>9. Apart(Calls)'
    BY <1>0, <1>1, <2>1 DEF Arrive, GivenDestroyed, Destroy, fetch, Accounted, Apart
  <2> QED
    BY <2>8, <2>9
<1>2. ASSUME NEW v \in Var, NEW m \in Msg, NewMessage(v, m) \/ NextMessage(v, m)
      PROVE  Accounted(Calls)' /\ Apart(Calls)'
  <2>1. Calls' = Calls
    BY <1>2 DEF IInv, TypeOK, NewMessage, NextMessage, Destroy, Into, fetch, Calls, Held
  <2>8. Accounted(Calls)'
    BY <1>0, <1>2, <2>1 DEF NewMessage, NextMessage, Destroy, Into, fetch, Accounted, Apart
  <2>9. Apart(Calls)'
    BY <1>0, <1>2, <2>1 DEF NewMessage, NextMessage, Destroy, Into, fetch, Accounted, Apart
  <2> QED
    BY <2>8, <2>9
<1>3. ASSUME NEW v \in Var, NEW w \in Var, Assign(v, w)
      PROVE  Accounted(Calls)' /\ Apart(Calls)'
  <2>1. Calls' = Calls
    BY <1>3 DEF IInv, TypeOK, Assign, Destroy, fetch, Calls, Held
  <2>8. Accounted(Calls)'
    BY <1>0, <1>3, <2>1 DEF Assign, Destroy, fetch, Accounted, Apart
  <2>9. Apart(Calls)'
    BY <1>0, <1>3, <2>1 DEF Assign, Destroy, fetch, Accounted, Apart
  <2> QED
    BY <2>8, <2>9
<1>4. ASSUME NEW v \in Var, Drop(v) \/ Release(v)
      PROVE  Accounted(Calls)' /\ Apart(Calls)'
  <2>1. Calls' = Calls
    BY <1>4 DEF IInv, TypeOK, Drop, Release, Destroy, Into, fetch, Calls, Held
  <2>8. Accounted(Calls)'
    BY <1>0, <1>4, <2>1 DEF Drop, Release, Destroy, Into, fetch, Accounted, Apart
  <2>9. Apart(Calls)'
    BY <1>0, <1>4, <2>1 DEF Drop, Release, Destroy, Into, fetch, Accounted, Apart
  <2> QED
    BY <2>8, <2>9
<1>5. ASSUME NEW t \in Thread, NEW m \in Msg, Dispatch(t, m)
      PROVE  Accounted(Calls)' /\ Apart(Calls)'
  <2>1. Calls[t] = {}
    BY <1>5 DEF IInv, TypeOK, Dispatch, fetch, Calls, Held
  <2>2. Calls' = [Calls EXCEPT ![t] = {m}]
    <3>1. /\ pc'[t] = "handler" /\ param'[t] = m /\ m # None
          /\ \A u \in Thread \ {t} : pc'[u] = pc[u] /\ param'[u] = param[u]
          /\ UNCHANGED <<raw, fetch>>
      BY <1>5, ConstantsAssumption DEF IInv, TypeOK, Dispatch
    <3>2. Held(t)' = {m}
      BY <3>1 DEF Held
    <3>3. \A u \in Thread \ {t} : Held(u)' = Held(u)
      BY <3>1 DEF Held, fetch
    <3> QED
      BY <3>2, <3>3 DEF Calls
  <2>3. \A u \in Thread : Calls'[u] = IF u = t THEN {m} ELSE Calls[u]
    BY <2>2 DEF Calls
  <2>4. m \in queue /\ queue' = queue \ {m} /\ UNCHANGED <<heap, msg, given>>
    BY <1>5 DEF Dispatch
  <2>8. Accounted(Calls)'
    BY <1>0, <1>5, <2>1, <2>2 DEF Dispatch, fetch, Accounted, Apart
  <2>9. Apart(Calls)'
    BY <1>0, <2>1, <2>3, <2>4 DEF Apart
  <2> QED
    BY <2>8, <2>9
<1>6. ASSUME NEW t \in Thread, NEW v \in Var, HandlerKeeps(t, v)
      PROVE  Accounted(Calls)' /\ Apart(Calls)'
  <2>1. Calls[t] = {param[t]} \ {None}
    BY <1>6 DEF IInv, TypeOK, HandlerKeeps, Destroy, Into, fetch, Calls, Held
  <2>2. Calls' = [Calls EXCEPT ![t] = {}]
    BY <1>6 DEF IInv, TypeOK, HandlerKeeps, Destroy, Into, fetch, Calls, Held
  <2>8. Accounted(Calls)'
    BY <1>0, <1>6, <2>1, <2>2 DEF HandlerKeeps, Destroy, Into, fetch, Accounted, Apart
  <2>9. Apart(Calls)'
    BY <1>0, <1>6, <2>1, <2>2 DEF HandlerKeeps, Destroy, Into, fetch, Accounted, Apart
  <2> QED
    BY <2>8, <2>9
<1>7. ASSUME NEW t \in Thread, HandlerEnds(t)
      PROVE  Accounted(Calls)' /\ Apart(Calls)'
  <2>1. Calls[t] = {param[t]} \ {None}
    BY <1>7 DEF IInv, TypeOK, HandlerEnds, Destroy, fetch, Calls, Held
  <2>2. Calls' = [Calls EXCEPT ![t] = {}]
    BY <1>7 DEF IInv, TypeOK, HandlerEnds, Destroy, fetch, Calls, Held
  <2>8. Accounted(Calls)'
    BY <1>0, <1>7, <2>1, <2>2 DEF HandlerEnds, Destroy, fetch, Accounted, Apart
  <2>9. Apart(Calls)'
    BY <1>0, <1>7, <2>1, <2>2 DEF HandlerEnds, Destroy, fetch, Accounted, Apart
  <2> QED
    BY <2>8, <2>9
<1>8. ASSUME NEW t \in Thread, NEW v \in Var, Send(t, v)
      PROVE  Accounted(Calls)' /\ Apart(Calls)'
  <2>1. Calls[t] = {}
    BY <1>8 DEF IInv, TypeOK, Send, Into, fetch, Calls, Held
  <2>2. Calls' = [Calls EXCEPT ![t] = {msg[v]} \ {None}]
    BY <1>8 DEF IInv, TypeOK, Send, Into, fetch, Calls, Held
  <2>8. Accounted(Calls)'
    BY <1>0, <1>8, <2>1, <2>2 DEF Send, Into, fetch, Accounted, Apart
  <2>9. Apart(Calls)'
    BY <1>0, <1>8, <2>1, <2>2 DEF Send, Into, fetch, Accounted, Apart
  <2> QED
    BY <2>8, <2>9
<1>9. ASSUME NEW t \in Thread, SendEnds(t)
      PROVE  Accounted(Calls)' /\ Apart(Calls)'
  <2>1. Calls[t] = {raw[t]} \ {None}
    BY <1>9 DEF IInv, TypeOK, SendEnds, Destroy, fetch, Calls, Held
  <2>2. Calls' = [Calls EXCEPT ![t] = {}]
    BY <1>9 DEF IInv, TypeOK, SendEnds, Destroy, fetch, Calls, Held
  <2>8. Accounted(Calls)'
    BY <1>0, <1>9, <2>1, <2>2 DEF SendEnds, Destroy, fetch, Accounted, Apart
  <2>9. Apart(Calls)'
    BY <1>0, <1>9, <2>1, <2>2 DEF SendEnds, Destroy, fetch, Accounted, Apart
  <2> QED
    BY <2>8, <2>9
<1>10. ASSUME NEW t \in Thread, NEW v \in Var, NEW m \in Msg, Reply(t, v, m)
      PROVE  Accounted(Calls)' /\ Apart(Calls)'
  <2>1. Calls[t] = {raw[t]} \ {None}
    BY <1>10 DEF IInv, TypeOK, Reply, Into, fetch, Calls, Held
  <2>2. Calls' = [Calls EXCEPT ![t] = {}]
    BY <1>10 DEF IInv, TypeOK, Reply, Into, fetch, Calls, Held
  <2>8. Accounted(Calls)'
    BY <1>0, <1>10, <2>1, <2>2 DEF Reply, Into, fetch, Accounted, Apart
  <2>9. Apart(Calls)'
    BY <1>0, <1>10, <2>1, <2>2 DEF Reply, Into, fetch, Accounted, Apart
  <2> QED
    BY <2>8, <2>9
<1>11. ASSUME NEW t \in Thread, NEW s \in Lists, FetchBatch(t, s) \/ FetchOne(t, s)
      PROVE  Accounted(Calls)' /\ Apart(Calls)'
  <2>1. PICK call \in {"fetch", "next"} : Fetch(t, call, s)
    BY <1>11 DEF IInv, TypeOK, FetchBatch, FetchOne
  <2>2. Calls[t] = {}
    BY <2>1 DEF IInv, TypeOK, Fetch, Calls, Held
  <2>3. Calls' = [Calls EXCEPT ![t] = Elements(s)]
    BY <2>1 DEF IInv, TypeOK, Fetch, Calls, Held
  <2>4. /\ Elements(s) \subseteq queue /\ queue' = queue \ Elements(s)
        /\ UNCHANGED <<heap, msg, given>>
    BY <2>1 DEF IInv, TypeOK, Fetch
  <2>8. Accounted(Calls)'
    BY <1>0, <2>2, <2>3, <2>4 DEF Accounted, Apart
  <2>9. Apart(Calls)'
    BY <1>0, <2>2, <2>3, <2>4 DEF Accounted, Apart
  <2> QED
    BY <2>8, <2>9
<1>12. ASSUME NEW t \in Thread, TakeFromList(t)
      PROVE  Accounted(Calls)' /\ Apart(Calls)'
  <2>1. Calls' = Calls
    BY <1>12 DEF IInv, TypeOK, TakeFromList, Calls, Held
  <2>8. Accounted(Calls)'
    BY <1>0, <1>12, <2>1 DEF TakeFromList, Accounted, Apart
  <2>9. Apart(Calls)'
    BY <1>0, <1>12, <2>1 DEF TakeFromList, Accounted, Apart
  <2> QED
    BY <2>8, <2>9
<1>13. ASSUME NEW t \in Thread, FetchEnds(t)
      PROVE  Accounted(Calls)' /\ Apart(Calls)'
  <2>1. /\ pc[t] = "fetch" /\ heap' = heap \ Elements(list[t])
        /\ UNCHANGED <<queue, msg, param, raw, out, fetched, given>>
        /\ pc' = [pc EXCEPT ![t] = "fetched"]
    BY <1>13 DEF IInv, TypeOK, FetchEnds, Destroy
  <2>2. Calls[t] = Elements(fetched[t]) /\ Calls' = [Calls EXCEPT ![t] = Elements(out[t])]
    BY <2>1 DEF IInv, TypeOK, Calls, Held
  <2>3. \/ out[t] = <<>> /\ Elements(list[t]) = Elements(fetched[t])
        \/ out[t] = fetched[t] /\ Elements(list[t]) = {}
    BY <1>13, ListAtEnd DEF IInv, TypeOK, FetchEnds
  <2>4. Elements(<<>>) = {}
    BY DEF Elements
  <2>5. Calls' = [Calls EXCEPT ![t] = Calls[t] \ Elements(list[t])] /\ Elements(list[t]) \subseteq Calls[t]
    BY <2>2, <2>3, <2>4
  <2>8. Accounted(Calls)'
    BY <1>0, <2>1, <2>5 DEF Accounted, Apart
  <2>9. Apart(Calls)'
    BY <1>0, <2>1, <2>5 DEF Accounted, Apart
  <2> QED
    BY <2>8, <2>9
<1>14. ASSUME NEW t \in Thread, NEW v \in Var, TakeResult(t, v)
      PROVE  Accounted(Calls)' /\ Apart(Calls)'
  <2>1. /\ pc[t] = "fetched" /\ out[t] # <<>> /\ out[t] = fetched[t]
        /\ heap' = heap \ {msg[v]} /\ msg' = [msg EXCEPT ![v] = Head(out[t])]
        /\ out' = [out EXCEPT ![t] = Tail(out[t])]
        /\ UNCHANGED <<queue, pc, param, raw, given>>
    BY <1>14 DEF IInv, TypeOK, TakeResult, Destroy, Into, FetchState
  <2>2. /\ Head(out[t]) \in Elements(out[t])
        /\ Elements(Tail(out[t])) = Elements(out[t]) \ {Head(out[t])}
    BY <2>1, FirstTaken DEF IInv, TypeOK, FetchState
  <2>3. Calls[t] = Elements(out[t])
    BY <2>1 DEF IInv, TypeOK, Calls, Held
  <2>4. Calls' = [Calls EXCEPT ![t] = Elements(Tail(out[t]))]
    <3>1. fetched' = [fetched EXCEPT ![t] = Tail(fetched[t])]
      BY <1>14 DEF IInv, TypeOK, TakeResult
    <3> QED
      BY <2>1, <3>1 DEF IInv, TypeOK, Calls, Held
  <2>5. Elements(out[t]) \subseteq Msg
    BY ElementsOf DEF IInv, TypeOK
  <2> DEFINE h == Head(out[t])
  <2>6. /\ h \in Calls[t] /\ h # None
        /\ Calls' = [Calls EXCEPT ![t] = Calls[t] \ {h}]
    BY <2>2, <2>3, <2>4, <2>5
  <2>7. msg' = [msg EXCEPT ![v] = h]
    BY <2>1
  <2> HIDE DEF h
  <2>8. Accounted(Calls)'
    BY <1>0, <2>1, <2>6, <2>7 DEF Accounted, Apart
  <2>9. Apart(Calls)'
    BY <1>0, <2>1, <2>6, <2>7 DEF Accounted, Apart
  <2> QED
    BY <2>8, <2>9
<1>15. ASSUME NEW t \in Thread, DropResults(t)
      PROVE  Accounted(Calls)' /\ Apart(Calls)'
  <2>1. /\ heap' = heap \ Elements(out[t]) /\ UNCHANGED <<queue, msg, given>>
        /\ Calls[t] = Elements(out[t])
    BY <1>15 DEF IInv, TypeOK, DropResults, Destroy, Calls, Held
  <2>2. Calls' = [Calls EXCEPT ![t] = {}]
    BY <1>15 DEF IInv, TypeOK, DropResults, Calls, Held
  <2>8. Accounted(Calls)'
    BY <1>0, <2>1, <2>2 DEF Accounted, Apart
  <2>9. Apart(Calls)'
    BY <1>0, <2>1, <2>2 DEF Accounted, Apart
  <2> QED
    BY <2>8, <2>9
<1>16. ASSUME NEW t \in Thread, NEW v \in Var, PullNext(t, v)
      PROVE  Accounted(Calls)' /\ Apart(Calls)'
  <2>1. /\ pc[t] = "next" /\ list[t] # <<>> /\ list[t] = fetched[t]
        /\ heap' = heap \ ({msg[v]} \cup Elements(Tail(list[t])))
        /\ msg' = [msg EXCEPT ![v] = Head(list[t])]
        /\ pc' = [pc EXCEPT ![t] = "idle"]
        /\ UNCHANGED <<queue, param, raw, out, given>>
    BY <1>16 DEF IInv, TypeOK, PullNext, Into, FetchState
  <2>2. /\ Head(fetched[t]) \in Elements(fetched[t])
        /\ Elements(Tail(fetched[t])) = Elements(fetched[t]) \ {Head(fetched[t])}
    BY <2>1, FirstTaken DEF IInv, TypeOK, FetchState
  <2>3. Calls[t] = Elements(fetched[t])
    BY <2>1 DEF IInv, TypeOK, Calls, Held
  <2>4. Calls' = [Calls EXCEPT ![t] = {}]
    <3>1. fetched' = [fetched EXCEPT ![t] = <<>>]
      BY <1>16 DEF IInv, TypeOK, PullNext
    <3> QED
      BY <2>1, <3>1 DEF IInv, TypeOK, Calls, Held
  <2>5. Elements(fetched[t]) \subseteq Msg
    BY ElementsOf DEF IInv, TypeOK
  <2> DEFINE h == Head(fetched[t])
  <2>6. /\ h \in Calls[t] /\ h # None /\ msg' = [msg EXCEPT ![v] = h]
        /\ heap' = heap \ ({msg[v]} \cup (Calls[t] \ {h}))
    BY <2>1, <2>2, <2>3, <2>5
  <2> HIDE DEF h
  <2>8. Accounted(Calls)'
    BY <1>0, <2>1, <2>4, <2>6 DEF Accounted, Apart
  <2>9. Apart(Calls)'
    BY <1>0, <2>1, <2>4, <2>6 DEF Accounted, Apart
  <2> QED
    BY <2>8, <2>9
<1>17. ASSUME NEW t \in Thread, PullTimeout(t)
      PROVE  Accounted(Calls)' /\ Apart(Calls)'
  <2>1. Calls' = Calls
    <3>1. fetched[t] = <<>> /\ Elements(<<>>) = {}
      BY <1>17 DEF IInv, TypeOK, PullTimeout, FetchState, Elements
    <3> QED
      BY <1>17, <3>1 DEF IInv, TypeOK, PullTimeout, fetch, Calls, Held
  <2>8. Accounted(Calls)'
    BY <1>0, <1>17, <2>1 DEF PullTimeout, Accounted, Apart
  <2>9. Apart(Calls)'
    BY <1>0, <1>17, <2>1 DEF PullTimeout, Accounted, Apart
  <2> QED
    BY <2>8, <2>9
<1>18. CASE UNCHANGED vars
  <2>1. Calls' = Calls /\ UNCHANGED <<heap, msg, queue, given>>
    BY <1>18 DEF vars, Calls, Held
  <2> QED
    BY <1>0, <2>1 DEF Accounted, Apart
<1> QED
  BY <1>1, <1>2, <1>3, <1>4, <1>5, <1>6, <1>7, <1>8, <1>9, <1>10, <1>11, <1>12,
     <1>13, <1>14, <1>15, <1>16, <1>17, <1>18
  DEF Next

\* The invariant holds in every behaviour.
LEMMA Invariance == Spec => []IInv
<1>1. Init => IInv
  <2> SUFFICES ASSUME Init PROVE IInv
    OBVIOUS
  <2>1. TypeOK
    BY ConstantsAssumption DEF Init, TypeOK
  <2>2. FetchState
    BY DEF Init, FetchState, Distinct
  <2>3. Calls = [t \in Thread |-> {}]
    BY DEF Init, Calls, Held
  <2>4. Accounted(Calls) /\ Apart(Calls)
    BY <2>3, ConstantsAssumption DEF Init, Accounted, Apart
  <2> QED
    BY <2>1, <2>2, <2>4 DEF IInv
<1>2. IInv /\ [Next]_vars => IInv'
  BY TypeStep, FetchStep, AccountStep DEF IInv
<1> QED
  BY <1>1, <1>2, PTL DEF Spec

\* Types hold in every behaviour, and only the call a thread is in holds messages.
THEOREM TypeCorrect == Spec => []TypeOK
<1>1. IInv => TypeOK
  BY DEF IInv
<1> QED
  BY <1>1, Invariance, PTL

\* The vector a fetch fills has the messages nats.c delivered, in their order.
THEOREM FetchOrder == Spec => []FetchKeepsOrder
<1>1. IInv => FetchKeepsOrder
  <2> SUFFICES ASSUME IInv, NEW t \in Thread
               PROVE  /\ pc[t] = "fetch" => \A i \in DOMAIN fetched[t] :
                           fetched[t][i] = IF i <= Len(out[t]) THEN out[t][i] ELSE list[t][i]
                      /\ pc[t] = "fetched" /\ out[t] # <<>> => out[t] = fetched[t]
    BY DEF FetchKeepsOrder
  <2>1. out[t] \in Seq(Msg) /\ fetched[t] \in Seq(Msg)
    BY DEF IInv, TypeOK
  <2> QED
    BY <2>1 DEF IInv, FetchState
<1> QED
  BY <1>1, Invariance, PTL

-----------------------------------------------------------------------------
\* The owner of a message, from what the parts of the invariant say: two owners
\* of a call under way are two places of one fetch, of which one is empty.
LEMMA OwnersOf ==
  ASSUME IInv, NEW m \in Msg
  PROVE  /\ (Owners(m) # {}) <=> m \in heap
         /\ \A x, y \in Owners(m) : x = y
<1> USE ConstantsAssumption
<1> DEFINE inVar(v)     == msg[v] = m
           inParam(t)   == param[t] = m
           inRaw(t)     == raw[t] = m
           inList(t, i) == i \in DOMAIN list[t] /\ list[t][i] = m
           inOut(t, i)  == i \in DOMAIN out[t] /\ out[t][i] = m
<1>1. ASSUME NEW t \in Thread
      PROVE  /\ inParam(t) => pc[t] = "handler"
             /\ inRaw(t) => pc[t] = "sending"
             /\ \A i : inList(t, i) => pc[t] \in {"fetch", "next"}
             /\ \A i : inOut(t, i) => pc[t] \in {"fetch", "fetched"}
  BY DEF IInv, TypeOK, FetchState
<1>2. ASSUME NEW t \in Thread
      PROVE  /\ out[t] \in Seq(Msg) /\ fetched[t] \in Seq(Msg)
             /\ list[t] \in Seq(Msg \cup {None})
             /\ \A i, j \in 1..Len(fetched[t]) : fetched[t][i] = fetched[t][j] => i = j
             /\ pc[t] = "fetch" =>
                  /\ Len(list[t]) = Len(fetched[t]) /\ Len(out[t]) <= Len(list[t])
                  /\ \A i \in 1..Len(out[t]) : out[t][i] = fetched[t][i] /\ list[t][i] = None
                  /\ \A i \in (Len(out[t]) + 1)..Len(list[t]) : list[t][i] = fetched[t][i]
             /\ pc[t] = "next" => list[t] = fetched[t]
             /\ pc[t] = "fetched" => out[t] = fetched[t] \/ out[t] = <<>>
             /\ pc[t] \notin {"fetch", "fetched"} => out[t] = <<>>
             /\ pc[t] \notin {"fetch", "next"} => list[t] = <<>>
  <2>1. out[t] \in Seq(Msg) /\ fetched[t] \in Seq(Msg) /\ list[t] \in Seq(Msg \cup {None})
    BY DEF IInv, TypeOK
  <2> QED
    BY <2>1 DEF IInv, TypeOK, FetchState, Distinct
<1>3. ASSUME NEW t \in Thread
      PROVE  /\ \A i, j : inList(t, i) /\ inList(t, j) => i = j
             /\ \A i, j : inOut(t, i) /\ inOut(t, j) => i = j
             /\ \A i, j : ~(inList(t, i) /\ inOut(t, j))
  <2>1. CASE pc[t] = "fetch"
    <3>1. \A i : inOut(t, i) => i \in 1..Len(out[t]) /\ i \in 1..Len(fetched[t]) /\ fetched[t][i] = m
      BY <1>2, <2>1
    <3>2. \A i : inList(t, i) => i \in (Len(out[t]) + 1)..Len(list[t]) /\ i \in 1..Len(fetched[t])
                                 /\ fetched[t][i] = m
      <4> SUFFICES ASSUME NEW i, inList(t, i)
                   PROVE  /\ i \in (Len(out[t]) + 1)..Len(list[t]) /\ i \in 1..Len(fetched[t])
                          /\ fetched[t][i] = m
        OBVIOUS
      <4>1. i \in 1..Len(list[t]) /\ list[t][i] = m
        BY <1>2
      <4>2. i \notin 1..Len(out[t])
        BY <1>2, <2>1, <4>1
      <4> QED
        BY <1>2, <2>1, <4>1, <4>2
    <3>3. \A i, j : ~(i \in 1..Len(out[t]) /\ i = j /\ j \in (Len(out[t]) + 1)..Len(list[t]))
      BY <1>2
    <3> HIDE DEF inList, inOut
    <3> QED
      BY <1>2, <3>1, <3>2, <3>3
  <2>2. CASE pc[t] = "next"
    BY <1>2, <2>2
  <2>3. CASE pc[t] = "fetched"
    BY <1>2, <2>3
  <2>4. CASE pc[t] \notin {"fetch", "next", "fetched"}
    BY <1>2, <2>4
  <2> QED
    BY <2>1, <2>2, <2>3, <2>4
<1>4. ASSUME NEW t \in Thread
      PROVE  m \in Held(t) <=> \/ inParam(t) \/ inRaw(t)
                               \/ (\E i : inList(t, i)) \/ (\E i : inOut(t, i))
  <2>1. m \in Elements(fetched[t]) <=> \E i \in 1..Len(fetched[t]) : fetched[t][i] = m
    BY <1>2, ElementsOf
  <2>2. m \in Elements(out[t]) <=> \E i : inOut(t, i)
    BY <1>2, ElementsOf
  <2>3. CASE pc[t] = "fetch"
    <3>1. \A i \in 1..Len(fetched[t]) : fetched[t][i] = m => inOut(t, i) \/ inList(t, i)
      <4> SUFFICES ASSUME NEW i \in 1..Len(fetched[t]), fetched[t][i] = m
                   PROVE  inOut(t, i) \/ inList(t, i)
        OBVIOUS
      <4>1. i \in 1..Len(out[t]) \/ i \in (Len(out[t]) + 1)..Len(list[t])
        BY <1>2, <2>3
      <4>2. CASE i \in 1..Len(out[t])
        BY <1>2, <2>3, <4>2
      <4>3. CASE i \in (Len(out[t]) + 1)..Len(list[t])
        <5>1. i \in 1..Len(list[t]) /\ list[t][i] = m
          BY <1>2, <2>3, <4>3
        <5> QED
          BY <1>2, <5>1
      <4> QED
        BY <4>1, <4>2, <4>3
    <3>2. \A i : inOut(t, i) => i \in 1..Len(fetched[t]) /\ fetched[t][i] = m
      BY <1>2, <2>3
    <3>3. \A i : inList(t, i) => i \in 1..Len(fetched[t]) /\ fetched[t][i] = m
      <4> SUFFICES ASSUME NEW i, inList(t, i)
                   PROVE  i \in 1..Len(fetched[t]) /\ fetched[t][i] = m
        OBVIOUS
      <4>1. i \in 1..Len(list[t]) /\ list[t][i] = m
        BY <1>2
      <4>2. i \notin 1..Len(out[t])
        BY <1>2, <2>3, <4>1
      <4> QED
        BY <1>2, <2>3, <4>1, <4>2
    <3>4. ~inParam(t) /\ ~inRaw(t) /\ Held(t) = Elements(fetched[t])
      BY <1>1, <2>3 DEF Held
    <3> HIDE DEF inList, inOut, inParam, inRaw
    <3> QED
      BY <2>1, <3>1, <3>2, <3>3, <3>4
  <2>4. CASE pc[t] = "next"
    <3>1. ~inParam(t) /\ ~inRaw(t) /\ Held(t) = Elements(fetched[t]) /\ \A i : ~inOut(t, i)
      BY <1>1, <2>4 DEF Held
    <3>2. \A i : inList(t, i) <=> i \in 1..Len(fetched[t]) /\ fetched[t][i] = m
      BY <1>2, <2>4
    <3> HIDE DEF inList, inOut, inParam, inRaw
    <3> QED
      BY <2>1, <3>1, <3>2
  <2>5. CASE pc[t] = "fetched"
    <3>1. ~inParam(t) /\ ~inRaw(t) /\ Held(t) = Elements(out[t]) /\ \A i : ~inList(t, i)
      BY <1>1, <2>5 DEF Held
    <3> HIDE DEF inList, inOut, inParam, inRaw
    <3> QED
      BY <2>2, <3>1
  <2>6. CASE pc[t] \notin {"fetch", "next", "fetched"}
    <3>1. \A i : ~inList(t, i) /\ ~inOut(t, i)
      BY <1>1, <2>6
    <3> HIDE DEF inList, inOut
    <3> QED
      BY <1>1, <2>6, <3>1 DEF Held
  <2> QED
    BY <2>3, <2>4, <2>5, <2>6
<1>5. /\ \A x : x \in Owners(m) <=>
           \/ \E v \in Var : x = <<"var", v>> /\ inVar(v)
           \/ \E t \in Thread : x = <<"param", t>> /\ inParam(t)
           \/ \E t \in Thread : x = <<"raw", t>> /\ inRaw(t)
           \/ \E t \in Thread : \E i : x = <<"list", t, i>> /\ inList(t, i)
           \/ \E t \in Thread : \E i : x = <<"out", t, i>> /\ inOut(t, i)
           \/ x = <<"queue">> /\ m \in queue
           \/ x = <<"given">> /\ m \in given
  <2> DEFINE vars_ == {<<"var", v>> : v \in {x \in Var : msg[x] = m}}
             params == {<<"param", t>> : t \in {x \in Thread : param[x] = m}}
             raws == {<<"raw", t>> : t \in {x \in Thread : raw[x] = m}}
             lists == UNION {{<<"list", t, i>> : i \in {j \in DOMAIN list[t] : list[t][j] = m}}
                              : t \in Thread}
             outs == UNION {{<<"out", t, i>> : i \in {j \in DOMAIN out[t] : out[t][j] = m}}
                             : t \in Thread}
             queues == {<<"queue">> : x \in queue \cap {m}}
             givens == {<<"given">> : x \in given \cap {m}}
  <2>1. Owners(m) = vars_ \cup params \cup raws \cup lists \cup outs \cup queues \cup givens
    BY DEF Owners
  <2>2. \A x : x \in vars_ <=> \E v \in Var : x = <<"var", v>> /\ inVar(v)
    OBVIOUS
  <2>3. \A x : x \in params <=> \E t \in Thread : x = <<"param", t>> /\ inParam(t)
    OBVIOUS
  <2>4. \A x : x \in raws <=> \E t \in Thread : x = <<"raw", t>> /\ inRaw(t)
    OBVIOUS
  <2>5. \A x : x \in lists <=> \E t \in Thread : \E i : x = <<"list", t, i>> /\ inList(t, i)
    OBVIOUS
  <2>6. \A x : x \in outs <=> \E t \in Thread : \E i : x = <<"out", t, i>> /\ inOut(t, i)
    OBVIOUS
  <2>7. \A x : x \in queues <=> x = <<"queue">> /\ m \in queue
    OBVIOUS
  <2>8. \A x : x \in givens <=> x = <<"given">> /\ m \in given
    OBVIOUS
  <2> HIDE DEF vars_, params, raws, lists, outs, queues, givens, inVar, inParam, inRaw, inList, inOut
  <2> QED
    BY <2>1, <2>2, <2>3, <2>4, <2>5, <2>6, <2>7, <2>8, Zenon
<1>6. /\ Accounted(Calls) /\ Apart(Calls)
      /\ \A t \in Thread : Calls[t] = Held(t)
  BY DEF IInv, Calls
<1> HIDE DEF inVar, inParam, inRaw, inList, inOut
<1>7. (Owners(m) # {}) <=> m \in heap
  <2>1. Owners(m) # {} <=> \/ \E v \in Var : inVar(v)
                           \/ \E t \in Thread : m \in Held(t)
                           \/ m \in queue \/ m \in given
    BY <1>4, <1>5
  <2> QED
    BY <1>6, <2>1 DEF Accounted, inVar
<1>8. ASSUME NEW x \in Owners(m), NEW y \in Owners(m)
      PROVE  x = y
  <2>1. \A t, u \in Thread : m \in Held(t) /\ m \in Held(u) => t = u
    BY <1>6 DEF Apart
  <2>2. \A v \in Var : inVar(v) => m \notin queue /\ m \notin given /\ \A t \in Thread : m \notin Held(t)
    BY <1>6 DEF Apart, inVar
  <2>3. \A t \in Thread : m \in Held(t) => m \notin queue /\ m \notin given
    BY <1>6 DEF Apart
  <2>4. \A v, w \in Var : inVar(v) /\ inVar(w) => v = w
    BY <1>6 DEF Apart, inVar
  <2>5. ~(m \in queue /\ m \in given)
    BY <1>6 DEF Apart
  <2>6. \A t \in Thread : /\ ~(inParam(t) /\ inRaw(t))
                          /\ \A i : ~(inParam(t) /\ inList(t, i)) /\ ~(inParam(t) /\ inOut(t, i))
                          /\ \A i : ~(inRaw(t) /\ inList(t, i)) /\ ~(inRaw(t) /\ inOut(t, i))
    BY <1>1
  <2> DEFINE held(z, t) == \/ z = <<"param", t>> /\ inParam(t)
                           \/ z = <<"raw", t>> /\ inRaw(t)
                           \/ \E i : z = <<"list", t, i>> /\ inList(t, i)
                           \/ \E i : z = <<"out", t, i>> /\ inOut(t, i)
  <2>7. ASSUME NEW t \in Thread, held(x, t), held(y, t)
        PROVE  x = y
    BY <1>3, <2>6, <2>7
  <2>8. ASSUME NEW z \in Owners(m)
        PROVE  \/ \E v \in Var : z = <<"var", v>> /\ inVar(v)
               \/ \E t \in Thread : held(z, t) /\ m \in Held(t)
               \/ z = <<"queue">> /\ m \in queue
               \/ z = <<"given">> /\ m \in given
    BY <1>4, <1>5
  <2> HIDE DEF held
  <2> QED
    BY <2>1, <2>2, <2>3, <2>4, <2>5, <2>7, <2>8
<1> QED
  BY <1>7, <1>8

\* Every message that exists has an owner, one, and no other message has any.
THEOREM DestroyedOnce == Spec => []OneOwner
<1>1. IInv => OneOwner
  <2> SUFFICES ASSUME IInv PROVE NoLeak /\ NoDoubleOwner /\ NoDangling
    BY DEF OneOwner
  <2>1. NoLeak /\ NoDangling
    BY OwnersOf DEF NoLeak, NoDangling, IInv, TypeOK
  <2>2. ASSUME NEW m \in Msg
        PROVE  Cardinality(Owners(m)) <= 1
    <3>1. CASE Owners(m) = {}
      BY <3>1, FS_EmptySet
    <3>2. ASSUME NEW x \in Owners(m)
          PROVE  Cardinality(Owners(m)) <= 1
      <4>1. Owners(m) = {x}
        BY <3>2, OwnersOf
      <4> QED
        BY <4>1, FS_Singleton
    <3> QED
      BY <3>1, <3>2
  <2> QED
    BY <2>1, <2>2 DEF NoDoubleOwner
<1> QED
  BY <1>1, Invariance, PTL
=============================================================================
