-------------------------- MODULE MessageOwnership --------------------------
(***************************************************************************)
(* Who has to destroy a natsMsg.  nats.c owns the messages it has queued;  *)
(* a natscpp::message owns what it wraps; in between a message travels as  *)
(* a raw pointer: as the argument of async_msg_callback, in the            *)
(* natsMsgList of a fetch, or released from its wrapper while              *)
(* natsConnection_PublishMsg, natsConnection_RequestMsg or js_PublishMsg   *)
(* reads it.                                                               *)
(*                                                                         *)
(* Each thread runs one call of the library (or one handler) at a time.    *)
(***************************************************************************)
EXTENDS Naturals, Sequences, FiniteSets

CONSTANTS Msg,     \* natsMsg objects that exist at one time
          Var,     \* variables of type natscpp::message
          Thread,  \* application and dispatcher threads
          Batch,   \* largest batch a program fetches
          None     \* nullptr

ASSUME ConstantsAssumption ==
  /\ None \notin Msg
  /\ Batch \in Nat \ {0}

VARIABLES heap,    \* messages allocated and not destroyed
          queue,   \* [SUBSET Msg]  messages nats.c has queued
          msg,     \* [Var -> Msg or None]     message::msg_
          pc,      \* [Thread -> the call it is in]
          param,   \* [Thread -> Msg or None]  by-value message of that call
          raw,     \* [Thread -> Msg or None]  pointer released from it
          list,    \* [Thread -> Seq(Msg or None)]  natsMsgList of a fetch
          out,     \* [Thread -> Seq(Msg)]  the vector the fetch returns
          fetched, \* [Thread -> Seq(Msg)]  what nats.c put into the list
          given    \* messages the program holds as raw pointers

vars == <<heap, queue, msg, pc, param, raw, list, out, fetched, given>>
fetch == <<list, out, fetched>>

Init ==
  /\ heap = {} /\ queue = {} /\ given = {}
  /\ msg = [v \in Var |-> None]
  /\ pc = [t \in Thread |-> "idle"]
  /\ param = [t \in Thread |-> None]
  /\ raw = [t \in Thread |-> None]
  /\ list = [t \in Thread |-> <<>>]
  /\ out = [t \in Thread |-> <<>>]
  /\ fetched = [t \in Thread |-> <<>>]

-----------------------------------------------------------------------------
Elements(s) == {s[i] : i \in DOMAIN s} \ {None}

\* natsMsg_Destroy of every message in S (null pointers are skipped).
Destroy(S) == heap' = heap \ S

\* The values v holds after m is moved into it; what it held is destroyed.
Into(v, m) == msg' = [msg EXCEPT ![v] = m]

-----------------------------------------------------------------------------
(* Where messages come from                                                *)

\* A message arrives and nats.c queues it.
Arrive(m) ==
  /\ m \notin heap
  /\ heap' = heap \cup {m}
  /\ queue' = queue \cup {m}
  /\ UNCHANGED <<msg, pc, param, raw, fetch, given>>

\* A native call makes a message and v takes it: request_sync(), request_string(),
\* message::create(), get_msg() or get_last_msg().
NewMessage(v, m) ==
  /\ m \notin heap
  /\ heap' = (heap \cup {m}) \ {msg[v]}
  /\ Into(v, m)
  /\ UNCHANGED <<queue, pc, param, raw, fetch, given>>

\* v = sub.next_message(timeout), or a push consumer's next(); a timeout throws
\* and takes nothing.
NextMessage(v, m) ==
  /\ m \in queue
  /\ queue' = queue \ {m}
  /\ Destroy({msg[v]})
  /\ Into(v, m)
  /\ UNCHANGED <<pc, param, raw, fetch, given>>

-----------------------------------------------------------------------------
(* message objects                                                         *)

\* v = std::move(w)
Assign(v, w) ==
  /\ v # w
  /\ Destroy({msg[v]})
  /\ msg' = [msg EXCEPT ![v] = msg[w], ![w] = None]
  /\ UNCHANGED <<queue, pc, param, raw, fetch, given>>

\* ~message()
Drop(v) ==
  /\ msg[v] # None
  /\ Destroy({msg[v]})
  /\ Into(v, None)
  /\ UNCHANGED <<queue, pc, param, raw, fetch, given>>

\* release(): the program has to destroy the message now ...
Release(v) ==
  /\ msg[v] # None
  /\ given' = given \cup {msg[v]}
  /\ Into(v, None)
  /\ UNCHANGED <<heap, queue, pc, param, raw, fetch>>

\* ... and does.
GivenDestroyed(m) ==
  /\ m \in given
  /\ given' = given \ {m}
  /\ Destroy({m})
  /\ UNCHANGED <<queue, msg, pc, param, raw, fetch>>

-----------------------------------------------------------------------------
(* async_msg_callback                                                      *)

\* (*fn)(message{msg})
Dispatch(t, m) ==
  /\ pc[t] = "idle" /\ m \in queue
  /\ queue' = queue \ {m}
  /\ param' = [param EXCEPT ![t] = m]
  /\ pc' = [pc EXCEPT ![t] = "handler"]
  /\ UNCHANGED <<heap, msg, raw, fetch, given>>

\* The handler moves its argument out.
HandlerKeeps(t, v) ==
  /\ pc[t] = "handler"
  /\ Destroy({msg[v]})
  /\ Into(v, param[t])
  /\ param' = [param EXCEPT ![t] = None]
  /\ UNCHANGED <<queue, pc, raw, fetch, given>>

\* Mutant: the argument is destroyed through its raw pointer only.
HandlerEndsDangling(t) ==
  /\ pc[t] = "handler"
  /\ Destroy({param[t]})
  /\ pc' = [pc EXCEPT ![t] = "idle"]
  /\ UNCHANGED <<queue, msg, param, raw, fetch, given>>

\* The handler returns or throws; either way its argument is destroyed.
HandlerEnds(t) ==
  /\ pc[t] = "handler"
  /\ Destroy({param[t]})
  /\ param' = [param EXCEPT ![t] = None]
  /\ pc' = [pc EXCEPT ![t] = "idle"]
  /\ UNCHANGED <<queue, msg, raw, fetch, given>>

-----------------------------------------------------------------------------
(* publish(message), publish_msg(message) and request(message)             *)

\* The argument is moved in and released from its wrapper at once.
Send(t, v) ==
  /\ pc[t] = "idle"
  /\ raw' = [raw EXCEPT ![t] = msg[v]]
  /\ Into(v, None)
  /\ pc' = [pc EXCEPT ![t] = "sending"]
  /\ UNCHANGED <<heap, queue, param, fetch, given>>

\* Mutant: the error is thrown before natsMsg_Destroy(raw).
SendEndsEarly(t) ==
  /\ pc[t] = "sending"
  /\ raw' = [raw EXCEPT ![t] = None]
  /\ pc' = [pc EXCEPT ![t] = "idle"]
  /\ UNCHANGED <<heap, queue, msg, param, fetch, given>>

\* nats.c, which does not take the message, returns NATS_OK or an error (always
\* an error for an empty message).  The message is destroyed before an error is
\* thrown.
SendEnds(t) ==
  /\ pc[t] = "sending"
  /\ Destroy({raw[t]})
  /\ raw' = [raw EXCEPT ![t] = None]
  /\ pc' = [pc EXCEPT ![t] = "idle"]
  /\ UNCHANGED <<queue, msg, param, fetch, given>>

\* request(message): a reply comes with NATS_OK.
Reply(t, v, m) ==
  /\ pc[t] = "sending" /\ raw[t] # None /\ m \notin heap
  /\ heap' = (heap \cup {m}) \ {raw[t], msg[v]}
  /\ Into(v, m)
  /\ raw' = [raw EXCEPT ![t] = None]
  /\ pc' = [pc EXCEPT ![t] = "idle"]
  /\ UNCHANGED <<queue, param, fetch, given>>

-----------------------------------------------------------------------------
(* fetch, fetch_request, and next() of a pull consumer                     *)

\* natsSubscription_Fetch fills the list; call is what the thread is in.
Fetch(t, call, s) ==
  /\ pc[t] = "idle"
  /\ Elements(s) \subseteq queue
  /\ \A i, j \in DOMAIN s : s[i] = s[j] => i = j
  /\ queue' = queue \ Elements(s)
  /\ list' = [list EXCEPT ![t] = s]
  /\ fetched' = [fetched EXCEPT ![t] = s]
  /\ pc' = [pc EXCEPT ![t] = call]
  /\ UNCHANGED <<heap, msg, param, raw, out, given>>

FetchBatch(t, s) == Fetch(t, "fetch", s)
FetchOne(t, s) == Len(s) <= 1 /\ Fetch(t, "next", s)

\* Mutant: the vector is filled from the end of the list.
TakeFromListEnd(t) ==
  /\ pc[t] = "fetch" /\ Len(out[t]) < Len(list[t])
  /\ LET i == Len(list[t]) - Len(out[t]) IN
     /\ out' = [out EXCEPT ![t] = Append(@, list[t][i])]
     /\ list' = [list EXCEPT ![t][i] = None]
  /\ UNCHANGED <<heap, queue, msg, pc, param, raw, fetched, given>>

\* out.emplace_back(list.Msgs[i]); list.Msgs[i] = nullptr;
TakeFromList(t) ==
  /\ pc[t] = "fetch" /\ Len(out[t]) < Len(list[t])
  /\ LET i == Len(out[t]) + 1 IN
     /\ out' = [out EXCEPT ![t] = Append(@, list[t][i])]
     /\ list' = [list EXCEPT ![t][i] = None]
  /\ UNCHANGED <<heap, queue, msg, pc, param, raw, fetched, given>>

\* list_guard: natsMsgList_Destroy destroys what is left in the list, when the
\* loop is over or when out.reserve threw before it.
FetchEnds(t) ==
  /\ pc[t] = "fetch"
  /\ Len(out[t]) \in {0, Len(list[t])}
  /\ Destroy(Elements(list[t]))
  /\ list' = [list EXCEPT ![t] = <<>>]
  /\ pc' = [pc EXCEPT ![t] = "fetched"]
  /\ UNCHANGED <<queue, msg, param, raw, out, fetched, given>>

\* The program moves the first result out of the vector ...
TakeResult(t, v) ==
  /\ pc[t] = "fetched" /\ out[t] # <<>>
  /\ Destroy({msg[v]})
  /\ Into(v, Head(out[t]))
  /\ out' = [out EXCEPT ![t] = Tail(@)]
  /\ fetched' = [fetched EXCEPT ![t] = Tail(@)]
  /\ UNCHANGED <<queue, pc, param, raw, list, given>>

\* ... or destroys the vector.
DropResults(t) ==
  /\ pc[t] = "fetched"
  /\ Destroy(Elements(out[t]))
  /\ out' = [out EXCEPT ![t] = <<>>]
  /\ fetched' = [fetched EXCEPT ![t] = <<>>]
  /\ pc' = [pc EXCEPT ![t] = "idle"]
  /\ UNCHANGED <<queue, msg, param, raw, list, given>>

\* js_pull_consumer::next: an empty list is an error (NATS_TIMEOUT), otherwise
\* the first message is taken out of the list before list_guard destroys it.
PullNext(t, v) ==
  /\ pc[t] = "next" /\ list[t] # <<>>
  /\ heap' = heap \ ({msg[v]} \cup Elements(Tail(list[t])))
  /\ Into(v, Head(list[t]))
  /\ list' = [list EXCEPT ![t] = <<>>]
  /\ fetched' = [fetched EXCEPT ![t] = <<>>]
  /\ pc' = [pc EXCEPT ![t] = "idle"]
  /\ UNCHANGED <<queue, param, raw, out, given>>

PullTimeout(t) ==
  /\ pc[t] = "next" /\ list[t] = <<>>
  /\ pc' = [pc EXCEPT ![t] = "idle"]
  /\ UNCHANGED <<heap, queue, msg, param, raw, fetch, given>>

-----------------------------------------------------------------------------
Lists == UNION {[1 .. n -> Msg] : n \in 0 .. Batch}

Next ==
  \/ \E m \in Msg : Arrive(m) \/ GivenDestroyed(m)
  \/ \E v \in Var, m \in Msg : NewMessage(v, m) \/ NextMessage(v, m)
  \/ \E v, w \in Var : Assign(v, w)
  \/ \E v \in Var : Drop(v) \/ Release(v)
  \/ \E t \in Thread, m \in Msg : Dispatch(t, m)
  \/ \E t \in Thread, v \in Var : \/ HandlerKeeps(t, v) \/ Send(t, v)
                                  \/ TakeResult(t, v) \/ PullNext(t, v)
  \/ \E t \in Thread, v \in Var, m \in Msg : Reply(t, v, m)
  \/ \E t \in Thread, s \in Lists : FetchBatch(t, s) \/ FetchOne(t, s)
  \/ \E t \in Thread : \/ HandlerEnds(t) \/ SendEnds(t)
                       \/ TakeFromList(t) \/ FetchEnds(t) \/ DropResults(t)
                       \/ PullTimeout(t)

Spec == Init /\ [][Next]_vars

-----------------------------------------------------------------------------
(* Properties                                                              *)

TypeOK ==
  /\ heap \subseteq Msg /\ queue \subseteq Msg /\ given \subseteq Msg
  /\ msg \in [Var -> Msg \cup {None}]
  /\ pc \in [Thread -> {"idle", "handler", "sending", "fetch", "fetched", "next"}]
  /\ param \in [Thread -> Msg \cup {None}]
  /\ raw \in [Thread -> Msg \cup {None}]
  /\ list \in [Thread -> Seq(Msg \cup {None})]
  /\ out \in [Thread -> Seq(Msg)] /\ fetched \in [Thread -> Seq(Msg)]
  /\ \A t \in Thread :
       /\ Len(list[t]) <= Batch /\ Len(out[t]) <= Batch
       /\ pc[t] # "handler" => param[t] = None
       /\ pc[t] # "sending" => raw[t] = None
       /\ pc[t] \notin {"fetch", "next"} => list[t] = <<>>

\* Everything that will destroy message m, or hand it on.
Owners(m) ==
  {<<"var", v>> : v \in {x \in Var : msg[x] = m}}
  \cup {<<"param", t>> : t \in {x \in Thread : param[x] = m}}
  \cup {<<"raw", t>> : t \in {x \in Thread : raw[x] = m}}
  \cup (UNION {{<<"list", t, i>> : i \in {j \in DOMAIN list[t] : list[t][j] = m}}
                : t \in Thread})
  \cup (UNION {{<<"out", t, i>> : i \in {j \in DOMAIN out[t] : out[t][j] = m}}
                : t \in Thread})
  \cup {<<"queue">> : x \in queue \cap {m}} \cup {<<"given">> : x \in given \cap {m}}

\* Every message that exists is destroyed by exactly one owner, on every path
\* through publish, request, fetch and the message callback, failing ones
\* included: no leak.
NoLeak == \A m \in heap : Owners(m) # {}

\* ... and no second owner: no double destruction.
NoDoubleOwner == \A m \in Msg : Cardinality(Owners(m)) <= 1

\* ... and nobody holds a message that was destroyed: a pointer that nats.c
\* reads, or that a list or a vector still contains, is valid.
NoDangling == \A m \in Msg : Owners(m) # {} => m \in heap

\* So each message is destroyed once, when nobody needs it any more.
OneOwner == NoLeak /\ NoDoubleOwner /\ NoDangling

\* A fetch that succeeds returns the messages in the order nats.c delivered
\* them, none left out and none repeated.
FetchKeepsOrder ==
  \A t \in Thread :
    /\ pc[t] = "fetch" => \A i \in DOMAIN fetched[t] :
         fetched[t][i] = IF i <= Len(out[t]) THEN out[t][i] ELSE list[t][i]
    /\ pc[t] = "fetched" /\ out[t] # <<>> => out[t] = fetched[t]
=============================================================================
