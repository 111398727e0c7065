---------------------------- MODULE CoreRpcProofs ----------------------------
(***************************************************************************)
(* TLAPS proofs about the agent's calls to xnc-core: an answer is taken by *)
(* the call it belongs to, and a secure attention sequence that is         *)
(* reported was sent.                                                      *)
(***************************************************************************)
EXTENDS CoreRpc, SequenceTheorems, TLAPS

USE CoreAssumption

Request == [id : Nat, op : Op, by : Caller]
Answer == [op : Op, id : Nat, by : Caller, ok : BOOLEAN]
CallRec == [conn : Conn \cup {Nil}, id : Nat, op : Op \cup {Nil},
            res : {Nil, "ok", "rejected", "err"}, from : Answer \cup {Nil}]

\* The table of a connection: each id is of the call that waits for it.
TableTyped ==
    /\ open \in [Conn -> {"none", "open", "closed", "dead"}] /\ reqID \in [Conn -> Nat]
    /\ call \in [Caller -> CallRec] /\ DOMAIN pending = Conn
    /\ inbox \in [Conn -> Seq(Request)] /\ outbox \in [Conn -> Seq(Answer)]
TableKept ==
    \A c \in Conn :
        /\ pending[c] \in [DOMAIN pending[c] -> Caller] /\ DOMAIN pending[c] \subseteq 1..reqID[c]
        /\ open[c] # "open" => pending[c] = <<>>
        /\ \A i \in DOMAIN pending[c] :
              LET x == pending[c][i] IN call[x].conn = c /\ call[x].id = i /\ call[x].res = Nil

\* A message has an id that was given, and is of the call that waits for that id:
\* with the last id of its connection, the connection's table, and the calls.
\* Only a request for the sequence asks for it.
Matches(last, table, calls, m) ==
    /\ m.id \in 1..last
    /\ m.id \in DOMAIN table => m.by = table[m.id] /\ m.op = calls[m.by].op
    /\ m.op = "sas" => m.by \in Sas
MessagesMatch ==
    \A c \in Conn :
        /\ \A i \in 1..Len(inbox[c]) : Matches(reqID[c], pending[c], call, inbox[c][i])
        /\ \A i \in 1..Len(outbox[c]) : Matches(reqID[c], pending[c], call, outbox[c][i])

\* An answer that says that the sequence was sent is right, as is who took it.
SentRight ==
    /\ \A c \in Conn : \A i \in 1..Len(outbox[c]) :
          outbox[c][i].op = "sas" /\ outbox[c][i].ok => outbox[c][i].by \in attended
    /\ \A x \in Caller : call[x].op = "sas" /\ call[x].res = "ok" => x \in attended

TableInv == TableTyped /\ TableKept /\ MessagesMatch /\ SentRight /\ AnswerIsOwn

\* Who waits stands in a call, so that nobody makes a call before the last returned.
InCall == {"ping", "starting", "stopping", "sending"}
Waiting == {x \in Caller : \E c \in Conn : \E i \in DOMAIN pending[c] : pending[c][i] = x}
WaitersStand == \A x \in Waiting : pc[x] \in InCall

\* Who makes a call has a connection, and who pings holds the mutex.
Connected ==
    /\ \A d \in Desk : pc[d] \in {"ping", "dial"} => mu = d
    /\ \A d \in Desk : pc[d] = "ping" => client \in Conn
    /\ \A x \in Caller : pc[x] \in {"start", "starting", "stop", "stopping", "sending"} => mine[x] \in Conn

\* The result is right on its whole way to the server.
SaysSent ==
    \A k \in Sas :
        /\ pc[k] \in {"new", "dial", "start", "sending", "ended"}
        /\ pc[k] = "sending" => call[k].op = "sas"
        /\ <<k, "ok">> \in results => k \in attended
        /\ box[k] = "ok" => k \in attended
        /\ http[k] = "ok" => k \in attended
        /\ http[k] = "idle" => k \notin waiters /\ box[k] = Nil /\ pc[k] = "new"

\* The waiter is in the map while the server's handler waits and has no answer.
WaiterKnown == \A k \in Sas : k \in waiters => http[k] = "waiting" /\ box[k] = Nil

\* The types of the variables that are not a connection's.
OtherTypes ==
    /\ pc \in [Caller -> {"new", "ping", "dial", "start", "starting", "record", "serving", "release",
                          "stop", "stopping", "sending", "ended"}]
    /\ mine \in [Caller -> Conn \cup {Nil}] /\ mu \in Desk \cup {Nil} /\ client \in Conn \cup {Nil}
    /\ sessions \subseteq Desk
    /\ host \in BOOLEAN /\ attended \subseteq Sas /\ waiters \subseteq Sas
    /\ http \in [Sas -> {"idle", "waiting", "ok", "rejected", "timeout", "undelivered"}]
    /\ box \in [Sas -> {Nil, "ok", "rejected"}] /\ results \subseteq Sas \X {"ok", "rejected"}
    /\ coreFaults \in 0..MaxCoreFaults

CoreInv == TableInv /\ OtherTypes /\ WaitersStand /\ Connected /\ SaysSent /\ WaiterKnown

-----------------------------------------------------------------------------
LEMMA TypeSplit == TableInv /\ OtherTypes => CoreTypeOK
<1> SUFFICES ASSUME TableInv, OtherTypes PROVE CoreTypeOK
  OBVIOUS
<1>1. \A c \in Conn : Range(pending[c]) \subseteq Caller
  BY DEF TableInv, TableKept, Range
<1>2. \A x \in Caller : call[x].op \in Op \cup {Nil} /\ call[x].res \in {Nil, "ok", "rejected", "err"}
  BY DEF TableInv, TableTyped, CallRec
<1> QED BY <1>1, <1>2 DEF CoreTypeOK, OtherTypes, TableInv, TableTyped, TableKept

LEMMA EmptyTable == <<>> \in [DOMAIN <<>> -> Caller] /\ DOMAIN <<>> = {}
<1>1. <<>> \in Seq(Caller) /\ Len(<<>>) = 0
  OBVIOUS
<1>2. <<>> \in [1..0 -> Caller] /\ 1..0 = {}
  BY <1>1
<1> QED BY <1>2

LEMMA CallTypes ==
    /\ NoCall \in CallRec /\ NoCall.op = Nil /\ NoCall.from = Nil
    /\ \A c \in Conn, i \in Nat, o \in Op, r \in {Nil, "ok", "rejected", "err"} :
          LET y == [conn |-> c, id |-> i, op |-> o, res |-> r, from |-> Nil]
          IN y \in CallRec /\ y.conn = c /\ y.id = i /\ y.op = o /\ y.res = r /\ y.from = Nil
    /\ \A y \in CallRec : LET z == [y EXCEPT !.res = "err"] IN
          z \in CallRec /\ z.op = y.op /\ z.from = y.from /\ z.res = "err" /\ z.conn = y.conn /\ z.id = y.id
BY DEF NoCall, CallRec

LEMMA InitCore == CoreInit => CoreInv
<1> SUFFICES ASSUME CoreInit PROVE CoreInv
  OBVIOUS
<1>1. \A x \in Caller : call[x] = NoCall
  BY DEF CoreInit
<1>2. \A c \in Conn : pending[c] = <<>> /\ DOMAIN pending[c] = {} /\ inbox[c] = <<>> /\ outbox[c] = <<>>
  BY DEF CoreInit
<1>3. TableTyped /\ TableKept
  <2>1. <<>> \in Seq(Request) /\ <<>> \in Seq(Answer)
    OBVIOUS
  <2>2. call \in [Caller -> CallRec]
    BY CallTypes DEF CoreInit
  <2> QED BY <1>2, <2>1, <2>2, EmptyTable DEF CoreInit, TableTyped, TableKept
<1>4. MessagesMatch /\ SentRight /\ AnswerIsOwn
  <2>1. MessagesMatch
    BY <1>2 DEF MessagesMatch
  <2>2. SentRight
    BY <1>1, <1>2, CallTypes DEF SentRight
  <2>3. AnswerIsOwn
    BY <1>1, CallTypes DEF AnswerIsOwn
  <2> QED BY <2>1, <2>2, <2>3
<1>5. OtherTypes
  <2>1. coreFaults \in 0..MaxCoreFaults
    BY DEF CoreInit
  <2>2. host \in BOOLEAN
    BY DEF CoreInit
  <2> QED BY <2>1, <2>2 DEF CoreInit, OtherTypes
<1>6. WaitersStand /\ Connected /\ SaysSent /\ WaiterKnown
  <2>1. \A x \in Caller : pc[x] = "new"
    BY DEF CoreInit
  <2>2. Waiting = {}
    BY <1>2 DEF Waiting
  <2>3. Connected /\ WaitersStand
    BY <2>1, <2>2 DEF Connected, WaitersStand, Caller
  <2> QED BY <2>1, <2>3 DEF CoreInit, SaysSent, WaiterKnown, Caller
<1>7. TableInv
  BY <1>3, <1>4 DEF TableInv
<1> QED BY <1>5, <1>6, <1>7 DEF CoreInv

-----------------------------------------------------------------------------
(* The operations of a connection keep its table. *)

LEMMA RoundTripKeeps ==
    ASSUME TableInv, NEW x \in Caller, x \notin Waiting, NEW c \in Conn, NEW o \in Op, RoundTrip(x, c, o),
           o = "sas" => x \in Sas, attended' = attended
    PROVE  /\ TableInv' /\ Waiting' \subseteq Waiting \cup {x} /\ call'[x].op = o
           /\ \A z \in Caller : z # x => call'[z].op = call[z].op
<1> USE DEF TableInv
<1>t. TableTyped /\ TableKept /\ call \in [Caller -> CallRec] /\ c \in DOMAIN pending
  BY DEF TableTyped
<1>1. CASE open[c] = "open"
  <2>0. PICK id \in Nat : id = reqID[c] + 1
    BY DEF TableTyped
  <2> DEFINE y == [conn |-> c, id |-> id, op |-> o, res |-> Nil, from |-> Nil]
             m == [id |-> id, op |-> o, by |-> x]
             p == [i \in DOMAIN pending[c] \cup {id} |-> IF i = id THEN x ELSE pending[c][i]]
  <2>1. /\ reqID' = [reqID EXCEPT ![c] = id] /\ pending' = [pending EXCEPT ![c] = p]
        /\ inbox' = [inbox EXCEPT ![c] = Append(@, m)] /\ call' = [call EXCEPT ![x] = y]
        /\ UNCHANGED <<open, outbox>>
    BY <1>1, <2>0 DEF RoundTrip, NextId
  <2>i. id \in Nat /\ reqID[c] \in Nat /\ id \notin 1..reqID[c] /\ id \in 1..id /\ 1..reqID[c] \subseteq 1..id
    BY <2>0 DEF TableTyped
  <2>y. /\ y \in CallRec /\ y.conn = c /\ y.id = id /\ y.op = o /\ y.res = Nil /\ y.from = Nil
    BY <2>i, CallTypes
  <2>m. m \in Request /\ m.id = id /\ m.by = x /\ m.op = o
    BY <2>i DEF Request
  <2>p. /\ DOMAIN p = DOMAIN pending[c] \cup {id} /\ p[id] = x /\ p \in [DOMAIN p -> Caller]
        /\ \A i \in DOMAIN pending[c] : i # id /\ p[i] = pending[c][i] /\ p[i] # x
    BY <2>i DEF TableKept, Waiting
  <2> HIDE DEF y, m, p
  <2>2. /\ call' \in [Caller -> CallRec] /\ call'[x] = y
        /\ \A z \in Caller : z # x => call'[z] = call[z]
    BY <1>t, <2>1, <2>y
  <2>3. /\ DOMAIN pending' = Conn /\ pending'[c] = p
        /\ \A e \in Conn : e # c => pending'[e] = pending[e] /\ reqID'[e] = reqID[e] /\ inbox'[e] = inbox[e]
        /\ reqID' \in [Conn -> Nat] /\ reqID'[c] = id
    BY <2>1, <2>i DEF TableTyped
  <2>4. /\ inbox' \in [Conn -> Seq(Request)] /\ inbox'[c] = Append(inbox[c], m)
        /\ Len(inbox'[c]) = Len(inbox[c]) + 1 /\ inbox'[c][Len(inbox[c]) + 1] = m
        /\ \A i \in 1..Len(inbox[c]) : inbox'[c][i] = inbox[c][i]
    <3>1. inbox[c] \in Seq(Request)
      BY DEF TableTyped
    <3>2. inbox'[c] = Append(inbox[c], m)
      BY <2>1 DEF TableTyped
    <3> QED BY <2>1, <2>m, <3>1, <3>2, AppendProperties DEF TableTyped
  <2>5. TableTyped'
    BY <2>1, <2>2, <2>3, <2>4 DEF TableTyped
  <2>6. TableKept'
    <3> SUFFICES ASSUME NEW e \in Conn
                 PROVE  /\ pending'[e] \in [DOMAIN pending'[e] -> Caller] /\ DOMAIN pending'[e] \subseteq 1..reqID'[e]
                        /\ open[e] # "open" => pending'[e] = <<>>
                        /\ \A i \in DOMAIN pending'[e] :
                              LET z == pending'[e][i] IN call'[z].conn = e /\ call'[z].id = i /\ call'[z].res = Nil
      BY <2>1 DEF TableKept
    <3>1. CASE e = c
      <4>1. pending'[c] = p /\ DOMAIN p \subseteq 1..reqID'[c] /\ p \in [DOMAIN p -> Caller]
        BY <2>3, <2>i, <2>p DEF TableKept
      <4>2. ASSUME NEW i \in DOMAIN p
            PROVE  call'[p[i]].conn = c /\ call'[p[i]].id = i /\ call'[p[i]].res = Nil
        <5>1. CASE i = id
          BY <2>2, <2>p, <2>y, <5>1
        <5>2. CASE i # id
          <6>1. i \in DOMAIN pending[c] /\ p[i] = pending[c][i] /\ p[i] # x /\ p[i] \in Caller
            BY <2>p, <5>2
          <6>2. call'[p[i]] = call[pending[c][i]]
            BY <2>2, <6>1
          <6> QED BY <6>1, <6>2 DEF TableKept
        <5> QED BY <5>1, <5>2
      <4> QED BY <1>1, <3>1, <4>1, <4>2
    <3>2. CASE e # c
      <4>1. pending'[e] = pending[e] /\ reqID'[e] = reqID[e]
        BY <2>3, <3>2
      <4>2. \A i \in DOMAIN pending[e] : pending[e][i] \in Caller /\ pending[e][i] # x
        BY DEF TableKept, Waiting
      <4> QED BY <4>1, <4>2, <2>2 DEF TableKept
    <3> QED BY <3>1, <3>2
  <2>7. ASSUME NEW e \in Conn, NEW n, Matches(reqID[e], pending[e], call, n)
        PROVE  Matches(reqID'[e], pending'[e], call', n)
    <3>1. n.id \in 1..reqID'[e]
      BY <2>7, <2>i, <2>3 DEF Matches
    <3>2. ASSUME n.id \in DOMAIN pending'[e]
          PROVE  n.id \in DOMAIN pending[e] /\ pending'[e][n.id] = pending[e][n.id]
      BY <2>7, <3>2, <2>i, <2>p, <2>3 DEF Matches
    <3>3. \A i \in DOMAIN pending[e] : pending[e][i] \in Caller /\ pending[e][i] # x
      BY DEF TableKept, Waiting
    <3> QED BY <2>7, <3>1, <3>2, <3>3, <2>2 DEF Matches
  <2>8. Matches(reqID'[c], pending'[c], call', m)
    BY <2>m, <2>i, <2>3, <2>p, <2>2, <2>y DEF Matches
  <2>9. MessagesMatch'
    <3> SUFFICES ASSUME NEW e \in Conn
                 PROVE  /\ \A i \in 1..Len(inbox'[e]) : Matches(reqID'[e], pending'[e], call', inbox'[e][i])
                        /\ \A i \in 1..Len(outbox[e]) : Matches(reqID'[e], pending'[e], call', outbox[e][i])
      BY <2>1 DEF MessagesMatch
    <3>1. \A i \in 1..Len(outbox[e]) : Matches(reqID'[e], pending'[e], call', outbox[e][i])
      BY <2>7 DEF MessagesMatch
    <3>2. \A i \in 1..Len(inbox[e]) : Matches(reqID'[e], pending'[e], call', inbox[e][i])
      BY <2>7 DEF MessagesMatch
    <3>3. CASE e # c
      BY <3>1, <3>2, <3>3, <2>3
    <3>4. CASE e = c
      <4>1. \A i \in 1..Len(inbox'[c]) : i = Len(inbox[c]) + 1 \/ i \in 1..Len(inbox[c])
        BY <2>4 DEF TableTyped
      <4> QED BY <3>1, <3>2, <3>4, <4>1, <2>4, <2>8
    <3> QED BY <3>3, <3>4
  <2>10. SentRight' /\ AnswerIsOwn'
    <3>1. SentRight'
      BY <2>1, <2>2, <2>y DEF SentRight
    <3>2. AnswerIsOwn'
      BY <2>2, <2>y DEF AnswerIsOwn
    <3> QED BY <3>1, <3>2
  <2>11. Waiting' \subseteq Waiting \cup {x}
    <3> SUFFICES ASSUME NEW e \in Conn, NEW i \in DOMAIN pending'[e], pending'[e][i] # x
                 PROVE  i \in DOMAIN pending[e] /\ pending'[e][i] = pending[e][i]
      BY DEF Waiting
    <3> QED BY <2>3, <2>p
  <2> QED BY <2>2, <2>y, <2>5, <2>6, <2>9, <2>10, <2>11
<1>2. CASE open[c] # "open"
  <2> DEFINE y == [conn |-> c, id |-> 0, op |-> o, res |-> "err", from |-> Nil]
  <2>1. call' = [call EXCEPT ![x] = y] /\ UNCHANGED rpc
    BY <1>2 DEF RoundTrip
  <2>y. y \in CallRec /\ y.op = o /\ y.res = "err" /\ y.from = Nil
    BY CallTypes
  <2> HIDE DEF y
  <2>2. /\ call' \in [Caller -> CallRec] /\ call'[x] = y
        /\ \A z \in Caller : z # x => call'[z] = call[z]
    BY <1>t, <2>1, <2>y
  <2>3. \A e \in Conn : \A i \in DOMAIN pending[e] : pending[e][i] \in Caller /\ pending[e][i] # x
    BY DEF TableKept, Waiting
  <2>4. TableTyped' /\ TableKept'
    BY <2>1, <2>2, <2>3 DEF rpc, TableTyped, TableKept
  <2>5. MessagesMatch'
    BY <2>1, <2>2, <2>3 DEF rpc, MessagesMatch, Matches
  <2>6. SentRight' /\ AnswerIsOwn'
    BY <2>1, <2>2, <2>y DEF rpc, SentRight, AnswerIsOwn
  <2>7. Waiting' = Waiting
    BY <2>1 DEF rpc, Waiting
  <2> QED BY <2>2, <2>y, <2>4, <2>5, <2>6, <2>7
<1> QED BY <1>1, <1>2

LEMMA TailOf ==
    ASSUME NEW S, NEW s \in Seq(S), s # <<>>
    PROVE  /\ Tail(s) \in Seq(S) /\ Head(s) \in S /\ 1 \in 1..Len(s) /\ Head(s) = s[1]
           /\ \A i \in 1..Len(Tail(s)) : i + 1 \in 1..Len(s) /\ Tail(s)[i] = s[i + 1]
<1>1. Head(s) \in S /\ Tail(s) \in Seq(S) /\ Len(Tail(s)) = Len(s) - 1
      /\ \A i \in 1..Len(Tail(s)) : Tail(s)[i] = s[i + 1]
  BY HeadTailProperties
<1>2. Len(s) \in Nat /\ Len(s) # 0
  BY EmptySeq
<1> QED BY <1>1, <1>2

\* The table keeps what it says where calls are only taken out of it and messages
\* are only taken away.
LEMMA TableShrinks ==
    ASSUME TableInv, TableTyped', SentRight', AnswerIsOwn', reqID' = reqID,
           \A a \in Conn :
              /\ pending'[a] \in [DOMAIN pending'[a] -> Caller]
              /\ \A i \in DOMAIN pending'[a] :
                    i \in DOMAIN pending[a] /\ pending'[a][i] = pending[a][i]
                    /\ call'[pending[a][i]] = call[pending[a][i]]
              /\ open'[a] # "open" => pending'[a] = <<>>
              /\ \A i \in 1..Len(inbox'[a]) : \E j \in 1..Len(inbox[a]) : inbox'[a][i] = inbox[a][j]
              /\ \A i \in 1..Len(outbox'[a]) : \E j \in 1..Len(outbox[a]) : outbox'[a][i] = outbox[a][j]
    PROVE  TableInv' /\ Waiting' \subseteq Waiting
<1>0. TableKept /\ MessagesMatch
  BY DEF TableInv
<1>1. TableKept'
  BY <1>0 DEF TableKept
<1>2. ASSUME NEW a \in Conn, NEW m, Matches(reqID[a], pending[a], call, m)
      PROVE  Matches(reqID'[a], pending'[a], call', m)
  <2>1. /\ m.id \in 1..reqID[a] /\ (m.op = "sas" => m.by \in Sas)
        /\ m.id \in DOMAIN pending[a] => m.by = pending[a][m.id] /\ m.op = call[m.by].op
    BY <1>2 DEF Matches
  <2>2. ASSUME m.id \in DOMAIN pending'[a]
        PROVE  m.by = pending'[a][m.id] /\ m.op = call'[m.by].op
    BY <2>1, <2>2
  <2> QED BY <2>1, <2>2 DEF Matches
<1>3. MessagesMatch'
  <2> SUFFICES ASSUME NEW a \in Conn
               PROVE  /\ \A i \in 1..Len(inbox'[a]) : Matches(reqID'[a], pending'[a], call', inbox'[a][i])
                      /\ \A i \in 1..Len(outbox'[a]) : Matches(reqID'[a], pending'[a], call', outbox'[a][i])
    BY DEF MessagesMatch
  <2>1. \A i \in 1..Len(inbox[a]) : Matches(reqID'[a], pending'[a], call', inbox[a][i])
    BY <1>0, <1>2 DEF MessagesMatch
  <2>2. \A i \in 1..Len(outbox[a]) : Matches(reqID'[a], pending'[a], call', outbox[a][i])
    BY <1>0, <1>2 DEF MessagesMatch
  <2> QED BY <2>1, <2>2
<1>4. Waiting' \subseteq Waiting
  BY DEF Waiting
<1> QED BY <1>1, <1>3, <1>4 DEF TableInv

LEMMA PumpKeeps ==
    ASSUME TableInv, NEW c \in Conn, PumpReads(c)
    PROVE  /\ TableInv' /\ Waiting' \subseteq Waiting
           /\ \A z \in Caller : call'[z].op = call[z].op
<1> DEFINE r == Head(outbox[c])
           t == Tail(outbox[c])
<1>1. /\ TableTyped /\ TableKept /\ MessagesMatch /\ SentRight /\ AnswerIsOwn
      /\ outbox[c] \in Seq(Answer) /\ outbox[c] # <<>> /\ attended' = attended
      /\ UNCHANGED <<open, reqID, inbox>> /\ outbox' = [outbox EXCEPT ![c] = t]
  BY DEF PumpReads, TableInv, TableTyped
<1>2. /\ t \in Seq(Answer) /\ r \in Answer /\ 1 \in 1..Len(outbox[c]) /\ r = outbox[c][1]
      /\ \A i \in 1..Len(t) : i + 1 \in 1..Len(outbox[c]) /\ t[i] = outbox[c][i + 1]
  BY <1>1, TailOf
<1>3. Matches(reqID[c], pending[c], call, r)
  BY <1>1, <1>2 DEF MessagesMatch
<1>4. r.op = "sas" /\ r.ok => r.by \in attended
  BY <1>1, <1>2 DEF SentRight
<1>c. /\ r.id \in DOMAIN pending[c] =>
            /\ call' = [call EXCEPT ![pending[c][r.id]].res = IF r.ok THEN "ok" ELSE "rejected",
                                   ![pending[c][r.id]].from = r]
            /\ pending' = [pending EXCEPT ![c] = Restrict(@, DOMAIN @ \ {r.id})]
      /\ r.id \notin DOMAIN pending[c] => UNCHANGED <<call, pending>>
  BY DEF PumpReads
<1> HIDE DEF r, t
<1>5. /\ outbox' \in [Conn -> Seq(Answer)] /\ outbox'[c] = t
      /\ \A e \in Conn : e # c => outbox'[e] = outbox[e]
  BY <1>1, <1>2 DEF TableTyped
<1>6. \A e \in Conn : \A i \in 1..Len(outbox'[e]) : \E j \in 1..Len(outbox[e]) : outbox'[e][i] = outbox[e][j]
  BY <1>2, <1>5
<1>7. CASE r.id \notin DOMAIN pending[c]
  <2>1. UNCHANGED <<call, pending>>
    BY <1>7, <1>c
  <2>2. TableTyped'
    BY <1>1, <1>5, <2>1 DEF TableTyped
  <2>3. SentRight' /\ AnswerIsOwn'
    BY <1>1, <1>6, <2>1 DEF SentRight, AnswerIsOwn
  <2>4. TableInv' /\ Waiting' \subseteq Waiting
    BY <1>1, <1>6, <2>1, <2>2, <2>3, TableShrinks DEF TableKept
  <2> QED BY <2>1, <2>4
<1>8. CASE r.id \in DOMAIN pending[c]
  <2> DEFINE x == pending[c][r.id]
             y == [call[x] EXCEPT !.res = IF r.ok THEN "ok" ELSE "rejected", !.from = r]
             p == Restrict(pending[c], DOMAIN pending[c] \ {r.id})
  <2>1. x \in Caller /\ call[x] \in CallRec /\ call[x].conn = c /\ call[x].id = r.id
    BY <1>1, <1>8 DEF TableTyped, TableKept
  <2>2. y \in CallRec /\ y.op = call[x].op /\ y.from = r /\ (y.res = "ok" => r.ok)
    BY <1>2, <2>1 DEF CallRec
  <2>3. call' = [call EXCEPT ![x] = y]
    BY <1>1, <1>8, <1>c, <2>1 DEF TableTyped
  <2>4. pending' = [pending EXCEPT ![c] = p]
    BY <1>8, <1>c
  <2>5. r.by = x /\ r.op = call[x].op
    BY <1>3, <1>8 DEF Matches
  <2>6. /\ DOMAIN p = DOMAIN pending[c] \ {r.id} /\ p \in [DOMAIN p -> Caller]
        /\ \A i \in DOMAIN p : p[i] = pending[c][i]
    <3>1. pending[c] \in [DOMAIN pending[c] -> Caller]
      BY <1>1 DEF TableKept
    <3> QED BY <3>1 DEF Restrict
  <2> HIDE DEF x, y, p
  <2>7. /\ call' \in [Caller -> CallRec] /\ call'[x] = y
        /\ \A z \in Caller : z # x => call'[z] = call[z]
    BY <1>1, <2>1, <2>2, <2>3 DEF TableTyped
  <2>8. DOMAIN pending' = Conn /\ pending'[c] = p /\ \A e \in Conn : e # c => pending'[e] = pending[e]
    BY <1>1, <2>4 DEF TableTyped
  <2>9. TableTyped'
    BY <1>1, <1>5, <2>7, <2>8 DEF TableTyped
  <2>10. SentRight'
    BY <1>1, <1>4, <1>6, <2>1, <2>2, <2>5, <2>7 DEF SentRight
  <2>11. AnswerIsOwn'
    BY <1>1, <2>2, <2>5, <2>7 DEF AnswerIsOwn
  <2>12. ASSUME NEW a \in Conn
         PROVE  /\ pending'[a] \in [DOMAIN pending'[a] -> Caller]
                /\ \A i \in DOMAIN pending'[a] :
                      i \in DOMAIN pending[a] /\ pending'[a][i] = pending[a][i]
                      /\ call'[pending[a][i]] = call[pending[a][i]]
                /\ open'[a] # "open" => pending'[a] = <<>>
    <3>1. CASE a = c
      <4>1. \A i \in DOMAIN p : pending[c][i] \in Caller /\ pending[c][i] # x
        BY <1>1, <2>1, <2>6 DEF TableKept
      <4>2. open'[c] = "open"
        BY <1>1 DEF PumpReads
      <4>3. \A i \in DOMAIN p : call'[pending[c][i]] = call[pending[c][i]]
        BY <4>1, <2>7
      <4>4. pending'[a] = p
        BY <3>1, <2>8
      <4>5. \A i \in DOMAIN p : i \in DOMAIN pending[c] /\ p[i] = pending[c][i]
        BY <2>6
      <4>6. p \in [DOMAIN p -> Caller]
        BY <2>6
      <4> QED BY <3>1, <4>2, <4>3, <4>4, <4>5, <4>6
    <3>2. CASE a # c
      <4>1. \A i \in DOMAIN pending[a] : pending[a][i] \in Caller /\ pending[a][i] # x
        BY <1>1, <2>1, <3>2 DEF TableKept
      <4> QED BY <1>1, <3>2, <4>1, <2>7, <2>8 DEF TableKept
    <3> QED BY <3>1, <3>2
  <2>13. TableInv' /\ Waiting' \subseteq Waiting
    BY <1>1, <1>6, <2>9, <2>10, <2>11, <2>12, TableShrinks
  <2> QED BY <2>2, <2>7, <2>13
<1> QED BY <1>7, <1>8

LEMMA TimeoutKeeps ==
    ASSUME TableInv, NEW x \in Caller, TimesOut(x)
    PROVE  /\ TableInv' /\ Waiting' \subseteq Waiting
           /\ \A z \in Caller : call'[z].op = call[z].op
<1> DEFINE y == [call[x] EXCEPT !.res = "err"]
           c == call[x].conn
           p == Restrict(pending[c], DOMAIN pending[c] \ {call[x].id})
<1>1. /\ TableTyped /\ TableKept /\ SentRight /\ AnswerIsOwn
      /\ UNCHANGED <<open, reqID, inbox, outbox, attended>>
      /\ call' = [call EXCEPT ![x] = y] /\ pending' = [pending EXCEPT ![c] = p]
  BY DEF TimesOut, TableInv, TableTyped
<1>2. y \in CallRec /\ y.op = call[x].op /\ y.from = call[x].from /\ y.res = "err"
  BY <1>1, CallTypes DEF TableTyped
<1>6. DOMAIN p = DOMAIN pending[c] \ {call[x].id} /\ \A i \in DOMAIN p : p[i] = pending[c][i]
  BY DEF Restrict
<1>p. c \in Conn => p \in [DOMAIN p -> Caller]
  <2> SUFFICES ASSUME c \in Conn PROVE p \in [DOMAIN p -> Caller]
    OBVIOUS
  <2>1. pending[c] \in [DOMAIN pending[c] -> Caller]
    BY <1>1 DEF TableKept
  <2> QED BY <2>1 DEF Restrict
<1> HIDE DEF y, p
<1>7. /\ call' \in [Caller -> CallRec] /\ call'[x] = y
      /\ \A z \in Caller : z # x => call'[z] = call[z]
  BY <1>1, <1>2 DEF TableTyped
<1>8. /\ DOMAIN pending' = Conn /\ (c \in Conn => pending'[c] = p)
      /\ \A e \in Conn : e # c => pending'[e] = pending[e]
  BY <1>1 DEF TableTyped
<1>9. TableTyped'
  BY <1>1, <1>7, <1>8 DEF TableTyped
<1>10. SentRight'
  BY <1>1, <1>2, <1>7 DEF SentRight
<1>11. AnswerIsOwn'
  BY <1>1, <1>2, <1>7 DEF AnswerIsOwn
<1>12. ASSUME NEW a \in Conn
       PROVE  /\ pending'[a] \in [DOMAIN pending'[a] -> Caller]
              /\ \A i \in DOMAIN pending'[a] :
                    i \in DOMAIN pending[a] /\ pending'[a][i] = pending[a][i]
                    /\ call'[pending[a][i]] = call[pending[a][i]]
              /\ open'[a] # "open" => pending'[a] = <<>>
  <2>1. CASE a = c
    <3>1. \A i \in DOMAIN p : pending[c][i] \in Caller /\ pending[c][i] # x
      BY <1>1, <1>6, <2>1 DEF TableKept
    <3>2. open[c] # "open" => p = <<>>
      <4> SUFFICES ASSUME open[c] # "open" PROVE p = <<>>
        OBVIOUS
      <4>1. pending[c] = <<>> /\ DOMAIN pending[c] = {}
        BY <1>1, <2>1, EmptyTable DEF TableKept
      <4>2. DOMAIN p = {} /\ p \in [{} -> Caller]
        BY <1>6, <1>p, <2>1, <4>1
      <4> QED BY <4>2, EmptyTable
    <3> QED BY <1>1, <2>1, <3>1, <3>2, <1>6, <1>p, <1>7, <1>8
  <2>2. CASE a # c
    <3>1. \A i \in DOMAIN pending[a] : pending[a][i] \in Caller /\ pending[a][i] # x
      BY <1>1, <2>2 DEF TableKept
    <3> QED BY <1>1, <2>2, <3>1, <1>7, <1>8 DEF TableKept
  <2> QED BY <2>1, <2>2
<1>13. TableInv' /\ Waiting' \subseteq Waiting
  BY <1>1, <1>9, <1>10, <1>11, <1>12, TableShrinks
<1> QED BY <1>2, <1>7, <1>13

LEMMA CoreKeeps ==
    ASSUME TableInv, NEW c \in Conn, CoreServes(c)
    PROVE  TableInv' /\ Waiting' = Waiting
<1> DEFINE r == Head(inbox[c])
           t == Tail(inbox[c])
<1>1. /\ TableTyped /\ TableKept /\ MessagesMatch /\ SentRight /\ AnswerIsOwn
      /\ inbox[c] \in Seq(Request) /\ inbox[c] # <<>> /\ outbox[c] \in Seq(Answer)
      /\ UNCHANGED <<open, reqID, pending, call>> /\ inbox' = [inbox EXCEPT ![c] = t]
  BY DEF CoreServes, TableInv, TableTyped
<1>2. /\ t \in Seq(Request) /\ r \in Request /\ 1 \in 1..Len(inbox[c]) /\ r = inbox[c][1]
      /\ \A i \in 1..Len(t) : i + 1 \in 1..Len(inbox[c]) /\ t[i] = inbox[c][i + 1]
  BY <1>1, TailOf
<1>3. Matches(reqID[c], pending[c], call, r)
  BY <1>1, <1>2 DEF MessagesMatch
<1>4. PICK ok \in BOOLEAN :
        /\ outbox' = (IF open[c] = "open"
                      THEN [outbox EXCEPT ![c] = Append(@, Response(r.op, r.id, r.by, ok))] ELSE outbox)
        /\ r.op = "sas" /\ ok => r.by \in attended'
        /\ attended \subseteq attended'
  BY DEF CoreServes
<1> DEFINE m == Response(r.op, r.id, r.by, ok)
<1>m. m \in Answer /\ m.op = r.op /\ m.id = r.id /\ m.by = r.by /\ m.ok = ok
  BY <1>2 DEF Response, Answer, Request
<1> HIDE DEF r, t
<1>5. /\ inbox' \in [Conn -> Seq(Request)] /\ inbox'[c] = t
      /\ \A e \in Conn : e # c => inbox'[e] = inbox[e]
  BY <1>1, <1>2 DEF TableTyped
<1>6. /\ outbox' \in [Conn -> Seq(Answer)]
      /\ \A e \in Conn : \A i \in 1..Len(outbox'[e]) :
            (e = c /\ outbox'[e][i] = m) \/ \E j \in 1..Len(outbox[e]) : outbox'[e][i] = outbox[e][j]
  <2>1. CASE open[c] # "open"
    BY <1>1, <1>4, <2>1 DEF TableTyped
  <2>2. CASE open[c] = "open"
    <3> HIDE DEF m
    <3>1. outbox' = [outbox EXCEPT ![c] = Append(outbox[c], m)]
      BY <1>4, <2>2 DEF m
    <3>2. /\ Append(outbox[c], m) \in Seq(Answer) /\ Len(Append(outbox[c], m)) = Len(outbox[c]) + 1
          /\ Append(outbox[c], m)[Len(outbox[c]) + 1] = m /\ Len(outbox[c]) \in Nat
          /\ \A i \in 1..Len(outbox[c]) : Append(outbox[c], m)[i] = outbox[c][i]
      BY <1>1, <1>m, AppendProperties
    <3>3. /\ outbox' \in [Conn -> Seq(Answer)] /\ outbox'[c] = Append(outbox[c], m)
          /\ \A e \in Conn : e # c => outbox'[e] = outbox[e]
      BY <1>1, <3>1, <3>2 DEF TableTyped
    <3>4. \A i \in 1..Len(outbox'[c]) : i = Len(outbox[c]) + 1 \/ i \in 1..Len(outbox[c])
      BY <3>2, <3>3
    <3> QED BY <3>2, <3>3, <3>4
  <2> QED BY <2>1, <2>2
<1>7. Matches(reqID[c], pending[c], call, m)
  BY <1>3, <1>m DEF Matches
<1> HIDE DEF m
<1>8. TableTyped' /\ TableKept'
  BY <1>1, <1>5, <1>6 DEF TableTyped, TableKept
<1>9. MessagesMatch'
  <2> SUFFICES ASSUME NEW e \in Conn
               PROVE  /\ \A i \in 1..Len(inbox'[e]) : Matches(reqID[e], pending[e], call, inbox'[e][i])
                      /\ \A i \in 1..Len(outbox'[e]) : Matches(reqID[e], pending[e], call, outbox'[e][i])
    BY <1>1 DEF MessagesMatch
  <2>1. \A i \in 1..Len(inbox'[e]) : \E j \in 1..Len(inbox[e]) : inbox'[e][i] = inbox[e][j]
    BY <1>2, <1>5
  <2> QED BY <1>1, <1>6, <1>7, <2>1 DEF MessagesMatch
<1>10. SentRight'
  BY <1>1, <1>4, <1>6, <1>m DEF SentRight
<1>11. AnswerIsOwn' /\ Waiting' = Waiting
  BY <1>1 DEF AnswerIsOwn, Waiting
<1> QED BY <1>8, <1>9, <1>10, <1>11 DEF TableInv

\* What waking a set W of callers makes of the calls.
Woken(f, W) == [x \in Caller |-> IF x \in W THEN [f[x] EXCEPT !.res = "err"] ELSE f[x]]

LEMMA WokenCalls ==
    ASSUME NEW f \in [Caller -> CallRec], NEW W
    PROVE  /\ Woken(f, W) \in [Caller -> CallRec]
           /\ \A x \in Caller : /\ Woken(f, W)[x].op = f[x].op
                                /\ Woken(f, W)[x].from = f[x].from
                                /\ Woken(f, W)[x].res \in {f[x].res, "err"}
                                /\ x \notin W => Woken(f, W)[x] = f[x]
<1> DEFINE g(x) == IF x \in W THEN [f[x] EXCEPT !.res = "err"] ELSE f[x]
<1>1. ASSUME NEW x \in Caller
      PROVE  /\ g(x) \in CallRec /\ g(x).op = f[x].op /\ g(x).from = f[x].from
             /\ g(x).res \in {f[x].res, "err"}
             /\ x \notin W => g(x) = f[x]
  <2>1. f[x] \in CallRec
    OBVIOUS
  <2>2. CASE x \in W
    BY <2>1, <2>2, CallTypes
  <2>3. CASE x \notin W
    BY <2>1, <2>3
  <2> QED BY <2>2, <2>3
<1>2. Woken(f, W) = [x \in Caller |-> g(x)]
  BY DEF Woken
<1> HIDE DEF g
<1> QED BY <1>1, <1>2

\* A step keeps the table that empties it for the connections of S and leaves it
\* alone for the others, wakes calls or forgets them but none that still waits,
\* and at most drops messages.
LEMMA EmptiesKeep ==
    ASSUME TableInv, NEW S \in SUBSET Conn, reqID' = reqID, attended' = attended,
           open' \in [Conn -> {"none", "open", "closed", "dead"}], DOMAIN pending' = Conn,
           \A e \in S : pending'[e] = <<>>,
           \A e \in Conn \ S : pending'[e] = pending[e] /\ (open'[e] = open[e] \/ open'[e] = "open"),
           inbox' \in [Conn -> Seq(Request)], outbox' \in [Conn -> Seq(Answer)],
           \A e \in Conn : inbox'[e] = inbox[e] \/ inbox'[e] = <<>>,
           \A e \in Conn : outbox'[e] = outbox[e] \/ outbox'[e] = <<>>,
           call' \in [Caller -> CallRec],
           \A x \in Caller : \/ call'[x] = NoCall
                             \/ /\ call'[x].op = call[x].op /\ call'[x].from = call[x].from
                                /\ call'[x].res \in {call[x].res, "err"},
           \A e \in Conn \ S : \A i \in DOMAIN pending[e] : call'[pending[e][i]] = call[pending[e][i]]
    PROVE  TableInv' /\ Waiting' \subseteq Waiting
<1>1. TableTyped /\ TableKept /\ MessagesMatch /\ SentRight /\ AnswerIsOwn
  BY DEF TableInv
<1>2. TableTyped'
  BY <1>1 DEF TableTyped
<1>3. 1..Len(<<>>) = {}
  OBVIOUS
<1>4. ASSUME NEW a \in Conn
      PROVE  /\ \A i \in 1..Len(inbox'[a]) : \E j \in 1..Len(inbox[a]) : inbox'[a][i] = inbox[a][j]
             /\ \A i \in 1..Len(outbox'[a]) : \E j \in 1..Len(outbox[a]) : outbox'[a][i] = outbox[a][j]
  <2>1. inbox'[a] = inbox[a] \/ inbox'[a] = <<>>
    OBVIOUS
  <2>2. outbox'[a] = outbox[a] \/ outbox'[a] = <<>>
    OBVIOUS
  <2> QED BY <1>3, <2>1, <2>2
<1>5. SentRight'
  <2>1. \A x \in Caller : call'[x].op = "sas" /\ call'[x].res = "ok" => x \in attended'
    <3>1. NoCall.op # "sas"
      BY CallTypes
    <3> QED BY <1>1, <3>1 DEF SentRight
  <2> QED BY <1>1, <1>4, <2>1 DEF SentRight
<1>6. AnswerIsOwn'
  <2>1. NoCall.from = Nil
    BY CallTypes
  <2> QED BY <1>1, <2>1 DEF AnswerIsOwn
<1> DEFINE Fewer(a) ==
             /\ pending'[a] \in [DOMAIN pending'[a] -> Caller]
             /\ \A i \in DOMAIN pending'[a] :
                   i \in DOMAIN pending[a] /\ pending'[a][i] = pending[a][i]
                   /\ call'[pending[a][i]] = call[pending[a][i]]
             /\ open'[a] # "open" => pending'[a] = <<>>
             /\ \A i \in 1..Len(inbox'[a]) : \E j \in 1..Len(inbox[a]) : inbox'[a][i] = inbox[a][j]
             /\ \A i \in 1..Len(outbox'[a]) : \E j \in 1..Len(outbox[a]) : outbox'[a][i] = outbox[a][j]
<1>7. ASSUME NEW a \in Conn PROVE Fewer(a)
  <2>1. /\ pending'[a] \in [DOMAIN pending'[a] -> Caller]
        /\ \A i \in DOMAIN pending'[a] :
              i \in DOMAIN pending[a] /\ pending'[a][i] = pending[a][i]
              /\ call'[pending[a][i]] = call[pending[a][i]]
        /\ open'[a] # "open" => pending'[a] = <<>>
    <3>1. CASE a \in S
      <4>1. pending'[a] = <<>>
        BY <3>1
      <4> QED BY <4>1, EmptyTable
    <3>2. CASE a \notin S
      <4>1. pending'[a] = pending[a] /\ (open'[a] = open[a] \/ open'[a] = "open")
        BY <3>2
      <4> QED BY <1>1, <3>2, <4>1 DEF TableKept
    <3> QED BY <3>1, <3>2
  <2>2. /\ \A i \in 1..Len(inbox'[a]) : \E j \in 1..Len(inbox[a]) : inbox'[a][i] = inbox[a][j]
        /\ \A i \in 1..Len(outbox'[a]) : \E j \in 1..Len(outbox[a]) : outbox'[a][i] = outbox[a][j]
    BY <1>4
  <2> QED BY <2>1, <2>2, Zenon
<1> HIDE DEF Fewer
<1>8. \A a \in Conn : Fewer(a)
  BY <1>7, Zenon
<1> QED BY <1>2, <1>5, <1>6, <1>8, TableShrinks, Zenon DEF Fewer

LEMMA CloseKeeps ==
    ASSUME TableInv, NEW c \in Conn, Close(c), attended' = attended
    PROVE  /\ TableInv' /\ Waiting' \subseteq Waiting
           /\ \A x \in Caller : call'[x].op = call[x].op
<1>1. TableTyped /\ TableKept
  BY DEF TableInv
<1>2. /\ DOMAIN pending' = Conn /\ pending'[c] = <<>> /\ reqID' = reqID /\ inbox' = inbox
      /\ \A e \in Conn \ {c} : pending'[e] = pending[e] /\ open'[e] = open[e]
      /\ open' \in [Conn -> {"none", "open", "closed", "dead"}]
  BY <1>1 DEF Close, TableTyped
<1>3. outbox' \in [Conn -> Seq(Answer)] /\ \A e \in Conn : outbox'[e] = outbox[e] \/ outbox'[e] = <<>>
  <2>1. <<>> \in Seq(Answer)
    OBVIOUS
  <2> QED BY <1>1, <2>1 DEF Close, TableTyped
<1>4. PICK W : W = Range(pending[c])
  OBVIOUS
<1>5. /\ call' \in [Caller -> CallRec]
      /\ \A x \in Caller : /\ call'[x].op = call[x].op /\ call'[x].from = call[x].from
                           /\ call'[x].res \in {call[x].res, "err"}
                           /\ x \notin W => call'[x] = call[x]
  <2>1. call' = Woken(call, W)
    BY <1>4 DEF Close, Wake, Woken
  <2>2. call \in [Caller -> CallRec]
    BY <1>1 DEF TableTyped
  <2> QED BY <2>1, <2>2, WokenCalls
<1>6. ASSUME NEW e \in Conn \ {c}, NEW i \in DOMAIN pending[e]
      PROVE  call'[pending[e][i]] = call[pending[e][i]]
  <2>1. pending[e][i] \in Caller /\ call[pending[e][i]].conn = e
    BY <1>1 DEF TableKept
  <2>2. \A j \in DOMAIN pending[c] : call[pending[c][j]].conn = c
    BY <1>1 DEF TableKept
  <2>3. pending[e][i] \notin W
    BY <1>4, <2>1, <2>2 DEF Range
  <2> QED BY <1>5, <2>1, <2>3
<1>7. inbox' \in [Conn -> Seq(Request)] /\ \A e \in Conn : inbox'[e] = inbox[e] \/ inbox'[e] = <<>>
  BY <1>1, <1>2 DEF TableTyped
<1>8. TableInv' /\ Waiting' \subseteq Waiting
  <2>1. PICK S \in SUBSET Conn : S = {c}
    OBVIOUS
  <2>2. /\ \A e \in S : pending'[e] = <<>>
        /\ \A e \in Conn \ S : pending'[e] = pending[e] /\ (open'[e] = open[e] \/ open'[e] = "open")
    BY <2>1, <1>2
  <2>3. \A e \in Conn \ S : \A i \in DOMAIN pending[e] : call'[pending[e][i]] = call[pending[e][i]]
    BY <2>1, <1>6
  <2> QED BY <2>2, <2>3, <1>2, <1>3, <1>5, <1>7, EmptiesKeep
<1> QED BY <1>5, <1>8

LEMMA DropsKeep ==
    ASSUME TableInv, NEW c \in Conn, CoreDrops(c)
    PROVE  TableInv' /\ Waiting' \subseteq Waiting
<1>1. TableTyped
  BY DEF TableInv
<1>2. UNCHANGED <<open, reqID, pending, outbox, call, attended>> /\ inbox' = [inbox EXCEPT ![c] = <<>>]
  BY DEF CoreDrops
<1>3. inbox' \in [Conn -> Seq(Request)] /\ \A e \in Conn : inbox'[e] = inbox[e] \/ inbox'[e] = <<>>
  <2>1. <<>> \in Seq(Request)
    OBVIOUS
  <2> QED BY <1>1, <1>2, <2>1 DEF TableTyped
<1>4. {} \in SUBSET Conn
  OBVIOUS
<1> QED BY <1>1, <1>2, <1>3, <1>4, EmptiesKeep DEF TableTyped

LEMMA RestartKeeps ==
    ASSUME TableInv, CoreRestarts
    PROVE  /\ TableInv' /\ Waiting' \subseteq Waiting
           /\ \A x \in Caller : call'[x].op = call[x].op
<1>1. TableTyped
  BY DEF TableInv
<1>2. /\ DOMAIN pending' = Conn /\ \A e \in Conn : pending'[e] = <<>> /\ inbox'[e] = <<>> /\ outbox'[e] = <<>>
      /\ reqID' = reqID /\ attended' = attended
  BY DEF CoreRestarts
<1>3. open' \in [Conn -> {"none", "open", "closed", "dead"}]
  BY <1>1 DEF CoreRestarts, TableTyped
<1>4. inbox' \in [Conn -> Seq(Request)] /\ outbox' \in [Conn -> Seq(Answer)]
  <2>1. <<>> \in Seq(Request) /\ <<>> \in Seq(Answer)
    OBVIOUS
  <2> QED BY <2>1 DEF CoreRestarts
<1>5. PICK W : W = {x \in Caller : \E c \in Conn : x \in Range(pending[c])}
  OBVIOUS
<1>6. /\ call' \in [Caller -> CallRec]
      /\ \A x \in Caller : /\ call'[x].op = call[x].op /\ call'[x].from = call[x].from
                           /\ call'[x].res \in {call[x].res, "err"}
  <2>1. call' = Woken(call, W)
    BY <1>5 DEF CoreRestarts, Woken
  <2>2. call \in [Caller -> CallRec]
    BY <1>1 DEF TableTyped
  <2> QED BY <2>1, <2>2, WokenCalls
<1>7. TableInv' /\ Waiting' \subseteq Waiting
  <2>1. PICK S \in SUBSET Conn : S = Conn
    OBVIOUS
  <2> QED BY <2>1, <1>2, <1>3, <1>4, <1>6, EmptiesKeep
<1> QED BY <1>6, <1>7

\* A step that leaves the connections alone, but for one it opens, and forgets at
\* most a call that returned.
LEMMA QuietKeeps ==
    ASSUME TableInv, UNCHANGED <<reqID, pending, inbox, outbox, attended>>,
           open' = open \/ (\E c \in Conn : open' = [open EXCEPT ![c] = "open"]),
           call' = call \/ (\E x \in Caller : x \notin Waiting /\ call' = [call EXCEPT ![x] = NoCall])
    PROVE  TableInv' /\ Waiting' = Waiting
<1>1. TableTyped /\ TableKept
  BY DEF TableInv
<1>2. /\ open' \in [Conn -> {"none", "open", "closed", "dead"}]
      /\ \A e \in Conn : open'[e] = open[e] \/ open'[e] = "open"
  BY <1>1 DEF TableTyped
<1>3. /\ call' \in [Caller -> CallRec] /\ \A x \in Caller : call'[x] = NoCall \/ call'[x] = call[x]
      /\ \A x \in Caller : x \in Waiting => call'[x] = call[x]
  <2>1. NoCall \in CallRec /\ call \in [Caller -> CallRec]
    BY <1>1, CallTypes DEF TableTyped
  <2> QED BY <2>1
<1>4. \A e \in Conn : \A i \in DOMAIN pending[e] : pending[e][i] \in Caller /\ pending[e][i] \in Waiting
  BY <1>1 DEF TableKept, Waiting
<1>5. {} \in SUBSET Conn /\ DOMAIN pending' = Conn /\ inbox' \in [Conn -> Seq(Request)]
      /\ outbox' \in [Conn -> Seq(Answer)]
  BY <1>1 DEF TableTyped
<1>6. TableInv'
  BY <1>2, <1>3, <1>4, <1>5, EmptiesKeep
<1> QED BY <1>6 DEF Waiting

-----------------------------------------------------------------------------
(* Every step keeps the invariant. *)

LEMMA FaultBounded ==
    ASSUME CoreInv, Fault \/ UNCHANGED coreFaults
    PROVE  coreFaults' \in 0..MaxCoreFaults
BY DEF CoreInv, OtherTypes, Fault

\* Who is not in a call, or whose call returned, does not wait.
LEMMA NotWaiting ==
    ASSUME CoreInv, NEW x \in Caller, pc[x] \notin InCall \/ Returned(x)
    PROVE  x \notin Waiting
BY DEF CoreInv, WaitersStand, TableInv, TableKept, Waiting, Returned

\* The steps of a connection and of the core leave the callers where they are.
LEMMA RpcStep ==
    ASSUME CoreInv, TableInv', Waiting' \subseteq Waiting, UNCHANGED <<mine, desktop, sas>>,
           \A x \in Caller : call'[x].op = call[x].op,
           attended \subseteq attended', attended' \subseteq Sas, host' \in BOOLEAN,
           Fault \/ UNCHANGED coreFaults
    PROVE  CoreInv'
<1>1. UNCHANGED <<mine, pc, mu, client, sessions, http, waiters, box, results>>
  BY DEF desktop, sas
<1>2. OtherTypes'
  BY <1>1, FaultBounded DEF CoreInv, OtherTypes
<1>3. WaitersStand'
  BY <1>1 DEF CoreInv, WaitersStand
<1>4. Connected'
  BY <1>1 DEF CoreInv, Connected
<1>5. SaysSent'
  BY <1>1 DEF CoreInv, SaysSent, Caller
<1>6. WaiterKnown'
  BY <1>1 DEF CoreInv, WaiterKnown
<1> QED BY <1>2, <1>3, <1>4, <1>5, <1>6 DEF CoreInv

Label == {"new", "ping", "dial", "start", "starting", "record", "serving", "release",
          "stop", "stopping", "sending", "ended"}

\* A step of one caller, which goes to l.
LEMMA CallerStep ==
    ASSUME CoreInv, NEW x \in Caller, NEW l \in Label, pc' = [pc EXCEPT ![x] = l],
           Waiting' \subseteq Waiting \cup {x}, x \in Waiting' => l \in InCall,
           mine' \in [Caller -> Conn \cup {Nil}], \A z \in Caller : z # x => mine'[z] = mine[z],
           l \in {"start", "starting", "stop", "stopping", "sending"} => mine'[x] \in Conn,
           l \in {"ping", "dial"} /\ x \in Desk => mu' = x,
           mu' = mu \/ mu = Nil \/ mu = x,
           client' = client \/ mu = x, client' \in Conn \cup {Nil},
           l = "ping" => client' \in Conn
    PROVE  WaitersStand' /\ Connected' /\ pc' \in [Caller -> Label]
<1>1. pc \in [Caller -> Label] /\ WaitersStand /\ Connected
  BY DEF CoreInv, OtherTypes, Label
<1>2. /\ pc' \in [Caller -> Label] /\ pc'[x] = l
      /\ \A z \in Caller : z # x => pc'[z] = pc[z]
  BY <1>1
<1>3. WaitersStand'
  <2>1. \A z \in Waiting' : z \in Caller /\ (z = x \/ z \in Waiting)
    BY DEF Waiting
  <2> QED BY <1>1, <1>2, <2>1 DEF WaitersStand
<1>4. Connected'
  <2>1. \A d \in Desk : pc'[d] \in {"ping", "dial"} => mu' = d
    <3> SUFFICES ASSUME NEW d \in Desk, d # x, pc[d] \in {"ping", "dial"} PROVE mu' = d
      BY <1>2 DEF Caller
    <3>1. mu = d /\ mu # Nil
      BY <1>1 DEF Connected
    <3> QED BY <3>1
  <2>2. \A d \in Desk : pc'[d] = "ping" => client' \in Conn
    <3> SUFFICES ASSUME NEW d \in Desk, d # x, pc[d] = "ping" PROVE client' \in Conn
      BY <1>2 DEF Caller
    <3>1. mu = d /\ client \in Conn
      BY <1>1 DEF Connected
    <3> QED BY <3>1
  <2>3. \A z \in Caller : pc'[z] \in {"start", "starting", "stop", "stopping", "sending"} => mine'[z] \in Conn
    BY <1>1, <1>2 DEF Connected
  <2> QED BY <2>1, <2>2, <2>3 DEF Connected
<1> QED BY <1>2, <1>3, <1>4

\* A step of a desktop session keeps what is said of the sequence.
LEMMA DeskStep ==
    ASSUME CoreInv, NEW d \in Desk, NEW l \in Label, pc' = [pc EXCEPT ![d] = l],
           TableInv', WaitersStand', Connected', pc' \in [Caller -> Label],
           mine' \in [Caller -> Conn \cup {Nil}], mu' \in Desk \cup {Nil}, client' \in Conn \cup {Nil},
           sessions' \subseteq Desk, UNCHANGED <<host, attended, sas>>, Fault \/ UNCHANGED coreFaults,
           \A z \in Caller : z # d => call'[z].op = call[z].op
    PROVE  CoreInv'
<1>1. UNCHANGED <<http, waiters, box, results>>
  BY DEF sas
<1>2. \A k \in Sas : k \in Caller /\ k # d /\ pc'[k] = pc[k]
  BY DEF Caller, CoreInv, OtherTypes
<1>3. OtherTypes'
  BY <1>1, FaultBounded DEF CoreInv, OtherTypes, Label
<1>4. SaysSent'
  BY <1>1, <1>2 DEF CoreInv, SaysSent
<1>5. WaiterKnown'
  BY <1>1 DEF CoreInv, WaiterKnown
<1> QED BY <1>3, <1>4, <1>5 DEF CoreInv

LEMMA ConnectionSteps ==
    ASSUME CoreInv,
           \/ \E x \in Caller : TimesOut(x)
           \/ Core \/ ReadPump \/ CoreRestarts
    PROVE  CoreInv'
<1>1. TableInv /\ OtherTypes
  BY DEF CoreInv
<1>2. ASSUME NEW x \in Caller, TimesOut(x) PROVE CoreInv'
  <2>1. /\ UNCHANGED <<mine, desktop, sas, attended, host>> /\ Fault
    BY <1>2 DEF TimesOut
  <2>2. TableInv' /\ Waiting' \subseteq Waiting /\ \A z \in Caller : call'[z].op = call[z].op
    BY <1>1, <1>2, TimeoutKeeps
  <2> QED BY <1>1, <2>1, <2>2, RpcStep DEF OtherTypes
<1>3. ASSUME NEW c \in Conn, PumpReads(c) PROVE CoreInv'
  <2>1. UNCHANGED <<mine, desktop, sas, attended, host, coreFaults>>
    BY <1>3 DEF PumpReads
  <2>2. TableInv' /\ Waiting' \subseteq Waiting /\ \A z \in Caller : call'[z].op = call[z].op
    BY <1>1, <1>3, PumpKeeps
  <2> QED BY <1>1, <2>1, <2>2, RpcStep DEF OtherTypes
<1>4. ASSUME NEW c \in Conn, CoreServes(c) PROVE CoreInv'
  <2>1. UNCHANGED <<mine, desktop, sas, call, coreFaults>>
    BY <1>4 DEF CoreServes
  <2>2. TableInv' /\ Waiting' = Waiting
    BY <1>1, <1>4, CoreKeeps
  <2>3. host' \in BOOLEAN
    BY <1>1, <1>4 DEF CoreServes, OtherTypes
  <2>4. attended' = attended \/ (Head(inbox[c]).op = "sas" /\ attended' = attended \cup {Head(inbox[c]).by})
    BY <1>4 DEF CoreServes
  <2>5. Head(inbox[c]).op = "sas" => Head(inbox[c]).by \in Sas
    <3>1. inbox[c] \in Seq(Request) /\ inbox[c] # <<>> /\ MessagesMatch
      BY <1>1, <1>4 DEF CoreServes, TableInv, TableTyped
    <3>2. 1 \in 1..Len(inbox[c]) /\ Head(inbox[c]) = inbox[c][1]
      BY <3>1, TailOf
    <3> QED BY <3>1, <3>2 DEF MessagesMatch, Matches
  <2>6. attended \subseteq attended' /\ attended' \subseteq Sas
    BY <1>1, <2>4, <2>5 DEF OtherTypes
  <2> QED BY <2>1, <2>2, <2>3, <2>6, RpcStep
<1>5. ASSUME NEW c \in Conn, CoreDrops(c) PROVE CoreInv'
  <2>1. UNCHANGED <<mine, desktop, sas, call, attended, host, coreFaults>>
    BY <1>5 DEF CoreDrops
  <2>2. TableInv' /\ Waiting' \subseteq Waiting
    BY <1>1, <1>5, DropsKeep
  <2> QED BY <1>1, <2>1, <2>2, RpcStep DEF OtherTypes
<1>6. ASSUME CoreRestarts PROVE CoreInv'
  <2>1. UNCHANGED <<mine, desktop, sas, attended>> /\ host' = FALSE /\ Fault
    BY <1>6 DEF CoreRestarts
  <2>2. TableInv' /\ Waiting' \subseteq Waiting /\ \A z \in Caller : call'[z].op = call[z].op
    BY <1>1, <1>6, RestartKeeps
  <2> QED BY <1>1, <2>1, <2>2, RpcStep DEF OtherTypes
<1> QED BY <1>2, <1>3, <1>4, <1>5, <1>6 DEF Core, ReadPump

LEMMA SessionStartKeeps ==
    ASSUME CoreInv, NEW d \in Desk, SessionStart(d)
    PROVE  CoreInv'
<1>1. /\ TableInv /\ OtherTypes /\ pc[d] = "new" /\ mu = Nil /\ mu' = d
      /\ UNCHANGED <<mine, client, sessions, host, attended, sas, coreFaults>> /\ d \in Caller
  BY DEF CoreInv, SessionStart, Stands, Caller
<1>2. d \notin Waiting
  BY <1>1, NotWaiting DEF InCall
<1>3. mine' \in [Caller -> Conn \cup {Nil}] /\ client' \in Conn \cup {Nil} /\ sessions' \subseteq Desk
  BY <1>1 DEF OtherTypes
<1>4. CASE client = Nil
  <2>1. pc' = [pc EXCEPT ![d] = "dial"] /\ UNCHANGED <<rpc, call>>
    BY <1>4 DEF SessionStart, Goes
  <2>2. TableInv' /\ Waiting' = Waiting
    BY <1>1, <2>1, QuietKeeps DEF rpc
  <2>3. WaitersStand' /\ Connected' /\ pc' \in [Caller -> Label]
    BY <1>1, <1>2, <1>3, <2>1, <2>2, CallerStep DEF Label
  <2> QED BY <1>1, <1>3, <2>1, <2>2, <2>3, DeskStep DEF Label
<1>5. CASE client # Nil
  <2>1. pc' = [pc EXCEPT ![d] = "ping"] /\ RoundTrip(d, client, "ping") /\ client \in Conn
    BY <1>1, <1>5 DEF SessionStart, Goes, OtherTypes
  <2>2. /\ TableInv' /\ Waiting' \subseteq Waiting \cup {d}
        /\ \A z \in Caller : z # d => call'[z].op = call[z].op
    BY <1>1, <1>2, <2>1, RoundTripKeeps DEF Op
  <2>3. WaitersStand' /\ Connected' /\ pc' \in [Caller -> Label]
    BY <1>1, <1>2, <1>3, <2>1, <2>2, CallerStep DEF Label, InCall
  <2> QED BY <1>1, <1>3, <2>1, <2>2, <2>3, DeskStep DEF Label
<1> QED BY <1>4, <1>5

LEMMA EnsureClientKeeps ==
    ASSUME CoreInv, NEW d \in Desk, EnsureClient(d)
    PROVE  CoreInv'
<1>1. /\ TableInv /\ OtherTypes /\ pc[d] = "ping" /\ Returned(d)
      /\ UNCHANGED <<sessions, host, attended, sas, coreFaults>> /\ d \in Caller
      /\ mu = d /\ client \in Conn
  BY DEF CoreInv, EnsureClient, Stands, Caller, Connected
<1>2. d \notin Waiting
  BY <1>1, NotWaiting
<1>3. CASE call[d].res = "ok"
  <2>1. /\ pc' = [pc EXCEPT ![d] = "start"] /\ UNCHANGED <<rpc, client>> /\ mu' = Nil
        /\ mine' = [mine EXCEPT ![d] = client] /\ call' = [call EXCEPT ![d] = NoCall]
    BY <1>3 DEF EnsureClient, Goes, Done
  <2>2. TableInv' /\ Waiting' = Waiting
    BY <1>1, <1>2, <2>1, QuietKeeps DEF rpc
  <2>3. /\ mine' \in [Caller -> Conn \cup {Nil}] /\ mine'[d] \in Conn /\ sessions' \subseteq Desk
        /\ \A z \in Caller : z # d => mine'[z] = mine[z]
    BY <1>1, <2>1 DEF OtherTypes
  <2>4. WaitersStand' /\ Connected' /\ pc' \in [Caller -> Label]
    BY <1>1, <1>2, <2>1, <2>2, <2>3, CallerStep DEF Label
  <2>5. \A z \in Caller : z # d => call'[z].op = call[z].op
    BY <1>1, <2>1 DEF TableInv, TableTyped
  <2> QED BY <1>1, <2>1, <2>2, <2>3, <2>4, <2>5, DeskStep DEF Label
<1>4. CASE call[d].res # "ok"
  <2>1. /\ pc' = [pc EXCEPT ![d] = "dial"] /\ Close(client) /\ client' = Nil /\ mu' = mu /\ mine' = mine
    BY <1>4 DEF EnsureClient, Goes
  <2>2. /\ TableInv' /\ Waiting' \subseteq Waiting /\ \A z \in Caller : call'[z].op = call[z].op
    BY <1>1, <2>1, CloseKeeps
  <2>3. mine' \in [Caller -> Conn \cup {Nil}] /\ sessions' \subseteq Desk
    BY <1>1, <2>1 DEF OtherTypes
  <2>4. WaitersStand' /\ Connected' /\ pc' \in [Caller -> Label]
    BY <1>1, <1>2, <2>1, <2>2, <2>3, CallerStep DEF Label
  <2> QED BY <1>1, <2>1, <2>2, <2>3, <2>4, DeskStep DEF Label
<1> QED BY <1>3, <1>4

LEMMA DialsKeeps ==
    ASSUME CoreInv, NEW d \in Desk, Dials(d)
    PROVE  CoreInv'
<1>1. /\ TableInv /\ OtherTypes /\ pc[d] = "dial" /\ mu' = Nil /\ mu = d
      /\ UNCHANGED <<call, sessions, host, attended, sas>> /\ d \in Caller
  BY DEF CoreInv, Dials, Stands, Caller, Connected
<1>2. d \notin Waiting
  BY <1>1, NotWaiting DEF InCall
<1>3. CASE \E c \in Conn : Opens(c) /\ client' = c /\ mine' = [mine EXCEPT ![d] = c]
                           /\ Goes(d, "start") /\ UNCHANGED coreFaults
  <2>1. PICK c \in Conn : Opens(c) /\ client' = c /\ mine' = [mine EXCEPT ![d] = c]
                          /\ pc' = [pc EXCEPT ![d] = "start"] /\ UNCHANGED coreFaults
    BY <1>3 DEF Goes
  <2>2. TableInv' /\ Waiting' = Waiting
    BY <1>1, <2>1, QuietKeeps DEF Opens
  <2>3. /\ mine' \in [Caller -> Conn \cup {Nil}] /\ mine'[d] \in Conn /\ sessions' \subseteq Desk
        /\ \A z \in Caller : z # d => mine'[z] = mine[z]
    BY <1>1, <2>1 DEF OtherTypes
  <2>4. WaitersStand' /\ Connected' /\ pc' \in [Caller -> Label]
    BY <1>1, <1>2, <2>1, <2>2, <2>3, CallerStep DEF Label
  <2> QED BY <1>1, <2>1, <2>2, <2>3, <2>4, DeskStep DEF Label
<1>4. CASE Fault /\ Goes(d, "ended") /\ UNCHANGED <<rpc, client, mine>>
  <2>1. pc' = [pc EXCEPT ![d] = "ended"] /\ UNCHANGED <<rpc, client, mine>>
    BY <1>4 DEF Goes
  <2>2. TableInv' /\ Waiting' = Waiting
    BY <1>1, <2>1, QuietKeeps DEF rpc
  <2>3. mine' \in [Caller -> Conn \cup {Nil}] /\ client' \in Conn \cup {Nil} /\ sessions' \subseteq Desk
    BY <1>1, <2>1 DEF OtherTypes
  <2>4. WaitersStand' /\ Connected' /\ pc' \in [Caller -> Label]
    BY <1>1, <1>2, <2>1, <2>2, <2>3, CallerStep DEF Label
  <2> QED BY <1>1, <1>4, <2>1, <2>2, <2>3, <2>4, DeskStep DEF Label
<1> QED BY <1>3, <1>4 DEF Dials

\* The two calls of a session but the ping.
LEMMA DeskCalls ==
    ASSUME CoreInv, NEW d \in Desk, StartCapture(d) \/ StopCapture(d)
    PROVE  CoreInv'
<1>1. /\ TableInv /\ OtherTypes /\ pc[d] \in {"start", "stop"} /\ mine[d] \in Conn /\ d \in Caller
      /\ UNCHANGED <<mine, mu, client, sessions, host, attended, sas, coreFaults>>
  BY DEF CoreInv, StartCapture, StopCapture, Stands, Caller, Connected
<1>2. d \notin Waiting
  BY <1>1, NotWaiting DEF InCall
<1>3. PICK l \in {"starting", "stopping"}, o \in {"start", "stop"} :
         pc' = [pc EXCEPT ![d] = l] /\ RoundTrip(d, mine[d], o)
  BY DEF StartCapture, StopCapture, Goes
<1>4. /\ TableInv' /\ Waiting' \subseteq Waiting \cup {d}
      /\ \A z \in Caller : z # d => call'[z].op = call[z].op
  BY <1>1, <1>2, <1>3, RoundTripKeeps DEF Op
<1>5. /\ mine' \in [Caller -> Conn \cup {Nil}] /\ mu' \in Desk \cup {Nil}
      /\ client' \in Conn \cup {Nil} /\ sessions' \subseteq Desk
  BY <1>1 DEF OtherTypes
<1>6. l \in Label /\ l \in InCall /\ l \notin {"ping", "dial"}
  BY <1>3 DEF Label, InCall
<1>7. WaitersStand' /\ Connected' /\ pc' \in [Caller -> Label]
  BY <1>1, <1>2, <1>3, <1>4, <1>5, <1>6, CallerStep
<1> QED BY <1>1, <1>3, <1>4, <1>5, <1>6, <1>7, DeskStep

\* The steps of a session that make no call: one has returned, or none was made.
LEMMA DeskMoves ==
    ASSUME CoreInv, NEW d \in Desk,
           CaptureStarted(d) \/ Record(d) \/ SessionClose(d) \/ Release(d) \/ CaptureStopped(d)
    PROVE  CoreInv'
<1>1. /\ TableInv /\ OtherTypes /\ d \in Caller /\ (pc[d] \notin InCall \/ Returned(d))
      /\ UNCHANGED <<rpc, mu, client, host, attended, sas, coreFaults>>
      /\ sessions' \subseteq Desk
  BY DEF CoreInv, OtherTypes, CaptureStarted, Record, SessionClose, Release, CaptureStopped, Stands, Caller, InCall
<1>2. d \notin Waiting
  BY <1>1, NotWaiting
<1>3. PICK l \in Label : /\ pc' = [pc EXCEPT ![d] = l]
                         /\ l \in {"record", "serving", "release", "stop", "ended"}
                         /\ l = "stop" => client # Nil /\ mine' = [mine EXCEPT ![d] = client]
  <2>1. CASE CaptureStarted(d) BY <2>1 DEF CaptureStarted, Goes, Label
  <2>2. CASE Record(d) BY <2>2 DEF Record, Goes, Label
  <2>3. CASE SessionClose(d) BY <2>3 DEF SessionClose, Goes, Label
  <2>4. CASE Release(d) BY <2>4 DEF Release, Goes, Label
  <2>5. CASE CaptureStopped(d) BY <2>5 DEF CaptureStopped, Goes, Label
  <2> QED BY <2>1, <2>2, <2>3, <2>4, <2>5
<1>4. call' = call \/ call' = [call EXCEPT ![d] = NoCall]
  BY DEF CaptureStarted, Record, SessionClose, Release, CaptureStopped, Done
<1>5. mine' = mine \/ mine' = [mine EXCEPT ![d] = client]
  BY DEF CaptureStarted, Record, SessionClose, Release, CaptureStopped
<1>6. /\ TableInv' /\ Waiting' = Waiting
      /\ \A z \in Caller : z # d => call'[z].op = call[z].op
  <2>1. TableInv' /\ Waiting' = Waiting
    BY <1>1, <1>2, <1>4, QuietKeeps DEF rpc
  <2>2. \A z \in Caller : z # d => call'[z].op = call[z].op
    BY <1>1, <1>4 DEF TableInv, TableTyped
  <2> QED BY <2>1, <2>2
<1>7. /\ mine' \in [Caller -> Conn \cup {Nil}] /\ \A z \in Caller : z # d => mine'[z] = mine[z]
      /\ client' \in Conn \cup {Nil} /\ mu' \in Desk \cup {Nil}
  BY <1>1, <1>5 DEF OtherTypes
<1>8. l = "stop" => mine'[d] \in Conn
  BY <1>1, <1>3 DEF OtherTypes
<1>9. WaitersStand' /\ Connected' /\ pc' \in [Caller -> Label]
  BY <1>1, <1>2, <1>3, <1>6, <1>7, <1>8, CallerStep
<1> QED BY <1>1, <1>3, <1>6, <1>7, <1>9, DeskStep

-----------------------------------------------------------------------------
\* The server's handler: no caller moves, but for one that begins.
LEMMA ServerSteps ==
    ASSUME CoreInv, NEW k \in Sas, NodeSas(k) \/ SasDeliver(k) \/ SasAnswered(k) \/ SasTimeout(k)
    PROVE  CoreInv'
<1>1. /\ TableInv /\ OtherTypes /\ WaitersStand /\ Connected /\ SaysSent /\ WaiterKnown
      /\ UNCHANGED <<rpc, call, mine, mu, client, sessions, host, attended>> /\ k \in Caller /\ k \notin Desk
  BY DEF CoreInv, NodeSas, SasDeliver, SasAnswered, SasTimeout, Caller, desktop
<1>2. TableInv' /\ Waiting' = Waiting
  BY <1>1, QuietKeeps DEF rpc
<1>3. coreFaults' \in 0..MaxCoreFaults
  <2>1. Fault \/ UNCHANGED coreFaults
    BY DEF NodeSas, SasDeliver, SasAnswered, SasTimeout
  <2> QED BY <2>1, FaultBounded
<1>4. CASE NodeSas(k)
  <2>1. /\ http[k] = "idle" /\ UNCHANGED <<box, results>>
        /\ \/ /\ http' = [http EXCEPT ![k] = "waiting"] /\ waiters' = waiters \cup {k}
              /\ pc' = [pc EXCEPT ![k] = "dial"]
           \/ http' = [http EXCEPT ![k] = "undelivered"] /\ UNCHANGED <<waiters, pc>>
    BY <1>4 DEF NodeSas, Goes
  <2>2. k \notin waiters /\ box[k] = Nil /\ pc[k] = "new" /\ k \notin Waiting
    <3>1. k \notin waiters /\ box[k] = Nil /\ pc[k] = "new"
      BY <1>1, <2>1 DEF SaysSent
    <3> QED BY <1>1, <3>1, NotWaiting DEF InCall
  <2>3. /\ pc' \in [Caller -> Label] /\ pc'[k] \in {"new", "dial"} /\ http'[k] \in {"waiting", "undelivered"}
        /\ \A z \in Caller : z # k => pc'[z] = pc[z]
        /\ \A z \in Sas : z # k => http'[z] = http[z] /\ (z \in waiters' <=> z \in waiters)
        /\ k \in waiters' => http'[k] = "waiting"
    BY <1>1, <2>1, <2>2 DEF OtherTypes, Label
  <2>4. OtherTypes'
    BY <1>1, <1>3, <2>1, <2>3 DEF OtherTypes, Label
  <2>5. WaitersStand'
    BY <1>1, <1>2, <2>2, <2>3 DEF WaitersStand, Waiting
  <2>6. Connected'
    BY <1>1, <2>3 DEF Connected, Caller
  <2>7. SaysSent'
    BY <1>1, <2>1, <2>2, <2>3 DEF SaysSent, Caller
  <2>8. WaiterKnown'
    BY <1>1, <2>1, <2>2, <2>3 DEF WaiterKnown
  <2> QED BY <1>2, <2>4, <2>5, <2>6, <2>7, <2>8 DEF CoreInv
<1>5. ASSUME UNCHANGED pc, OtherTypes', SaysSent', WaiterKnown' PROVE CoreInv'
  <2>1. WaitersStand'
    BY <1>1, <1>2, <1>5 DEF WaitersStand
  <2>2. Connected'
    BY <1>1, <1>5 DEF Connected
  <2> QED BY <1>2, <1>5, <2>1, <2>2 DEF CoreInv
<1>6. CASE SasDeliver(k)
  <2>1. PICK v \in {"ok", "rejected"} :
          /\ <<k, v>> \in results /\ results' = results \ {<<k, v>>} /\ UNCHANGED <<pc, http>>
          /\ k \in waiters => waiters' = waiters \ {k} /\ box' = [box EXCEPT ![k] = v]
          /\ k \notin waiters => UNCHANGED <<waiters, box>>
    BY <1>6 DEF SasDeliver, desktop
  <2>2. /\ box' \in [Sas -> {Nil, "ok", "rejected"}] /\ waiters' \subseteq waiters /\ results' \subseteq results
        /\ \A z \in Sas : z # k => box'[z] = box[z]
        /\ k \notin waiters' /\ (box'[k] = box[k] \/ (box'[k] = v /\ k \in waiters))
    BY <1>1, <2>1 DEF OtherTypes
  <2>3. OtherTypes'
    BY <1>1, <1>3, <2>1, <2>2 DEF OtherTypes
  <2>4. SaysSent'
    BY <1>1, <2>1, <2>2 DEF SaysSent
  <2>5. WaiterKnown'
    BY <1>1, <2>1, <2>2 DEF WaiterKnown
  <2> QED BY <1>5, <2>1, <2>3, <2>4, <2>5
<1>7. CASE SasAnswered(k)
  <2>1. /\ http[k] = "waiting" /\ box[k] # Nil /\ http' = [http EXCEPT ![k] = box[k]]
        /\ UNCHANGED <<pc, waiters, box, results>>
    BY <1>7 DEF SasAnswered, desktop
  <2>2. /\ box[k] \in {"ok", "rejected"} /\ http'[k] = box[k]
        /\ \A z \in Sas : z # k => http'[z] = http[z]
        /\ http' \in [Sas -> {"idle", "waiting", "ok", "rejected", "timeout", "undelivered"}]
    BY <1>1, <2>1 DEF OtherTypes
  <2>3. OtherTypes'
    BY <1>1, <1>3, <2>1, <2>2 DEF OtherTypes
  <2>4. SaysSent'
    BY <1>1, <2>1, <2>2 DEF SaysSent
  <2>5. WaiterKnown'
    BY <1>1, <2>1, <2>2 DEF WaiterKnown
  <2> QED BY <1>5, <2>1, <2>3, <2>4, <2>5
<1>8. CASE SasTimeout(k)
  <2>1. /\ http[k] = "waiting" /\ http' = [http EXCEPT ![k] = "timeout"] /\ waiters' = waiters \ {k}
        /\ UNCHANGED <<pc, box, results>>
    BY <1>8 DEF SasTimeout, desktop
  <2>2. /\ http'[k] = "timeout" /\ \A z \in Sas : z # k => http'[z] = http[z]
        /\ http' \in [Sas -> {"idle", "waiting", "ok", "rejected", "timeout", "undelivered"}]
    BY <1>1, <2>1 DEF OtherTypes
  <2>3. OtherTypes'
    BY <1>1, <1>3, <2>1, <2>2 DEF OtherTypes
  <2>4. SaysSent'
    BY <1>1, <2>1, <2>2 DEF SaysSent
  <2>5. WaiterKnown'
    BY <1>1, <2>1, <2>2 DEF WaiterKnown
  <2> QED BY <1>5, <2>1, <2>3, <2>4, <2>5
<1> QED BY <1>4, <1>6, <1>7, <1>8

\* A step of the agent for one request: its call and its result are its own.
LEMMA SasStep ==
    ASSUME CoreInv, NEW k \in Sas, NEW l \in Label, pc' = [pc EXCEPT ![k] = l],
           l \in {"start", "sending", "ended"}, pc[k] # "new",
           TableInv', Waiting' \subseteq Waiting \cup {k}, k \in Waiting' => l \in InCall,
           mine' \in [Caller -> Conn \cup {Nil}], \A z \in Caller : z # k => mine'[z] = mine[z],
           l \in {"start", "sending"} => mine'[k] \in Conn,
           UNCHANGED <<mu, client, sessions, host, attended, http, waiters, box>>,
           Fault \/ UNCHANGED coreFaults,
           \A z \in Caller : z # k => call'[z].op = call[z].op,
           l = "sending" => call'[k].op = "sas",
           results' \subseteq Sas \X {"ok", "rejected"},
           \A z \in Sas : <<z, "ok">> \in results' => <<z, "ok">> \in results \/ z \in attended
    PROVE  CoreInv'
<1>1. OtherTypes /\ SaysSent /\ WaiterKnown /\ k \in Caller /\ k \notin Desk
  BY DEF CoreInv, Caller
<1>2. mu' = mu /\ client' = client /\ client' \in Conn \cup {Nil}
  BY <1>1 DEF OtherTypes
<1>3. WaitersStand' /\ Connected' /\ pc' \in [Caller -> Label]
  BY <1>1, <1>2, CallerStep
<1>4. OtherTypes'
  BY <1>1, <1>3, FaultBounded DEF OtherTypes, Label
<1>5. pc'[k] = l /\ \A z \in Sas : z \in Caller /\ (z # k => pc'[z] = pc[z])
  BY <1>1 DEF OtherTypes, Caller
<1>6. SaysSent'
  <2> SUFFICES ASSUME NEW z \in Sas
               PROVE  /\ pc'[z] \in {"new", "dial", "start", "sending", "ended"}
                      /\ pc'[z] = "sending" => call'[z].op = "sas"
                      /\ <<z, "ok">> \in results' => z \in attended
                      /\ box[z] = "ok" => z \in attended
                      /\ http[z] = "ok" => z \in attended
                      /\ http[z] = "idle" => z \notin waiters /\ box[z] = Nil /\ pc'[z] = "new"
    BY DEF SaysSent
  <2>1. /\ <<z, "ok">> \in results' => z \in attended
        /\ box[z] = "ok" => z \in attended
        /\ http[z] = "ok" => z \in attended
    BY <1>1 DEF SaysSent
  <2>2. CASE z = k
    BY <1>1, <1>5, <2>1, <2>2 DEF SaysSent
  <2>3. CASE z # k
    BY <1>1, <1>5, <2>1, <2>3 DEF SaysSent
  <2> QED BY <2>2, <2>3
<1>7. WaiterKnown'
  BY <1>1 DEF WaiterKnown
<1> QED BY <1>3, <1>4, <1>6, <1>7 DEF CoreInv

LEMMA AgentSasKeeps ==
    ASSUME CoreInv, NEW k \in Sas, AgentSas(k)
    PROVE  CoreInv'
<1>1. /\ TableInv /\ OtherTypes /\ SaysSent /\ Connected /\ k \in Caller
      /\ UNCHANGED <<mu, client, sessions, host, attended, http, waiters, box>>
      /\ Fault \/ UNCHANGED coreFaults
  BY DEF CoreInv, AgentSas, SasDials, SendSAS, SasReturns, sas, Caller
<1>2. pc[k] # "new" /\ k \notin Waiting
  <2>1. pc[k] # "new" /\ (pc[k] \notin InCall \/ Returned(k))
    BY DEF AgentSas, SasDials, SendSAS, SasReturns, Stands, InCall
  <2> QED BY <1>1, <2>1, NotWaiting
<1>3. CASE SasDials(k)
  <2>1. call' = call /\ (UNCHANGED rpc \/ \E c \in Conn : Opens(c))
    BY <1>3 DEF SasDials
  <2>2. TableInv' /\ Waiting' = Waiting
    BY <1>1, <2>1, QuietKeeps DEF rpc, Opens
  <2>3. CASE \E c \in Conn : Opens(c) /\ mine' = [mine EXCEPT ![k] = c] /\ Goes(k, "start") /\ results' = results
    <3>1. PICK c \in Conn : mine' = [mine EXCEPT ![k] = c] /\ pc' = [pc EXCEPT ![k] = "start"] /\ results' = results
      BY <2>3 DEF Goes
    <3>2. /\ mine' \in [Caller -> Conn \cup {Nil}] /\ mine'[k] \in Conn
          /\ \A z \in Caller : z # k => mine'[z] = mine[z]
      BY <1>1, <3>1 DEF OtherTypes
    <3>3. results' \subseteq Sas \X {"ok", "rejected"}
      BY <1>1, <3>1 DEF OtherTypes
    <3> QED BY <1>1, <1>2, <2>1, <2>2, <3>1, <3>2, <3>3, SasStep DEF Label
  <2>4. CASE results' = results \cup {<<k, "rejected">>} /\ Goes(k, "ended") /\ UNCHANGED <<rpc, mine>>
    <3>1. pc' = [pc EXCEPT ![k] = "ended"] /\ mine' = mine
      BY <2>4 DEF Goes
    <3>2. mine' \in [Caller -> Conn \cup {Nil}]
      BY <1>1, <3>1 DEF OtherTypes
    <3>3. /\ results' \subseteq Sas \X {"ok", "rejected"}
          /\ \A z \in Sas : <<z, "ok">> \in results' => <<z, "ok">> \in results
      BY <1>1, <2>4 DEF OtherTypes
    <3> QED BY <1>1, <1>2, <2>1, <2>2, <3>1, <3>2, <3>3, SasStep DEF Label
  <2> QED BY <1>3, <2>3, <2>4 DEF SasDials
<1>4. CASE SendSAS(k)
  <2>1. /\ pc' = [pc EXCEPT ![k] = "sending"] /\ RoundTrip(k, mine[k], "sas") /\ mine[k] \in Conn
        /\ mine' = mine /\ results' = results
    BY <1>1, <1>4 DEF SendSAS, Goes, Stands, Connected, sas
  <2>2. /\ TableInv' /\ Waiting' \subseteq Waiting \cup {k} /\ call'[k].op = "sas"
        /\ \A z \in Caller : z # k => call'[z].op = call[z].op
    BY <1>1, <1>2, <2>1, RoundTripKeeps DEF Op
  <2>3. mine' \in [Caller -> Conn \cup {Nil}] /\ results' \subseteq Sas \X {"ok", "rejected"}
    BY <1>1, <2>1 DEF OtherTypes
  <2> QED BY <1>1, <1>2, <2>1, <2>2, <2>3, SasStep DEF Label, InCall
<1>5. CASE SasReturns(k)
  <2>1. /\ pc' = [pc EXCEPT ![k] = "ended"] /\ Close(mine[k]) /\ pc[k] = "sending" /\ mine' = mine
        /\ \/ results' = results \cup {<<k, IF call[k].res = "ok" THEN "ok" ELSE "rejected">>}
           \/ results' = results
    BY <1>5 DEF SasReturns, Goes, Stands
  <2>2. mine[k] \in Conn /\ call[k].op = "sas"
    BY <1>1, <2>1 DEF Connected, SaysSent
  <2>3. /\ TableInv' /\ Waiting' \subseteq Waiting
        /\ \A z \in Caller : call'[z].op = call[z].op
    BY <1>1, <2>1, <2>2, CloseKeeps
  <2>4. call[k].res = "ok" => k \in attended
    BY <1>1, <2>2 DEF TableInv, SentRight
  <2>5. PICK v \in {"ok", "rejected"} : results' \subseteq results \cup {<<k, v>>} /\ (v = "ok" => k \in attended)
    BY <2>1, <2>4
  <2>6. /\ results' \subseteq Sas \X {"ok", "rejected"}
        /\ \A z \in Sas : <<z, "ok">> \in results' => <<z, "ok">> \in results \/ z \in attended
    BY <1>1, <2>5 DEF OtherTypes
  <2>7. mine' \in [Caller -> Conn \cup {Nil}]
    BY <1>1, <2>1 DEF OtherTypes
  <2> QED BY <1>1, <1>2, <2>1, <2>3, <2>6, <2>7, SasStep DEF Label
<1> QED BY <1>3, <1>4, <1>5 DEF AgentSas

LEMMA StutterCore == CoreInv /\ UNCHANGED coreVars => CoreInv'
<1> SUFFICES ASSUME CoreInv, UNCHANGED coreVars PROVE CoreInv'
  OBVIOUS
<1>1. UNCHANGED <<open, reqID, pending, inbox, outbox, call, mine, pc, mu, client, sessions, host,
                  attended, http, waiters, box, results, coreFaults>>
  BY DEF coreVars, rpc, desktop, sas
<1>2. TableInv' /\ Waiting' = Waiting
  BY <1>1, QuietKeeps DEF CoreInv
<1>3. OtherTypes'
  BY <1>1 DEF CoreInv, OtherTypes
<1>4. WaitersStand' /\ Connected'
  BY <1>1, <1>2 DEF CoreInv, WaitersStand, Connected
<1>5. SaysSent' /\ WaiterKnown'
  BY <1>1 DEF CoreInv, SaysSent, WaiterKnown
<1> QED BY <1>2, <1>3, <1>4, <1>5 DEF CoreInv

LEMMA NextCore == CoreInv /\ [CoreNext]_coreVars => CoreInv'
<1> SUFFICES ASSUME CoreInv, [CoreNext]_coreVars PROVE CoreInv'
  OBVIOUS
<1>1. CASE UNCHANGED coreVars
  BY <1>1, StutterCore
<1>2. CASE (\E x \in Caller : TimesOut(x)) \/ Core \/ ReadPump \/ CoreRestarts
  BY <1>2, ConnectionSteps
<1>3. ASSUME NEW d \in Desk, SessionStart(d) \/ Session(d) \/ SessionClose(d) PROVE CoreInv'
  BY <1>3, SessionStartKeeps, EnsureClientKeeps, DialsKeeps, DeskCalls, DeskMoves DEF Session
<1>4. ASSUME NEW k \in Sas, NodeSas(k) \/ AgentSas(k) \/ SasDeliver(k) \/ SasAnswered(k) \/ SasTimeout(k)
      PROVE CoreInv'
  BY <1>4, ServerSteps, AgentSasKeeps
<1> QED BY <1>1, <1>2, <1>3, <1>4 DEF CoreNext

\* The inductive invariant holds throughout.
LEMMA CoreInvariant == CoreSpec => []CoreInv
<1>1. CoreInit => CoreInv
  BY InitCore
<1>2. CoreInv /\ [CoreNext]_coreVars => CoreInv'
  BY NextCore
<1> QED BY <1>1, <1>2, PTL DEF CoreSpec

\* Every variable keeps its type, and every id in a connection's table is the id
\* of a call that waits on that connection (roundTrip, readPump, Close).
THEOREM CoreTypeCorrect == CoreSpec => []CoreTypeOK
<1>1. CoreInv => CoreTypeOK
  BY TypeSplit DEF CoreInv
<1> QED BY <1>1, CoreInvariant, PTL

\* A call takes no answer but its own: not the late answer to a call that timed
\* out, nor one of a connection that was closed and dialled again (roundTrip,
\* readPump, Close), for any number of callers, connections and failures.
THEOREM AnswersOwn == CoreSpec => []AnswerIsOwn
<1>1. CoreInv => AnswerIsOwn
  BY DEF CoreInv, TableInv
<1> QED BY <1>1, CoreInvariant, PTL

\* A request for the secure attention sequence that was answered leaves no waiter
\* behind, and what the server reports as done the core has done (nodeSas,
\* sasDeliver, handleSasRequest).
THEOREM SequenceSettled == CoreSpec => []SasSettled
<1>1. CoreInv => SasSettled
  BY DEF CoreInv, SaysSent, WaiterKnown, SasSettled
<1> QED BY <1>1, CoreInvariant, PTL
=============================================================================
