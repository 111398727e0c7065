------------------------------- MODULE CoreRpc -------------------------------
(***************************************************************************)
(* The agent's calls to xnc-core over its pipe, and the two callers whose  *)
(* correctness rests on them: desktop sessions, which share one connection *)
(* and one capture host and count themselves to know when to stop it, and  *)
(* the secure attention sequence, which the server asks for and waits for. *)
(*                                                                         *)
(* A connection has a table of the calls that wait (coreclient.Client).    *)
(* The core serves a connection's requests one at a time, so a ping queues *)
(* behind a capture that takes long to start.                              *)
(***************************************************************************)
EXTENDS Naturals, Sequences, FiniteSets, Functions

CONSTANTS
    Desk,       \* desktop sessions, each opened once
    Sas,        \* requests for the secure attention sequence
    MaxConns,   \* bound: connections to the core
    MaxCoreFaults,  \* bound: calls that time out, cores that restart, links lost
    Nil         \* no connection, no call, no answer, nobody

ASSUME CoreAssumption ==
    /\ Desk \cap Sas = {} /\ Nil \notin Desk \cup Sas
    /\ Nil \notin {"ping", "start", "stop", "sas", "ok", "rejected", "err"}
    /\ MaxConns \in Nat /\ MaxCoreFaults \in Nat

Caller == Desk \cup Sas
Conn == 1..MaxConns

VARIABLES
    \* coreclient.Client, one per connection
    open,       \* none, open, closed by Close, or dead: readErr is set
    reqID,
    pending,    \* request ids to callers that wait
    inbox,      \* requests the core has not served
    outbox,     \* responses the pump has not read
    call,       \* the call a caller is in, with its answer
    mine,       \* the connection a caller makes its calls on
    \* desktop.Handler
    pc,
    mu,         \* who holds Handler.mu over a ping and a dial
    client,     \* Handler.client
    sessions,   \* Handler.sessions
    \* xnc-core
    host,       \* the capture host runs
    attended,   \* history: requests for which the sequence was sent
    \* handlers.nodeSas
    http,       \* idle, waiting, ok, rejected, timeout, undelivered
    waiters,    \* sasWaiters
    box,        \* the waiter's channel
    results,    \* SAS_RESULT on its way
    coreFaults

rpc == <<open, reqID, pending, inbox, outbox>>
desktop == <<pc, mu, client, sessions>>
sas == <<http, waiters, box, results>>
coreVars == <<rpc, call, mine, desktop, host, attended, sas, coreFaults>>

NoCall == [conn |-> Nil, id |-> 0, op |-> Nil, res |-> Nil, from |-> Nil]
Op == {"ping", "start", "stop", "sas"}
Response(of, id, by, ok) == [op |-> of, id |-> id, by |-> by, ok |-> ok]

CoreTypeOK ==
    /\ open \in [Conn -> {"none", "open", "closed", "dead"}] /\ reqID \in [Conn -> Nat]
    /\ \A c \in Conn :
          /\ DOMAIN pending[c] \subseteq 1..reqID[c] /\ Range(pending[c]) \subseteq Caller
          /\ open[c] # "open" => pending[c] = <<>>
          /\ \A i \in DOMAIN pending[c] :
                LET x == pending[c][i] IN
                call[x].conn = c /\ call[x].id = i /\ call[x].res = Nil
    /\ \A x \in Caller : call[x].op \in Op \cup {Nil} /\ call[x].res \in {Nil, "ok", "rejected", "err"}
    /\ pc \in [Caller -> {"new", "ping", "dial", "start", "starting", "record", "serving", "release",
                          "stop", "stopping", "sending", "ended"}]
    /\ mine \in [Caller -> Conn \cup {Nil}] /\ mu \in Desk \cup {Nil} /\ client \in Conn \cup {Nil}
    /\ sessions \subseteq Desk
    /\ host \in BOOLEAN /\ attended \subseteq Sas /\ waiters \subseteq Sas
    /\ http \in [Sas -> {"idle", "waiting", "ok", "rejected", "timeout", "undelivered"}]
    /\ box \in [Sas -> {Nil, "ok", "rejected"}] /\ results \subseteq Sas \X {"ok", "rejected"}
    /\ coreFaults \in 0..MaxCoreFaults

CoreInit ==
    /\ open = [c \in Conn |-> "none"] /\ reqID = [c \in Conn |-> 0]
    /\ pending = [c \in Conn |-> <<>>]
    /\ inbox = [c \in Conn |-> <<>>] /\ outbox = [c \in Conn |-> <<>>]
    /\ call = [x \in Caller |-> NoCall] /\ mine = [x \in Caller |-> Nil]
    /\ pc = [x \in Caller |-> "new"] /\ mu = Nil /\ client = Nil /\ sessions = {}
    /\ host = FALSE /\ attended = {}
    /\ http = [k \in Sas |-> "idle"] /\ waiters = {} /\ box = [k \in Sas |-> Nil] /\ results = {}
    /\ coreFaults = 0

Fault == coreFaults < MaxCoreFaults /\ coreFaults' = coreFaults + 1

-----------------------------------------------------------------------------
(* coreclient.Client *)

\* The number of calls that wait, rather than of calls that were made.
IdByWaiting(c) == Cardinality(DOMAIN pending[c]) + 1

NextId(c) == reqID[c] + 1

\* roundTrip: a connection that is closed or dead fails the call; otherwise it
\* is entered in the table and written.
RoundTrip(x, c, o) ==
    IF open[c] = "open"
    THEN LET id == NextId(c) IN
         /\ reqID' = [reqID EXCEPT ![c] = id]
         /\ pending' = [pending EXCEPT ![c] = [i \in DOMAIN @ \cup {id} |-> IF i = id THEN x ELSE @[i]]]
         /\ inbox' = [inbox EXCEPT ![c] = Append(@, [id |-> id, op |-> o, by |-> x])]
         /\ call' = [call EXCEPT ![x] = [conn |-> c, id |-> id, op |-> o, res |-> Nil, from |-> Nil]]
         /\ UNCHANGED <<open, outbox>>
    ELSE /\ call' = [call EXCEPT ![x] = [conn |-> c, id |-> 0, op |-> o, res |-> "err", from |-> Nil]]
         /\ UNCHANGED rpc

\* The calls that wait on c are answered with an error.
Wake(c) ==
    call' = [x \in Caller |-> IF x \in Range(pending[c]) THEN [call[x] EXCEPT !.res = "err"]
                                                        ELSE call[x]]

\* The table is emptied and nobody told.
CloseQuietly(c) ==
    /\ open' = [open EXCEPT ![c] = "closed"] /\ pending' = [pending EXCEPT ![c] = <<>>]
    /\ outbox' = [outbox EXCEPT ![c] = <<>>] /\ UNCHANGED <<reqID, inbox, call>>

\* Close: the calls that wait are woken with an error.
Close(c) ==
    /\ open' = [open EXCEPT ![c] = "closed"] /\ pending' = [pending EXCEPT ![c] = <<>>]
    /\ Wake(c) /\ outbox' = [outbox EXCEPT ![c] = <<>>] /\ UNCHANGED <<reqID, inbox>>

\* readPump: a response goes to the call with its id, if it still waits.
PumpReads(c) ==
    /\ open[c] = "open" /\ outbox[c] # <<>>
    /\ LET r == Head(outbox[c]) IN
       IF r.id \in DOMAIN pending[c]
       THEN /\ call' = [call EXCEPT ![pending[c][r.id]].res = IF r.ok THEN "ok" ELSE "rejected",
                                    ![pending[c][r.id]].from = r]
            /\ pending' = [pending EXCEPT ![c] = Restrict(@, DOMAIN @ \ {r.id})]
       ELSE UNCHANGED <<call, pending>>
    /\ outbox' = [outbox EXCEPT ![c] = Tail(@)]
    /\ UNCHANGED <<open, reqID, inbox, mine, desktop, host, attended, sas, coreFaults>>

\* A timer: the call is taken out of the table; its answer may come later.
TimesOut(x) ==
    /\ call[x].op # Nil /\ call[x].res = Nil
    /\ call' = [call EXCEPT ![x].res = "err"]
    /\ LET c == call[x].conn IN pending' = [pending EXCEPT ![c] = Restrict(@, DOMAIN @ \ {call[x].id})]
    /\ Fault
    /\ UNCHANGED <<open, reqID, inbox, outbox, mine, desktop, host, attended, sas>>

-----------------------------------------------------------------------------
(* xnc-core *)

\* ServeFrames: one request of a connection after the other.  A capture is
\* started once, or refused; stopping it is always granted.
CoreServes(c) ==
    /\ inbox[c] # <<>>
    /\ LET r == Head(inbox[c])
           Reply(ok) == outbox' = IF open[c] = "open"
                                  THEN [outbox EXCEPT ![c] = Append(@, Response(r.op, r.id, r.by, ok))]
                                  ELSE outbox
       IN \/ r.op = "ping" /\ Reply(TRUE) /\ UNCHANGED <<host, attended>>
          \/ r.op = "start" /\ host' = TRUE /\ Reply(TRUE) /\ UNCHANGED attended
          \/ r.op = "start" /\ ~host /\ Reply(FALSE) /\ UNCHANGED <<host, attended>>
          \/ r.op = "stop" /\ host' = FALSE /\ Reply(TRUE) /\ UNCHANGED attended
          \/ r.op = "sas" /\ attended' = attended \cup {r.by} /\ Reply(TRUE) /\ UNCHANGED host
          \/ r.op = "sas" /\ Reply(FALSE) /\ UNCHANGED <<host, attended>>
    /\ inbox' = [inbox EXCEPT ![c] = Tail(@)]
    /\ UNCHANGED <<open, reqID, pending, call, mine, desktop, sas, coreFaults>>

\* What the core has not read of a connection that was closed is lost.
CoreDrops(c) ==
    /\ open[c] = "closed" /\ inbox[c] # <<>>
    /\ inbox' = [inbox EXCEPT ![c] = <<>>]
    /\ UNCHANGED <<open, reqID, pending, outbox, call, mine, desktop, host, attended, sas, coreFaults>>

\* The core restarts: the host goes with it, and readPump of every connection
\* fails and wakes the calls that wait.
CoreRestarts ==
    /\ Fault /\ \E c \in Conn : open[c] = "open"
    /\ open' = [c \in Conn |-> IF open[c] = "open" THEN "dead" ELSE open[c]]
    /\ pending' = [c \in Conn |-> <<>>]
    /\ inbox' = [c \in Conn |-> <<>>] /\ outbox' = [c \in Conn |-> <<>>]
    /\ call' = [x \in Caller |-> IF \E c \in Conn : x \in Range(pending[c])
                                 THEN [call[x] EXCEPT !.res = "err"] ELSE call[x]]
    /\ host' = FALSE
    /\ UNCHANGED <<reqID, mine, desktop, attended, sas>>

-----------------------------------------------------------------------------
(* desktop.Handler *)

Stands(x, l) == pc[x] = l
Goes(x, l) == pc' = [pc EXCEPT ![x] = l]
Returned(x) == call[x].res # Nil
Done(x) == call' = [call EXCEPT ![x] = NoCall]

\* Dial: a new connection, its handshake done.
Opens(c) ==
    /\ \A e \in Conn : open[e] = "none" <=> e >= c
    /\ open' = [open EXCEPT ![c] = "open"]
    /\ UNCHANGED <<reqID, pending, inbox, outbox>>

\* SessionStart: under the mutex the connection there is is pinged ...
SessionStart(d) ==
    /\ Stands(d, "new") /\ mu = Nil /\ mu' = d
    /\ IF client = Nil THEN Goes(d, "dial") /\ UNCHANGED <<rpc, call>>
                        ELSE Goes(d, "ping") /\ RoundTrip(d, client, "ping")
    /\ UNCHANGED <<mine, client, sessions, host, attended, sas, coreFaults>>

\* ... and kept, or closed, with whoever else is in a call on it ...
EnsureClient(d) ==
    /\ Stands(d, "ping") /\ Returned(d)
    /\ IF call[d].res = "ok"
       THEN /\ mu' = Nil /\ mine' = [mine EXCEPT ![d] = client] /\ Goes(d, "start") /\ Done(d)
            /\ UNCHANGED <<rpc, client>>
       ELSE /\ Close(client) /\ client' = Nil /\ Goes(d, "dial") /\ UNCHANGED <<mu, mine>>
    /\ UNCHANGED <<sessions, host, attended, sas, coreFaults>>

\* ... and another one dialled, if that can be.
Dials(d) ==
    /\ Stands(d, "dial") /\ mu' = Nil
    /\ \/ \E c \in Conn : Opens(c) /\ client' = c /\ mine' = [mine EXCEPT ![d] = c]
          /\ Goes(d, "start") /\ UNCHANGED coreFaults
       \/ /\ Fault
          /\ Goes(d, "ended") /\ UNCHANGED <<rpc, client, mine>>
    /\ UNCHANGED <<call, sessions, host, attended, sas>>

\* StartCapture.
StartCapture(d) ==
    /\ Stands(d, "start") /\ Goes(d, "starting") /\ RoundTrip(d, mine[d], "start")
    /\ UNCHANGED <<mine, mu, client, sessions, host, attended, sas, coreFaults>>
CaptureStarted(d) ==
    /\ Stands(d, "starting") /\ Returned(d) /\ Done(d)
    /\ Goes(d, IF call[d].res = "ok" THEN "record" ELSE "ended")
    /\ UNCHANGED <<rpc, mine, mu, client, sessions, host, attended, sas, coreFaults>>

\* The session counts from here on.
Record(d) ==
    /\ Stands(d, "record") /\ mu = Nil
    /\ sessions' = sessions \cup {d} /\ Goes(d, "serving")
    /\ UNCHANGED <<rpc, call, mine, mu, client, host, attended, sas, coreFaults>>

SessionClose(d) ==
    /\ Stands(d, "serving") /\ Goes(d, "release")
    /\ UNCHANGED <<rpc, call, mine, mu, client, sessions, host, attended, sas, coreFaults>>

\* The count is read before the session is taken out of it.
ReleaseLate(d) ==
    /\ Stands(d, "release") /\ mu = Nil
    /\ sessions' = sessions \ {d}
    /\ Goes(d, IF sessions = {} /\ client # Nil THEN "stop" ELSE "ended")
    /\ mine' = [mine EXCEPT ![d] = client]
    /\ UNCHANGED <<rpc, call, mu, client, host, attended, sas, coreFaults>>

\* release: the last session stops the capture, on the connection there is.
Release(d) ==
    /\ Stands(d, "release") /\ mu = Nil
    /\ sessions' = sessions \ {d}
    /\ Goes(d, IF sessions' = {} /\ client # Nil THEN "stop" ELSE "ended")
    /\ mine' = [mine EXCEPT ![d] = client]
    /\ UNCHANGED <<rpc, call, mu, client, host, attended, sas, coreFaults>>

StopCapture(d) ==
    /\ Stands(d, "stop") /\ Goes(d, "stopping") /\ RoundTrip(d, mine[d], "stop")
    /\ UNCHANGED <<mine, mu, client, sessions, host, attended, sas, coreFaults>>
CaptureStopped(d) ==
    /\ Stands(d, "stopping") /\ Returned(d) /\ Done(d) /\ Goes(d, "ended")
    /\ UNCHANGED <<rpc, mine, mu, client, sessions, host, attended, sas, coreFaults>>

-----------------------------------------------------------------------------
(* The secure attention sequence: the server's handler and the agent's. *)

\* nodeSas: the waiter is registered and the request sent, or taken back.
NodeSas(k) ==
    /\ http[k] = "idle"
    /\ \/ /\ http' = [http EXCEPT ![k] = "waiting"] /\ waiters' = waiters \cup {k}
          /\ Goes(k, "dial") /\ UNCHANGED coreFaults
       \/ /\ Fault /\ http' = [http EXCEPT ![k] = "undelivered"] /\ UNCHANGED <<waiters, pc>>
    /\ UNCHANGED <<rpc, call, mine, mu, client, sessions, host, attended, box, results>>

\* handleSasRequest: a connection of its own; without one the answer is no.
SasDials(k) ==
    /\ Stands(k, "dial")
    /\ \/ \E c \in Conn : Opens(c) /\ mine' = [mine EXCEPT ![k] = c]
          /\ Goes(k, "start") /\ UNCHANGED <<results, coreFaults>>
       \/ /\ Fault /\ results' = results \cup {<<k, "rejected">>}
          /\ Goes(k, "ended") /\ UNCHANGED <<rpc, mine>>
    /\ UNCHANGED <<call, mu, client, sessions, host, attended, http, waiters, box>>

SendSAS(k) ==
    /\ Stands(k, "start") /\ Goes(k, "sending") /\ RoundTrip(k, mine[k], "sas")
    /\ UNCHANGED <<mine, mu, client, sessions, host, attended, sas, coreFaults>>

\* The connection is closed and the result sent, unless the control connection
\* is gone.
SasReturns(k) ==
    /\ Stands(k, "sending") /\ Returned(k) /\ Goes(k, "ended") /\ Close(mine[k])
    /\ \/ results' = results \cup {<<k, IF call[k].res = "ok" THEN "ok" ELSE "rejected">>}
          /\ UNCHANGED coreFaults
       \/ Fault /\ UNCHANGED results
    /\ UNCHANGED <<mine, mu, client, sessions, host, attended, http, waiters, box>>

\* sasDeliver: to the waiter, which is taken out of the map, or to nobody.
SasDeliver(k) ==
    \E v \in {"ok", "rejected"} :
       /\ <<k, v>> \in results /\ results' = results \ {<<k, v>>}
       /\ IF k \in waiters
          THEN waiters' = waiters \ {k} /\ box' = [box EXCEPT ![k] = v]
          ELSE UNCHANGED <<waiters, box>>
       /\ UNCHANGED <<rpc, call, mine, desktop, host, attended, http, coreFaults>>

\* nodeSas again: the result, although the timer may have fired as well.
SasAnswered(k) ==
    /\ http[k] = "waiting" /\ box[k] # Nil
    /\ http' = [http EXCEPT ![k] = box[k]]
    /\ UNCHANGED <<rpc, call, mine, desktop, host, attended, waiters, box, results, coreFaults>>

\* The timer takes the waiter out; a result that is late finds nobody.
SasTimeout(k) ==
    /\ http[k] = "waiting" /\ http' = [http EXCEPT ![k] = "timeout"]
    /\ waiters' = waiters \ {k}
    /\ UNCHANGED <<rpc, call, mine, desktop, host, attended, box, results, coreFaults>>

-----------------------------------------------------------------------------
Core == \E c \in Conn : CoreServes(c) \/ CoreDrops(c)
ReadPump == \E c \in Conn : PumpReads(c)
Session(d) == \/ EnsureClient(d) \/ Dials(d) \/ StartCapture(d)
              \/ CaptureStarted(d) \/ Record(d) \/ Release(d) \/ StopCapture(d) \/ CaptureStopped(d)
AgentSas(k) == SasDials(k) \/ SendSAS(k) \/ SasReturns(k)

CoreNext == \/ \E x \in Caller : TimesOut(x)
        \/ Core \/ ReadPump \/ CoreRestarts
        \/ \E d \in Desk : SessionStart(d) \/ Session(d) \/ SessionClose(d)
        \/ \E k \in Sas : NodeSas(k) \/ AgentSas(k) \/ SasDeliver(k) \/ SasAnswered(k) \/ SasTimeout(k)

\* The core serves and the agent's goroutines run; sessions need neither be
\* opened nor closed, and no call is saved by its timer.
CoreFairness ==
    /\ \A c \in Conn : WF_coreVars(CoreServes(c)) /\ WF_coreVars(PumpReads(c))
    /\ \A d \in Desk : WF_coreVars(Session(d))
    /\ \A k \in Sas : WF_coreVars(AgentSas(k))

CoreSpec == CoreInit /\ [][CoreNext]_coreVars /\ CoreFairness

-----------------------------------------------------------------------------
(* What holds. *)

\* An answer is the answer to the call that takes it, although a call that
\* timed out leaves its answer on the way (roundTrip, readPump).
AnswerIsOwn ==
    \A x \in Caller : call[x].from # Nil =>
        call[x].from.by = x /\ call[x].from.op = call[x].op

\* A request for the sequence that was answered leaves no waiter, whether the
\* result or the timer came first; what is reported as done was done.
SasSettled ==
    \A k \in Sas : /\ http[k] \in {"ok", "rejected", "timeout", "undelivered"} => k \notin waiters
                   /\ http[k] = "ok" => k \in attended

\* A call returns without its timer: answered, or woken because the connection
\* was lost or another session closed it (readPump, Close).
CallReturns == \A x \in Caller : call[x].op # Nil /\ call[x].res = Nil ~> call[x].res # Nil

\* When every session has ended the capture is stopped, in whatever order they
\* opened and closed, as long as no call failed (release).
CaptureReleased == (\A d \in Desk : Stands(d, "ended")) ~> ~host \/ coreFaults > 0

(* What does not hold. *)

\* A session that is served has its capture: the count is taken apart from the
\* calls, so the last session's stop may follow the next one's start.
ServedHasHost == coreFaults = 0 /\ (\E d \in Desk : Stands(d, "serving")) => host

\* The capture is stopped in the end, whatever fails.
CaptureAlwaysReleased == (\A d \in Desk : Stands(d, "ended")) ~> ~host

\* A session that finds the connection dead to its ping does not fail what the
\* other sessions wait for on it: the core answers one request at a time, and a
\* ping behind a capture that is slow to start times out (ensureClientLocked).
PingSparesOthers ==
    [][\A d, e \in Desk : d # e /\ EnsureClient(e) => call'[d] = call[d]]_coreVars
=============================================================================
