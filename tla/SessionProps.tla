---------------------------- MODULE SessionProps ---------------------------
(***************************************************************************)
(* What must hold of a session: memory and descriptors, wake-ups, replies, *)
(* the relayed streams, and what must happen under the fairness of the     *)
(* event loop.                                                             *)
(***************************************************************************)
EXTENDS Session

Running == state \notin {"NO_STATE", "CLOSED"}

\* An event taken from the batch, or an answer of the resolver, never reaches a
\* Data or Shared that an earlier event of the same batch has freed: events are
\* served long after epoll_wait returned their pointers, and the resolver keeps
\* a Shared pointer while the client may hang up.
PendingEventsLive ==
  /\ \A s \in Side : batch[s] # {} => data[s] /\ fd[s] = "open"
  /\ dns # "idle" \/ batch["resolver"] # {} =>
       mem = {"shared", "info"} /\ data["client"] /\ state = "ASYNC_DNS"

\* free_data frees info and both buffers with the first Data; every handler but
\* closed dereferences them, so until STATE_CLOSED both must still be there.
InfoLive == Running => mem = {"shared", "info"} /\ data["client"]

\* Every EPOLL_CTL_MOD finds its descriptor registered: a handler re-arms the
\* client in every running state, the server while connecting and relaying.
RearmsRegistered ==
  /\ Running => fd["client"] = "open" /\ reg["client"] # {}
  /\ state \in {"CONNECTING", "BIND_LISTENING", "SENDING_REPLY_2", "FULL", "HALF_CLOSE"} =>
       data["server"] /\ fd["server"] = "open" /\ reg["server"] # {}

\* No lost wake-up and no spinning: EPOLLOUT is armed exactly while there is
\* something to send, although one handler fills a buffer, another drains it,
\* and a third, of the other descriptor, arms it.
WakeupArmed ==
  /\ state \in {"SENDING_METHOD", "SENDING_REPLY", "SENDING_REPLY_2"} =>
       client_out > 0 /\ "OUT" \in reg["client"]
  /\ state \in {"WAITING_METHODS", "WAITING_COMMAND", "ASYNC_DNS", "CONNECTING",
                "BIND_LISTENING", "FULL_UDPA"} =>
       client_out = 0 /\ reg["client"] = {"IN"}
  /\ state = "FULL" =>
       \A s \in Side : "IN" \in reg[s] /\ (OutOf(s) > 0 <=> "OUT" \in reg[s])

\* Relaying starts only after the client was granted its command and has been
\* sent every reply: one for connect, two for bind.  Bytes of the server that
\* arrive earlier wait in the kernel and never overtake the reply.
RelayAfterReply ==
  state = "FULL" =>
    /\ cmd \in {"CONN", "BIND"}
    /\ replies = [i \in 1 .. GrantsOf(cmd) |-> "SUCCESS"]
    /\ dlv["client"] >= 1 + GrantsOf(cmd)

\* A literal address the firewall blocks is never contacted, whatever the
\* command: the refusal comes before any socket exists and is the only reply.
BlockedNeverReached ==
  req.blocked /\ req.atyp \in Family =>
    fd["server"] = "none" /\ ssock = "none" /\ replies \in {<< >>, <<"RULESET">>}

\* A connect that was granted is final: no reply follows it.
GrantIsFinal ==
  [][cmd = "CONN" /\ replies # << >> /\ replies[Len(replies)] = "SUCCESS"
       => replies' = replies]_vars

\* The server gets every byte the client sends after its request, and only
\* those: nothing of the request is forwarded, no early data is lost and no
\* read is dropped.  It holds while what is sent fits into the buffers.
UpstreamExact ==
  state = "FULL" =>
    sent["client"] - unread["client"] =
      MethLen + WireLen(req.atyp) + dlv["server"] + server_out

\* The same for the client: after the method reply and the command replies it
\* gets what the server sent.
DownstreamExact ==
  state = "FULL" =>
    (1 + Len(replies)) + sent["server"] - unread["server"] = dlv["client"] + client_out

\* What the proxy has read from an end.
Taken(s) == sent[s] - unread[s]

\* A read of s for which the other buffer has no room: nothing of it is kept.
Overflows(s) ==
  /\ state = "FULL" /\ unread'[s] < unread[s]
  /\ OutOf(Peer(s)) + AtMost(unread[s], ReadMax) > Cap

\* Whoever sends what and when, a client's stream is short of what the server
\* sent only by reads that found its buffer full: none is lost when the relay
\* starts, to a partial send, or in a buffer that has just enough room.
DownstreamKept == [][DownstreamExact /\ ~DownstreamExact' => Overflows("server")]_vars

\* More than the request was read by the time the relay starts, or a request by
\* name was taken for complete one byte early.
EarlyData == Taken("client") > MethLen + WireLen(req.atyp)
NameCut == req.atyp = "DOMN" /\ Taken("client") < MethLen + WireLen(req.atyp)

\* The same for the server, which besides misses what the client sent behind its
\* request before it was answered, and may be sent the last byte of a name's port.
UpstreamKept ==
  [][UpstreamExact /\ ~UpstreamExact'
       => Overflows("client") \/ (state # "FULL" /\ (EarlyData \/ NameCut))]_vars

\* docs/data_structures.md:61: what the proxy took from a server that closed in
\* order is flushed before the session of a client that is still there is closed.
FlushedBeforeClose ==
  state = "CLOSED" /\ gone["server"] /\ ~gone["client"] => client_out = 0

\* A success reply to connect means that there is a connection.
GrantedIsConnected ==
  cmd = "CONN" /\ replies # << >> /\ replies[Len(replies)] = "SUCCESS" =>
    ssock = "connected"

\* README.md:159 and :164: one reply to a command, two to a bind.
RepliesPerCommand == Len(replies) <= GrantsOf(cmd)

\* README.md:146: the reply to a failed connection names its error.
ProperErrorCode ==
  state = "SENDING_REPLY" /\ ssock = "failed" =>
    rep = CASE soerr = ENETUNREACH -> "NUNRECH"
            [] soerr = EHOSTUNREACH -> "HUNRECH"
            [] soerr = ETIMEDOUT -> "TTLEXPR"
            [] soerr = ECONNREFUSED -> "REFUSED"
            [] OTHER -> "GENFAIL"

\* Every open descriptor belongs to a Data, through which closed can close it.
NoOrphans == orphan = 0

\* A path that leaves a descriptor behind is taken once: whatever fails first
\* ends the session's attempt, so that no retry and no second connection to the
\* bind listener leaves another.
OrphansBounded == orphan <= 1

\* The life of the two ends, seen from outside.
Life == INSTANCE Lifecycle WITH
  phase <- IF state = "NO_STATE" THEN "start"
           ELSE IF state = "CLOSED" THEN "closing"
           ELSE IF state \in {"FULL", "HALF_CLOSE", "FULL_UDPA"} THEN "relay"
           ELSE "handshake",
  ends <- {s \in Side : data[s]},
  record <- mem
ImplementsLifecycle == Life!Spec
-----------------------------------------------------------------------------
(* Fairness.  One thread runs the loop and never blocks in a handler; epoll *)
(* is level-triggered and rotates its ready list, so that a descriptor that *)
(* stays ready is reported; both remote ends keep reading, which makes room *)
(* to send; the kernel ends every connection attempt.                       *)

Fairness ==
  /\ WF_vars(accept_new_client)
  /\ WF_vars(resolve_ret)
  /\ \A s \in Side :
       /\ WF_vars(Handle(s))
       /\ SF_vars(epoll_wait /\ batch'[s] # {})
       /\ SF_vars(epoll_wait /\ "OUT" \in batch'[s])
  /\ SF_vars(epoll_wait /\ batch'["resolver"] # {})
  /\ WF_vars(ConnectEnds)

FairSpec == Spec /\ Fairness

\* A client that has sent its whole request and stays gets a reply.
RequestAnswered ==
  (sent["client"] >= MethLen + WireLen(req.atyp) /\ ~gone["client"])
    ~> (replies # << >> \/ state = "CLOSED" \/ gone["client"])

\* A refusal is delivered or fails, and the client's end is released.
RefusalEnds ==
  (state = "SENDING_REPLY" /\ rep # "SUCCESS") ~> ~data["client"]

\* After a failed connection both ends and all memory are given back: the dead
\* socket keeps reporting EPOLLOUT until closed serves it.
FailedConnectReleased ==
  (state = "SENDING_REPLY" /\ ssock = "failed") ~> mem = {}

\* A buffered byte moves on, or the session leaves STATE_FULL.
StreamMoves ==
  \A s \in Side : \A k \in 0 .. (MaxClient + MaxServer) :
    (state = "FULL" /\ OutOf(s) > 0 /\ dlv[s] = k) ~> (state # "FULL" \/ dlv[s] > k)

\* Once a stream has ended the session closes and at least one end is released.
HalfCloseEnds ==
  state = "HALF_CLOSE" ~> (state = "CLOSED" /\ \E s \in Side : ~data[s])

\* A closed session gives back all it had.
ClosedReleases == state = "CLOSED" ~> mem = {}
============================================================================
