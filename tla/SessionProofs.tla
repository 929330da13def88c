--------------------------- MODULE SessionProofs ---------------------------
(***************************************************************************)
(* Type correctness of a session, and the safety invariants about memory,  *)
(* descriptors and wake-ups, for every configuration and every client;     *)
(* then what a client is told, and the relayed streams.                    *)
(*                                                                         *)
(* None of the first is inductive: whether a Data may be dereferenced      *)
(* depends on what is registered, on what is still in the batch, and on    *)
(* the state.  Shape says how these go together, state by state.           *)
(***************************************************************************)
EXTENDS SessionProps, WellFoundedInduction, TLAPS

NoServerYet == {"NO_STATE", "WAITING_METHODS", "SENDING_METHOD", "WAITING_COMMAND",
                "ASYNC_DNS"}
Quiet == {"WAITING_METHODS", "WAITING_COMMAND", "ASYNC_DNS", "CONNECTING",
          "BIND_LISTENING", "FULL_UDPA"}
Granted == state = "SENDING_REPLY" /\ rep = "SUCCESS"

\* Before a client is there: nothing.
Nothing ==
  state = "NO_STATE" =>
    /\ \A s \in Side : ~data[s] /\ reg[s] = {}
    /\ client_out = 0 /\ server_out = 0 /\ mem = {} /\ dns = "idle"

\* Until STATE_CLOSED the client's end is whole.
ClientEnd ==
  Running => /\ mem = {"shared", "info"} /\ data["client"]
             /\ fd["client"] = "open" /\ "IN" \in reg["client"]

\* The server's end: not there, or registered with nothing buffered for it
\* before the relay starts.
ServerEnd ==
  /\ state \in NoServerYet => ~data["server"] /\ reg["server"] = {}
  /\ state \in {"CONNECTING", "BIND_LISTENING", "SENDING_REPLY_2"} \/ Granted =>
       /\ data["server"] /\ fd["server"] = "open" /\ server_out = 0
       /\ reg["server"] = IF state = "CONNECTING" THEN {"OUT"} ELSE {"IN"}
  /\ state \in {"FULL", "HALF_CLOSE"} =>
       data["server"] /\ fd["server"] = "open" /\ reg["server"] # {}

\* What is registered can be dereferenced, and what waits to be served is still
\* registered.
Registered ==
  \A s \in Side : /\ reg[s] # {} => data[s] /\ fd[s] = "open"
                  /\ batch[s] # {} => reg[s] # {}

\* The resolver holds a Shared pointer only in STATE_ASYNC_DNS.
Lookup ==
  /\ dns # "idle" => state = "ASYNC_DNS"
  /\ batch["resolver"] # {} => dns # "idle"

\* What is buffered for an end, and whether its EPOLLOUT is armed.
Buffered ==
  /\ state = "SENDING_METHOD" => client_out = 1 /\ reg["client"] = Ev
  /\ state \in {"SENDING_REPLY", "SENDING_REPLY_2"} =>
       client_out \in 1 .. 3 /\ reg["client"] = Ev
  /\ state \in Quiet => client_out = 0 /\ reg["client"] = {"IN"}
  /\ state = "FULL" =>
       \A s \in Side : "IN" \in reg[s] /\ (OutOf(s) > 0 <=> "OUT" \in reg[s])

\* What the kernel holds was sent.
Sent == \A s \in Side : unread[s] <= sent[s]

Shape == Nothing /\ ClientEnd /\ ServerEnd /\ Registered /\ Lookup /\ Buffered /\ Sent
IInv == TypeOK /\ Shape
-----------------------------------------------------------------------------
(* Replies.                                                                *)

\* What reply_with_err may be called with, one call after another.
Errors == Rep \ {"SUCCESS"}
ErrorCodes == {codes \in Seq(Rep) : Len(codes) \in 1 .. 3 /\ codes[Len(codes)] \in Errors}

\* A reply queued by waitingcommand before the replies of init_command.
LEMMA PrefixedCodes ==
  ASSUME NEW pre \in Seq(Rep), Len(pre) <= 1,
         NEW codes \in ErrorCodes, 1 <= Len(codes), Len(codes) <= 2
  PROVE  pre \o codes \in ErrorCodes
<1> DEFINE all == pre \o codes
<1>1. codes \in Seq(Rep) /\ codes[Len(codes)] \in Errors
  BY DEF ErrorCodes
<1>2. /\ all \in Seq(Rep) /\ Len(all) = Len(pre) + Len(codes)
      /\ all[Len(all)] = codes[Len(codes)]
  BY <1>1
<1> HIDE DEF all
<1>3. Len(all) \in 1 .. 3
  BY <1>1, <1>2
<1>4. all[Len(all)] \in Errors
  BY <1>1, <1>2
<1>5. all \in ErrorCodes
  BY <1>2, <1>3, <1>4 DEF ErrorCodes
<1> QED BY <1>5 DEF all

\* The codes a handler queues: a refusal once or twice, after a failed lookup or not.
LEMMA CodesAreErrors ==
  ASSUME NEW pre \in {<< >>, <<"GENFAIL">>}, NEW c \in Errors
  PROVE  <<c>> \in ErrorCodes /\ pre \o <<c>> \in ErrorCodes /\ pre \o <<c, c>> \in ErrorCodes
<1> DEFINE one == <<c>>
           two == <<c, c>>
<1>1. pre \in Seq(Rep) /\ Len(pre) <= 1
  <2>1. CASE pre = << >>
    BY <2>1
  <2>2. CASE pre = <<"GENFAIL">>
    BY <2>2 DEF Rep
  <2> QED BY <2>1, <2>2
<1>2. one \in ErrorCodes /\ two \in ErrorCodes
  <2>1. c \in Rep
    BY DEF Errors
  <2> QED BY <2>1 DEF ErrorCodes
<1>3. 1 <= Len(one) /\ Len(one) <= 2 /\ 1 <= Len(two) /\ Len(two) <= 2
  <2>1. one \in Seq({c}) /\ Len(one) = 1
    OBVIOUS
  <2>2. two \in Seq({c}) /\ Len(two) = 2
    OBVIOUS
  <2> QED BY <2>1, <2>2
<1> HIDE DEF one, two
<1>4. pre \o one \in ErrorCodes /\ pre \o two \in ErrorCodes
  BY <1>1, <1>2, <1>3, PrefixedCodes, Zenon
<1> QED BY <1>2, <1>4 DEF one, two

\* What is left by the replies of a refusal when nothing was buffered.
Refused ==
  /\ rep' \in Errors /\ replies' \in Seq(Rep)
  /\ client_out' \in 1 .. 3 /\ state' = "SENDING_REPLY"

\* reply_with_err with an empty client_out: at most three replies are waiting.
LEMMA Refusal ==
  ASSUME client_out = 0, replies \in Seq(Rep), NEW codes \in ErrorCodes,
         reply_with_err(codes)
  PROVE  Refused
<1>1. replies \o codes \in Seq(Rep)
  BY DEF ErrorCodes
<1> QED BY <1>1 DEF reply_with_err, ErrorCodes, Refused
-----------------------------------------------------------------------------
(* The commands.                                                           *)

\* What init_command leaves: a connection under way, or a reply to send.
CommandDone ==
  /\ rep' \in Rep \cup {"UNSET"} /\ replies' \in Seq(Rep)
  /\ server_out' \in 0 .. Cap /\ ai_index' \in Nat /\ orphan' \in Nat /\ ssock' \in Socket
  /\ data' \in [Side -> BOOLEAN] /\ data'["client"]
  /\ fd' \in [Side -> {"none", "open", "closed"}] /\ fd'["client"] = "open"
  /\ reg' \in [Side -> SUBSET Ev]
  /\ reg'["server"] # {} => data'["server"] /\ fd'["server"] = "open"
  /\ \/ /\ state' = "CONNECTING" /\ client_out' = 0 /\ server_out' = 0
        /\ reg'["client"] = {"IN"} /\ reg'["server"] = {"OUT"}
     \/ /\ state' = "SENDING_REPLY" /\ client_out' \in 1 .. 3
        /\ reg'["client"] = Ev
        /\ rep' = "SUCCESS" => server_out' = 0 /\ reg'["server"] = {"IN"}

\* init_command, whatever call of init_connect, init_bind or init_udpa fails.
LEMMA CommandStep ==
  ASSUME IInv, state \in {"WAITING_COMMAND", "ASYNC_DNS"},
         NEW command, NEW fam, NEW pre \in {<< >>, <<"GENFAIL">>}, NEW used \in 0 .. Cap,
         init_command(command, fam, pre, used)
  PROVE  CommandDone
<1> DEFINE Typed == /\ rep \in Rep \cup {"UNSET"} /\ replies \in Seq(Rep)
                    /\ ai_index \in Nat /\ orphan \in Nat /\ ssock \in Socket
                    /\ data \in [Side -> BOOLEAN]
                    /\ fd \in [Side -> {"none", "open", "closed"}]
                    /\ reg \in [Side -> SUBSET Ev]
<1>1. Typed
  BY DEF IInv, TypeOK, InfoOK, OwnOK, KernOK, HistOK
<1>2. /\ client_out = 0 /\ reg["client"] = {"IN"} /\ reg["server"] = {}
      /\ data["client"] /\ fd["client"] = "open"
  BY DEF IInv, Shape, Buffered, Quiet, ClientEnd, Running, ServerEnd, NoServerYet
<1>3. /\ <<"GENFAIL">> \in ErrorCodes /\ <<"BADATYP">> \in ErrorCodes
      /\ pre \o <<"GENFAIL">> \in ErrorCodes
      /\ pre \o <<"BADCOMM", "BADCOMM">> \in ErrorCodes
  <2>1. "GENFAIL" \in Errors /\ "BADATYP" \in Errors /\ "BADCOMM" \in Errors
    BY DEF Errors, Rep
  <2> QED BY <2>1, CodesAreErrors
<1>4. ASSUME NEW codes \in ErrorCodes, reply_with_err(codes)
      PROVE  Refused
  BY <1>1, <1>2, <1>4, Refusal
<1>a. Cap \in Nat
  BY SizeAssumption
<1>5. ASSUME Refused, NoServer \/ (UNCHANGED <<data, fd, ssock, ai_index>> /\ orphan' = orphan + 1),
             ep_waiting_send("client"), server_out' = used
      PROVE  CommandDone
  BY <1>1, <1>2, <1>5, <1>a DEF Refused, NoServer, ep_waiting_send, CommandDone, Side, Ev, Errors
<1>6. CASE command = "CONN" /\ init_connect(used)
  <2>1. CASE CommandFails(used) /\ NoServer
    BY <2>1, <1>3, <1>4, <1>5 DEF CommandFails
  <2>2. CASE /\ CommandFails(used) /\ orphan' = orphan + 1
             /\ UNCHANGED <<data, fd, ssock, ai_index>>
    BY <2>2, <1>3, <1>4, <1>5 DEF CommandFails
  <2>3. CASE /\ CommandFails(0) /\ ServerData
             /\ fd' = [fd EXCEPT !["server"] = "open"] /\ ssock' = "connecting"
             /\ ai_index' = 0 /\ UNCHANGED orphan
    <3>1. Refused
      BY <2>3, <1>3, <1>4 DEF CommandFails
    <3> QED BY <3>1, <2>3, <1>1, <1>2, <1>a DEF CommandFails, ServerData, ep_waiting_send,
            Refused, CommandDone, Side, Ev, Socket, Errors
  <2>4. CASE /\ ServerData
             /\ fd' = [fd EXCEPT !["server"] = "open"] /\ ssock' = "connecting"
             /\ reg' = [reg EXCEPT !["server"] = {"OUT"}]
             /\ server_out' = 0 /\ state' = "CONNECTING" /\ ai_index' = 0
             /\ UNCHANGED <<orphan, rep, client_out, replies>>
    BY <2>4, <1>1, <1>2, <1>a DEF ServerData, CommandDone, Side, Ev, Socket
  <2> QED BY <1>6, <2>1, <2>2, <2>3, <2>4 DEF init_connect
<1>7. ASSUME NEW sock \in Socket, ReplyAndListen(sock)
      PROVE  CommandDone
  <2>1. Append(replies, "SUCCESS") \in Seq(Rep)
    BY <1>1 DEF Rep
  <2>2. replies \o <<"SUCCESS", "GENFAIL">> \in Seq(Rep)
    BY <1>1 DEF Rep
  <2>3. /\ data' = [data EXCEPT !["server"] = TRUE]
        /\ fd' = [fd EXCEPT !["server"] = "open"] /\ ssock' = sock
        /\ server_out' = 0 /\ UNCHANGED <<orphan, ai_index>>
    BY <1>7 DEF ReplyAndListen, ServerData
  <2>4. CASE /\ reg' = [s \in Side |-> IF s = "client" THEN Ev ELSE {"IN"}]
             /\ rep' = "SUCCESS" /\ client_out' = client_out + 1
             /\ replies' = Append(replies, "SUCCESS") /\ state' = "SENDING_REPLY"
    BY <2>1, <2>3, <2>4, <1>1, <1>2, <1>a DEF CommandDone, Side, Ev, Rep
  <2>5. CASE /\ ep_waiting_send("client")
             /\ rep' = "GENFAIL" /\ client_out' = client_out + 2
             /\ replies' = replies \o <<"SUCCESS", "GENFAIL">> /\ state' = "SENDING_REPLY"
    BY <2>2, <2>3, <2>5, <1>1, <1>2, <1>a DEF ep_waiting_send, CommandDone, Side, Ev, Rep
  <2> QED BY <1>7, <2>4, <2>5 DEF ReplyAndListen
<1>8. ASSUME NEW families, NoListener(fam, families, used)
      PROVE  CommandDone
  BY <1>3, <1>4, <1>5, <1>8 DEF NoListener
<1>9. CASE command = "BIND" /\ init_bind(fam, used)
  <2>1. CASE /\ CommandFails(used) /\ ServerData
             /\ fd' = [fd EXCEPT !["server"] = "closed"]
             /\ UNCHANGED <<orphan, ssock, ai_index>>
    <3>1. Refused
      BY <2>1, <1>3, <1>4 DEF CommandFails
    <3> QED BY <3>1, <2>1, <1>1, <1>2, <1>a DEF CommandFails, ServerData, ep_waiting_send,
            Refused, CommandDone, Side, Ev, Errors
  <2> QED BY <1>9, <2>1, <1>7, <1>8 DEF init_bind, Socket
<1>10. CASE command = "UDPA" /\ init_udpa(fam, used)
  BY <1>10, <1>7, <1>8 DEF init_udpa, Socket
<1>11. CASE /\ reply_with_err(pre \o <<"BADCOMM", "BADCOMM">>)
            /\ ep_waiting_send("client") /\ server_out' = used /\ NoServer
  BY <1>11, <1>3, <1>4, <1>5
<1>12. CASE /\ reply_with_err(pre \o <<"GENFAIL">>)
            /\ ep_waiting_send("client") /\ server_out' = used /\ NoServer
  BY <1>12, <1>3, <1>4, <1>5
<1> QED BY <1>6, <1>9, <1>10, <1>11, <1>12 DEF init_command
-----------------------------------------------------------------------------
(* Every step keeps IInv.                                                  *)

\* Before accept_new_client nothing is allocated or registered.
LEMMA InitIInv == Init => IInv
<1> SUFFICES ASSUME Init PROVE IInv
  OBVIOUS
<1> USE DEF Init
<1>1. InfoOK
  BY DEF InfoOK, State
<1>2. OwnOK
  BY SizeAssumption DEF OwnOK, Side
<1>3. KernOK
  BY DEF KernOK, Side, Ev, Socket
<1>4. BatchOK
  BY DEF BatchOK, None
<1>5. WireOK /\ HistOK
  BY DEF WireOK, HistOK
<1>6. Shape
  BY DEF Shape, Nothing, ClientEnd, ServerEnd, Registered, Lookup, Buffered,
         Sent, Running, NoServerYet, Granted, Quiet, OutOf, Side, None
<1> QED BY <1>1, <1>2, <1>3, <1>4, <1>5, <1>6 DEF IInv, TypeOK

\* The remote ends change only what the kernel holds of theirs.
LEMMA WorldStep ==
  ASSUME IInv, World
  PROVE  IInv'
<1> DEFINE Kept == UNCHANGED ProgramVars
<1> USE DEF IInv, TypeOK
<1>1. ASSUME Kept, dns' = dns \/ (dns' # "idle" /\ dns # "idle")
      PROVE  Shape' \/ ~Sent'
  BY <1>1 DEF ProgramVars, infoVars, ringVars, ownVars, kernVars, histVars, Shape, Nothing,
     ClientEnd, ServerEnd, Registered, Lookup, Buffered, Running, NoServerYet, Granted,
     Quiet, OutOf, Side
<1>2. ASSUME Kept, UNCHANGED ai
      PROVE  InfoOK' /\ OwnOK' /\ HistOK'
  BY <1>2 DEF ProgramVars, ringVars, ownVars, histVars, InfoOK, OwnOK, HistOK
<1>3. ASSUME Kept, UNCHANGED sockVars
      PROVE  KernOK'
  BY <1>3 DEF ProgramVars, kernVars, sockVars, KernOK
<1>4. ASSUME Kept, UNCHANGED dns
      PROVE  BatchOK'
  BY <1>4 DEF ProgramVars, BatchOK
<1>5. Sent
  BY DEF Shape
<1>6. ASSUME ClientSends \/ ServerSends \/ \E s \in Side : Closes(s) \/ Resets(s)
      PROVE  IInv'
  <2>1. Kept /\ UNCHANGED <<ai, sockVars, dns>>
    BY <1>6 DEF ClientSends, ServerSends, Closes, Resets, Leaves
  <2>2. WireOK' /\ Sent'
    <3>1. offer' = offer /\ req' = req
      BY <2>1 DEF ProgramVars
    <3>2. CASE ClientSends
      BY <3>1, <3>2, <1>5 DEF ClientSends, WireOK, Sent, Side
    <3>3. CASE ServerSends
      BY <3>1, <3>3, <1>5 DEF ServerSends, WireOK, Sent, Side
    <3>4. ASSUME NEW s \in Side, Closes(s) \/ Resets(s)
          PROVE  WireOK' /\ Sent'
      <4>1. unread \in [Side -> Nat] /\ sent \in [Side -> Nat] /\ gone \in [Side -> BOOLEAN]
        BY DEF WireOK
      <4>2. \A x \in Side : unread[x] <= sent[x]
        BY <1>5 DEF Sent
      <4>3. CASE Leaves(s, 0)
        <5>1. unread' = unread /\ sent' = sent
          BY <4>1, <4>3 DEF Leaves
        <5> QED BY <5>1, <4>1, <4>2, <4>3, <3>1 DEF Leaves, WireOK, Sent
      <4>4. CASE Leaves(s, unread[s])
        <5>1. /\ unread' = [unread EXCEPT ![s] = 0]
              /\ sent' = [sent EXCEPT ![s] = @ - unread[s]]
          <6>1. unread[s] - unread[s] = 0
            BY <4>1
          <6> QED BY <6>1, <4>4 DEF Leaves
        <5>2. sent[s] - unread[s] \in Nat
          BY <4>1, <4>2
        <5>3. sent' \in [Side -> Nat] /\ unread' \in [Side -> Nat]
          BY <5>1, <5>2, <4>1
        <5>4. \A x \in Side : unread'[x] <= sent'[x]
          BY <5>1, <5>2, <4>1, <4>2
        <5> QED BY <5>3, <5>4, <4>1, <4>4, <3>1 DEF Leaves, WireOK, Sent
      <4> QED BY <3>4, <4>3, <4>4 DEF Closes, Resets
    <3> QED BY <1>6, <3>2, <3>3, <3>4
  <2> QED BY <2>1, <2>2, <1>1, <1>2, <1>3, <1>4
<1>7. CASE ConnectEnds \/ Knocks
  <2>1. Kept /\ UNCHANGED <<ai, dns, unread, gone, sent>>
    BY <1>7 DEF ConnectEnds, Knocks
  <2>2. ssock' \in Socket /\ soerr' \in Nat
    BY <1>7, WorldAssumption DEF ConnectEnds, Knocks, Socket, KernOK
  <2>3. KernOK'
    BY <2>1, <2>2 DEF ProgramVars, kernVars, KernOK
  <2>4. WireOK' /\ Sent'
    BY <2>1, <1>5 DEF ProgramVars, WireOK, Sent
  <2> QED BY <2>1, <2>3, <2>4, <1>1, <1>2, <1>4
<1>8. CASE resolver_th
  <2>1. Kept /\ UNCHANGED <<sockVars, unread, gone, sent>> /\ dns # "idle"
    BY <1>8 DEF resolver_th
  <2>2. ai' \in Seq(Family) /\ dns' \in {"ok", "fail"}
    <3>1. Answers \subseteq Seq(Family) /\ << >> \in Seq(Family)
      BY WorldAssumption
    <3> QED BY <1>8, <3>1 DEF resolver_th
  <2>3. InfoOK' /\ OwnOK' /\ HistOK' /\ BatchOK'
    BY <2>1, <2>2 DEF ProgramVars, ringVars, ownVars, histVars, InfoOK, OwnOK, HistOK, BatchOK
  <2>4. WireOK' /\ Sent'
    BY <2>1, <1>5 DEF ProgramVars, WireOK, Sent
  <2> QED BY <2>1, <2>2, <2>3, <2>4, <1>1, <1>3
<1> QED BY <1>6, <1>7, <1>8 DEF World

\* accept_new_client sets up the client's end whole, or gives everything back.
LEMMA AcceptStep ==
  ASSUME IInv, accept_new_client
  PROVE  IInv'
<1> USE DEF IInv, TypeOK
<1>1. /\ UNCHANGED <<infoVars, ringVars, orphan, batch, sockVars, unread, dns, wireVars, histVars>>
      /\ state = "NO_STATE"
  BY DEF accept_new_client
<1>2. BatchOK' /\ WireOK' /\ HistOK'
  BY <1>1 DEF wireVars, histVars, BatchOK, WireOK, HistOK
<1>3. CASE /\ fd' = [fd EXCEPT !["client"] = "open"]
           /\ data' = [data EXCEPT !["client"] = TRUE]
           /\ mem' = {"shared", "info"}
           /\ reg' = [reg EXCEPT !["client"] = {"IN"}]
           /\ state' = "WAITING_METHODS"
  <2>1. InfoOK' /\ OwnOK' /\ KernOK'
    BY <1>1, <1>3 DEF infoVars, ringVars, sockVars, InfoOK, OwnOK, KernOK, Side, Ev, State
  <2>2. Shape'
    BY <1>1, <1>3 DEF infoVars, ringVars, wireVars, Shape, Nothing, ClientEnd, ServerEnd,
       Registered, Lookup, Buffered, Sent, Running, NoServerYet, Granted, Quiet, OutOf,
       Side, OwnOK, KernOK
  <2> QED BY <1>2, <2>1, <2>2
<1>4. CASE fd' = [fd EXCEPT !["client"] = "closed"] /\ UNCHANGED <<data, mem, reg, state>>
  <2>1. InfoOK' /\ OwnOK' /\ KernOK'
    BY <1>1, <1>4 DEF infoVars, ringVars, sockVars, InfoOK, OwnOK, KernOK, Side
  <2>2. Shape'
    BY <1>1, <1>4 DEF infoVars, ringVars, wireVars, Shape, Nothing, ClientEnd, ServerEnd,
       Registered, Lookup, Buffered, Sent, Running, NoServerYet, Granted, Quiet, OutOf,
       Side, KernOK
  <2> QED BY <1>2, <2>1, <2>2
<1> QED BY <1>3, <1>4 DEF accept_new_client

\* epoll_wait returns only descriptors that are registered.
LEMMA EpollStep ==
  ASSUME IInv, epoll_wait
  PROVE  IInv'
<1> USE DEF IInv, TypeOK
<1>1. UNCHANGED <<state, infoVars, ringVars, ownVars, kernVars, sockVars, unread, dns,
                  wireVars, histVars>>
  BY DEF epoll_wait
<1>2. PICK c \in Masks("client") \cup {{}}, p \in Masks("server") \cup {{}},
           r \in {{}} \cup (IF dns \in {"ok", "fail"} THEN {{"IN"}} ELSE {}) :
        batch' = [s \in Side \cup {"resolver"} |->
                   IF s = "client" THEN c ELSE IF s = "server" THEN p ELSE r]
  BY DEF epoll_wait
<1>3. batch'["client"] = c /\ batch'["server"] = p /\ batch'["resolver"] = r
  BY <1>2 DEF Side
<1>4. \A s \in Side : \A m \in Masks(s) : m \in SUBSET Event /\ (m # {} => reg[s] # {})
  BY DEF Masks, HangUp, Event, KernOK
<1>5. BatchOK'
  BY <1>1, <1>2, <1>4 DEF BatchOK, Side, Event, Ev
<1>6. InfoOK' /\ OwnOK' /\ KernOK' /\ WireOK' /\ HistOK'
  BY <1>1 DEF infoVars, ringVars, ownVars, kernVars, sockVars, wireVars, histVars,
     InfoOK, OwnOK, KernOK, WireOK, HistOK
<1>7. Registered' /\ Lookup'
  BY <1>1, <1>3, <1>4 DEF ownVars, kernVars, Shape, Registered, Lookup, Side
<1>8. Nothing' /\ ClientEnd' /\ ServerEnd' /\ Buffered' /\ Sent'
  BY <1>1 DEF infoVars, ringVars, ownVars, kernVars, wireVars, Shape, Nothing, ClientEnd,
     ServerEnd, Buffered, Sent, Running, NoServerYet, Granted, Quiet, OutOf
<1> QED BY <1>5, <1>6, <1>7, <1>8 DEF Shape

\* The loop takes one event of the batch.
LEMMA Served ==
  ASSUME BatchOK, NEW s \in Side \cup {"resolver"}, Serve(s)
  PROVE  /\ batch' \in [Side \cup {"resolver"} -> SUBSET Event]
         /\ batch[s] # {} /\ batch'[s] = {}
         /\ \A x \in Side \cup {"resolver"} : x # s => batch'[x] = batch[x]
BY DEF Serve, BatchOK

\* An end is closed and its Data freed while the session goes to STATE_CLOSED.
LEMMA ReleaseStep ==
  ASSUME IInv, NEW s \in Side, Serve(s), release(s), state # "ASYNC_DNS",
         state' = "CLOSED", UNCHANGED <<dns, ssock, soerr>>,
         client_out' \in 0 .. Cap, server_out' \in 0 .. Cap, Sent'
  PROVE  OwnOK' /\ KernOK' /\ BatchOK' /\ Shape'
<1> USE DEF IInv, TypeOK
<1>1. /\ batch' \in [Side \cup {"resolver"} -> SUBSET Event]
      /\ batch[s] # {} /\ batch'[s] = {}
      /\ \A x \in Side \cup {"resolver"} : x # s => batch'[x] = batch[x]
  BY Served
<1>2. OwnOK' /\ KernOK' /\ BatchOK'
  BY <1>1 DEF release, free_data, OwnOK, KernOK, BatchOK, Ev
<1>3. dns = "idle" /\ batch["resolver"] = {}
  BY DEF Shape, Lookup
<1>4. Registered' /\ Lookup'
  BY <1>1, <1>3 DEF release, free_data, Shape, Registered, Lookup, Side, KernOK, OwnOK
<1>5. Nothing' /\ ClientEnd' /\ ServerEnd' /\ Buffered'
  BY DEF Nothing, ClientEnd, ServerEnd, Buffered, Running, NoServerYet, Granted, Quiet
<1> QED BY <1>2, <1>4, <1>5 DEF Shape

\* A step that only takes an event and perhaps ends the relay.
LEMMA IdleStep ==
  ASSUME IInv, NEW s \in Side, ignore(s) \/ half_close(s)
  PROVE  IInv'
<1> USE DEF IInv, TypeOK
<1>1. /\ Serve(s)
      /\ state' = state \/ (state = "HALF_CLOSE" /\ state' = "CLOSED")
      /\ UNCHANGED <<infoVars, ringVars, ownVars, kernVars, sockVars, unread, dns,
                     wireVars, histVars>>
  BY DEF ignore, half_close, ServePeer
<1>2. /\ batch' \in [Side \cup {"resolver"} -> SUBSET Event] /\ batch'[s] = {}
      /\ \A x \in Side \cup {"resolver"} : x # s => batch'[x] = batch[x]
  BY <1>1, Served
<1>3. InfoOK' /\ OwnOK' /\ KernOK' /\ BatchOK' /\ WireOK' /\ HistOK'
  BY <1>1, <1>2 DEF infoVars, ringVars, ownVars, kernVars, sockVars, wireVars, histVars,
     InfoOK, OwnOK, KernOK, BatchOK, WireOK, HistOK, State
<1>4. Registered' /\ Lookup'
  BY <1>1, <1>2 DEF ownVars, kernVars, Shape, Registered, Lookup, Side
<1>5. Nothing' /\ ClientEnd' /\ ServerEnd' /\ Buffered' /\ Sent'
  BY <1>1 DEF infoVars, ringVars, ownVars, kernVars, wireVars, Shape, Nothing, ClientEnd,
     ServerEnd, Buffered, Sent, Running, NoServerYet, Granted, Quiet, OutOf
<1> QED BY <1>3, <1>4, <1>5 DEF Shape

\* closed: an end leaves and its registration with it.
LEMMA ClosedStep ==
  ASSUME IInv, NEW s \in Side, closed(s)
  PROVE  IInv'
<1> USE DEF IInv, TypeOK
<1>1. /\ state = "CLOSED" /\ Serve(s) /\ release(s)
      /\ UNCHANGED <<state, infoVars, ringVars, sockVars, unread, dns, wireVars, histVars>>
  BY DEF closed, ServePeer
<1>2. InfoOK' /\ WireOK' /\ HistOK' /\ Sent'
  BY <1>1 DEF infoVars, wireVars, histVars, InfoOK, WireOK, HistOK, Shape, Sent
<1>3. client_out' \in 0 .. Cap /\ server_out' \in 0 .. Cap
  BY <1>1 DEF ringVars, OwnOK
<1>4. OwnOK' /\ KernOK' /\ BatchOK' /\ Shape'
  BY <1>1, <1>2, <1>3, ReleaseStep DEF sockVars
<1> QED BY <1>2, <1>4

\* Relaying: every disjunct of full leaves both ends registered for input, and
\* EPOLLOUT armed exactly where something is left to send.
LEMMA FullStep ==
  ASSUME IInv, NEW s \in Side, full(s)
  PROVE  IInv'
<1> USE DEF IInv, TypeOK
<1>1. /\ state = "FULL" /\ Serve(s)
      /\ UNCHANGED <<infoVars, ownVars, fd, orphan, sockVars, dns, wireVars, replies>>
  BY DEF full
<1>2. /\ batch' \in [Side \cup {"resolver"} -> SUBSET Event] /\ batch'[s] = {}
      /\ \A x \in Side \cup {"resolver"} : x # s => batch'[x] = batch[x]
  BY <1>1, Served
<1>3. /\ \A x \in Side : data[x] /\ fd[x] = "open" /\ "IN" \in reg[x]
      /\ \A x \in Side : OutOf(x) > 0 <=> "OUT" \in reg[x]
      /\ \A x \in Side : OutOf(x) \in 0 .. Cap
      /\ mem = {"shared", "info"} /\ dns = "idle" /\ batch["resolver"] = {}
  <2>1. mem = {"shared", "info"} /\ dns = "idle" /\ batch["resolver"] = {}
    BY <1>1 DEF Shape, ClientEnd, Lookup, Running
  <2>2. \A x \in Side : OutOf(x) \in 0 .. Cap
    BY DEF OwnOK, Side, OutOf
  <2>3. \A x \in Side : data[x] /\ fd[x] = "open" /\ "IN" \in reg[x]
    BY <1>1 DEF Shape, ClientEnd, ServerEnd, Buffered, Running, Side
  <2>4. \A x \in Side : OutOf(x) > 0 <=> "OUT" \in reg[x]
    BY <1>1 DEF Shape, Buffered, Side, OutOf
  <2> QED BY <2>1, <2>2, <2>3, <2>4
<1>4. ASSUME state' \in {"FULL", "HALF_CLOSE"}, reg' \in [Side -> SUBSET Ev],
             \A x \in Side : "IN" \in reg'[x],
             state' = "FULL" => \A x \in Side : (OutOf(x) > 0)' <=> "OUT" \in reg'[x],
             client_out' \in 0 .. Cap, server_out' \in 0 .. Cap,
             unread' \in [Side -> Nat], \A x \in Side : unread'[x] <= unread[x],
             dlv' \in [Side -> Nat]
      PROVE  IInv'
  <2>1. InfoOK' /\ OwnOK' /\ KernOK' /\ BatchOK' /\ WireOK' /\ HistOK'
    <3>1. InfoOK' /\ OwnOK'
      BY <1>1, <1>4 DEF infoVars, ownVars, InfoOK, OwnOK, State
    <3>2. KernOK' /\ BatchOK'
      BY <1>1, <1>2, <1>4 DEF sockVars, KernOK, BatchOK
    <3>3. WireOK' /\ HistOK'
      BY <1>1, <1>4 DEF wireVars, WireOK, HistOK
    <3> QED BY <3>1, <3>2, <3>3
  <2>2. Registered' /\ Lookup'
    BY <1>1, <1>2, <1>3, <1>4 DEF ownVars, Registered, Lookup, Side
  <2>3. Nothing' /\ ClientEnd' /\ ServerEnd' /\ Buffered'
    BY <1>1, <1>3, <1>4 DEF infoVars, ownVars, Nothing, ClientEnd, ServerEnd, Buffered,
       Running, NoServerYet, Granted, Quiet, Side
  <2>4. Sent'
    <3>1. /\ sent' = sent /\ \A x \in Side : unread[x] <= sent[x] /\ unread[x] \in Nat
          /\ \A x \in Side : sent[x] \in Nat
      BY <1>1 DEF wireVars, Shape, Sent, WireOK
    <3> QED BY <1>4, <3>1 DEF Sent
  <2> QED BY <2>1, <2>2, <2>3, <2>4 DEF Shape
<1>5. CASE send_traffic(s) /\ UNCHANGED unread
  <2>1. CASE state' = "HALF_CLOSE" /\ UNCHANGED <<ringVars, reg, dlv>>
    <3>1. /\ client_out' \in 0 .. Cap /\ server_out' \in 0 .. Cap
          /\ reg' \in [Side -> SUBSET Ev] /\ \A x \in Side : "IN" \in reg'[x]
      BY <1>3, <2>1 DEF ringVars, OwnOK, KernOK
    <3>2. unread' \in [Side -> Nat] /\ \A x \in Side : unread'[x] <= unread[x]
      BY <1>5 DEF WireOK
    <3>3. dlv' \in [Side -> Nat] /\ state' # "FULL" /\ state' \in {"FULL", "HALF_CLOSE"}
      BY <2>1 DEF HistOK
    <3> QED BY <3>1, <3>2, <3>3, <1>4
  <2>2. ASSUME NEW k \in 0 .. OutOf(s), Sends(s, OutOf(s), k), SetOut(s, OutOf(s) - k),
               reg' = IF k = OutOf(s) THEN [reg EXCEPT ![s] = {"IN"}] ELSE reg,
               UNCHANGED state
        PROVE  IInv'
    <3>1. OutOf(s) - k \in 0 .. Cap /\ (OutOf(s) - k > 0 <=> k # OutOf(s))
          /\ (k # OutOf(s) => OutOf(s) > 0)
      BY <1>3, <2>2, SizeAssumption
    <3>2. /\ client_out' \in 0 .. Cap /\ server_out' \in 0 .. Cap
          /\ OutOf(s)' = OutOf(s) - k /\ OutOf(Peer(s))' = OutOf(Peer(s))
      BY <2>2, <3>1 DEF SetOut, OutOf, Peer, Side, OwnOK
    <3>3. reg' \in [Side -> SUBSET Ev] /\ \A x \in Side : "IN" \in reg'[x]
      BY <1>3, <2>2 DEF KernOK, Ev
    <3>4. \A x \in Side : (OutOf(x) > 0)' <=> "OUT" \in reg'[x]
      <4>1. "OUT" \in reg'[s] <=> k # OutOf(s)
        BY <1>3, <2>2, <3>1 DEF KernOK
      <4>2. reg'[Peer(s)] = reg[Peer(s)]
        BY <2>2 DEF KernOK, Peer, Side
      <4> QED BY <1>3, <3>1, <3>2, <4>1, <4>2 DEF Side, Peer
    <3>5. dlv' \in [Side -> Nat]
      <4>1. k \in Nat
        BY <1>3
      <4> QED BY <4>1, <2>2 DEF Sends, HistOK
    <3> QED BY <1>1, <1>4, <1>5, <2>2, <3>2, <3>3, <3>4, <3>5 DEF WireOK
  <2> QED BY <1>5, <2>1, <2>2 DEF send_traffic
<1>6. CASE read_traffic(s) /\ ep_waiting_send(Peer(s)) /\ UNCHANGED dlv
  <2> DEFINE n == AtMost(unread[s], ReadMax)
             p == Peer(s)
  <2>1. n \in 0 .. Cap /\ n <= unread[s] /\ unread[s] \in Nat
    BY SizeAssumption DEF AtMost, WireOK
  <2>2. p \in Side /\ p # s /\ \A x \in Side : x = s \/ x = p
    BY DEF Peer, Side
  <2>3. /\ unread' = [unread EXCEPT ![s] = @ - n]
        /\ state' = IF n = 0 THEN "HALF_CLOSE" ELSE state
        /\ IF Room(p, n) THEN SetOut(p, OutOf(p) + n) ELSE UNCHANGED ringVars
        /\ reg' = [reg EXCEPT ![p] = Ev]
    BY <1>6 DEF read_traffic, ep_waiting_send
  <2> HIDE DEF n, p
  <2>4. /\ unread' \in [Side -> Nat] /\ \A x \in Side : unread'[x] <= unread[x]
    BY <2>1, <2>3 DEF WireOK
  <2>5. reg' \in [Side -> SUBSET Ev] /\ \A x \in Side : "IN" \in reg'[x]
    BY <1>3, <2>2, <2>3 DEF KernOK, Ev
  <2>6. /\ client_out' \in 0 .. Cap /\ server_out' \in 0 .. Cap
        /\ OutOf(s)' = OutOf(s) /\ (n > 0 => OutOf(p)' > 0)
    <3>1. CASE Room(p, n)
      <4>1. OutOf(p) + n \in 0 .. Cap /\ (n > 0 => OutOf(p) + n > 0)
        BY <3>1, <1>3, <2>1, <2>2, SizeAssumption DEF Room
      <4> QED BY <2>2, <2>3, <3>1, <4>1 DEF SetOut, OutOf, OwnOK, Side
    <3>2. CASE ~Room(p, n)
      <4>1. OutOf(p) > 0
        BY <3>2, <1>3, <2>1, <2>2, SizeAssumption DEF Room
      <4> QED BY <2>3, <3>2, <4>1 DEF ringVars, OutOf, OwnOK
    <3> QED BY <3>1, <3>2
  <2>7. state' = "FULL" => \A x \in Side : (OutOf(x) > 0)' <=> "OUT" \in reg'[x]
    <3>1. reg'[p] = Ev /\ reg'[s] = reg[s]
      BY <2>2, <2>3 DEF KernOK
    <3>2. state' = "FULL" => n > 0
      BY <2>1, <2>3
    <3> QED BY <1>3, <2>2, <2>6, <3>1, <3>2 DEF Ev
  <2>8. state' \in {"FULL", "HALF_CLOSE"} /\ dlv' \in [Side -> Nat]
    BY <1>1, <1>6, <2>3 DEF HistOK
  <2> QED BY <1>4, <2>4, <2>5, <2>6, <2>7, <2>8
<1> QED BY <1>5, <1>6 DEF full
-----------------------------------------------------------------------------
(* The handlers of the client.                                             *)

\* The least of a set of numbers.
LEMMA Least ==
  ASSUME NEW T \in SUBSET Nat, T # {}
  PROVE  \E m \in T : \A n \in T : m <= n
<1>1. PICK m \in T : \A n \in T : ~ (<<n, m>> \in OpToRel(<, Nat))
  BY NatLessThanWellFounded, WFMin
<1>2. \A n \in T : ~ (n < m)
  BY <1>1 DEF OpToRel
<1> QED BY <1>2

\* The selected method is one the proxy knows, or none.
LEMMA SelectMethodType ==
  ASSUME NEW methods \in Seq(Method \cup {"OTHER"})
  PROVE  SelectMethod(methods) \in Method \cup {"NOMETH"}
<1> DEFINE ok == {i \in DOMAIN methods : methods[i] \in Methods}
           first == CHOOSE i \in ok : \A j \in ok : i <= j
<1>1. CASE ok = {}
  BY <1>1 DEF SelectMethod
<1>2. CASE ok # {}
  <2>1. ok \in SUBSET Nat
    OBVIOUS
  <2> HIDE DEF ok
  <2>2. \E i \in ok : \A j \in ok : i <= j
    BY <1>2, <2>1, Least
  <2>3. first \in ok
    BY <2>2
  <2>4. methods[first] \in Methods
    BY <2>3 DEF ok
  <2> QED BY <1>2, <2>4, ConfigAssumption DEF SelectMethod, ok
<1> QED BY <1>1, <1>2

\* recv takes what is there and what fits.
LEMMA RecvStep ==
  ASSUME IInv, RecvClient, sent' = sent
  PROVE  /\ Received \in Nat /\ server_out + Received \in 0 .. Cap
         /\ unread' \in [Side -> Nat] /\ Sent'
<1>1. /\ unread \in [Side -> Nat] /\ server_out \in 0 .. Cap /\ Cap \in Nat
      /\ sent \in [Side -> Nat] /\ \A s \in Side : unread[s] <= sent[s]
  BY SizeAssumption DEF IInv, TypeOK, WireOK, OwnOK, Shape, Sent
<1>2. "client" \in Side
  BY DEF Side
<1>3. Received \in Nat /\ Received <= Cap - server_out /\ Received <= unread["client"]
  BY <1>1, <1>2 DEF Received, AtMost
<1>4. server_out + Received \in 0 .. Cap /\ unread["client"] - Received \in Nat
  BY <1>1, <1>2, <1>3
<1>5. unread' \in [Side -> Nat] /\ \A s \in Side : unread'[s] <= unread[s]
  BY <1>1, <1>2, <1>3, <1>4 DEF RecvClient
<1>6. Sent'
  <2>1. \A s \in Side : unread'[s] \in Nat /\ unread[s] \in Nat /\ sent[s] \in Nat
    BY <1>1, <1>5
  <2> QED BY <1>1, <1>5, <2>1 DEF Sent
<1> QED BY <1>3, <1>4, <1>5, <1>6

\* Before the server's end exists, what an event of the client may leave.
LEMMA AloneShape ==
  ASSUME IInv, Serve("client"), state' \in {"WAITING_METHODS", "SENDING_METHOD", "WAITING_COMMAND"},
         state \in {"WAITING_METHODS", "SENDING_METHOD", "WAITING_COMMAND"},
         UNCHANGED <<ownVars, fd, dns>>, Sent',
         reg' \in [Side -> SUBSET Ev], reg'["server"] = reg["server"],
         IF state' = "SENDING_METHOD" THEN client_out' = 1 /\ reg'["client"] = Ev
         ELSE client_out' = 0 /\ reg'["client"] = {"IN"}
  PROVE  BatchOK' /\ Shape'
<1> USE DEF IInv, TypeOK
<1>1. /\ batch' \in [Side \cup {"resolver"} -> SUBSET Event] /\ batch'["client"] = {}
      /\ \A x \in Side \cup {"resolver"} : x # "client" => batch'[x] = batch[x]
  BY Served DEF Side
<1>2. BatchOK'
  BY <1>1 DEF BatchOK
<1>3. /\ mem = {"shared", "info"} /\ data["client"] /\ fd["client"] = "open"
      /\ ~data["server"] /\ reg["server"] = {}
  BY DEF Shape, ClientEnd, ServerEnd, Running, NoServerYet
<1>4. Registered' /\ Lookup'
  BY <1>1, <1>3 DEF ownVars, Shape, Registered, Lookup, Side
<1>5. Nothing' /\ ClientEnd' /\ ServerEnd' /\ Buffered'
  BY <1>3 DEF ownVars, Nothing, ClientEnd, ServerEnd, Buffered, Running, NoServerYet,
     Granted, Quiet, Ev
<1> QED BY <1>2, <1>4, <1>5 DEF Shape

\* waitingmethods: close, wait for more, or queue the one method reply.
LEMMA WaitingMethodsStep ==
  ASSUME IInv, waitingmethods
  PROVE  IInv'
<1> DEFINE used == server_out + Received
<1> USE DEF IInv, TypeOK
<1>1. /\ state = "WAITING_METHODS" /\ Serve("client") /\ RecvClient
      /\ UNCHANGED <<rep, cmd, resolver_ret, sa, ai, ai_index, sockVars, dns, wireVars,
                     histVars>>
  BY DEF waitingmethods
<1>2. used \in 0 .. Cap /\ unread' \in [Side -> Nat] /\ Sent'
  BY <1>1, RecvStep DEF wireVars
<1>3. WireOK' /\ HistOK'
  BY <1>1, <1>2 DEF wireVars, histVars, WireOK, HistOK
<1>4. client_out = 0 /\ reg["client"] = {"IN"} /\ "client" \in Side
  BY <1>1 DEF Shape, Buffered, Quiet, Side
<1>5. CASE handshake_err("client") /\ UNCHANGED <<method, ringVars>>
  <2>1. InfoOK' /\ client_out' \in 0 .. Cap /\ server_out' \in 0 .. Cap
    BY <1>1, <1>5 DEF handshake_err, ringVars, InfoOK, OwnOK, State
  <2>2. OwnOK' /\ KernOK' /\ BatchOK' /\ Shape'
    BY <1>1, <1>2, <1>4, <1>5, <2>1, ReleaseStep DEF handshake_err, sockVars
  <2> QED BY <1>3, <2>1, <2>2
<1>6. CASE /\ server_out' = used
           /\ UNCHANGED <<state, method, client_out, ownVars, kernVars>>
  <2>1. InfoOK' /\ OwnOK' /\ KernOK'
    BY <1>1, <1>2, <1>6 DEF ownVars, kernVars, sockVars, InfoOK, OwnOK, KernOK
  <2>2. BatchOK' /\ Shape'
    BY <1>1, <1>2, <1>4, <1>6, AloneShape DEF kernVars, KernOK
  <2> QED BY <1>3, <2>1, <2>2
<1>7. CASE /\ used >= MethLen
           /\ method' = SelectMethod(offer.methods) /\ server_out' = used - MethLen
           /\ client_out' = client_out + 1 /\ state' = "SENDING_METHOD"
           /\ ep_waiting_send("client") /\ UNCHANGED <<ownVars, fd, orphan>>
  <2>1. method' \in Method \cup {"NOMETH"}
    <3>1. offer.methods \in Seq(Method \cup {"OTHER"})
      BY WorldAssumption DEF WireOK
    <3> QED BY <1>7, <3>1, SelectMethodType
  <2>2. /\ reg' \in [Side -> SUBSET Ev]
        /\ reg'["server"] = reg["server"] /\ reg'["client"] = Ev
    BY <1>4, <1>7 DEF ep_waiting_send, KernOK, Side
  <2>3. client_out' = 1 /\ client_out' \in 0 .. Cap /\ server_out' \in 0 .. Cap
    BY <1>2, <1>4, <1>7, SizeAssumption DEF MethLen
  <2>4. InfoOK' /\ OwnOK' /\ KernOK'
    BY <1>1, <1>7, <2>1, <2>2, <2>3 DEF ownVars, sockVars, InfoOK, OwnOK, KernOK, State
  <2>5. BatchOK' /\ Shape'
    BY <1>1, <1>2, <1>7, <2>2, <2>3, AloneShape
  <2> QED BY <1>3, <2>4, <2>5
<1> QED BY <1>5, <1>6, <1>7 DEF waitingmethods

\* sendingmethod: close, or go on with an empty client_out.
LEMMA SendingMethodStep ==
  ASSUME IInv, sendingmethod
  PROVE  IInv'
<1> USE DEF IInv, TypeOK
<1>1. /\ state = "SENDING_METHOD" /\ Serve("client") /\ "client" \in Side
      /\ UNCHANGED <<infoVars, server_out, sockVars, unread, dns, wireVars, replies>>
  BY DEF sendingmethod, Side
<1>2. WireOK' /\ Sent'
  BY <1>1 DEF wireVars, WireOK, Shape, Sent
<1>3. client_out = 1
  BY <1>1 DEF Shape, Buffered
<1>4. HistOK'
  <2>1. CASE UNCHANGED dlv
    BY <1>1, <2>1 DEF HistOK
  <2>2. CASE Sends("client", client_out, client_out)
    BY <1>1, <1>3, <2>2 DEF Sends, HistOK
  <2> QED BY <2>1, <2>2 DEF sendingmethod
<1>5. CASE handshake_err("client") /\ client_out' \in {0, client_out}
  <2>1. InfoOK' /\ client_out' \in 0 .. Cap /\ server_out' \in 0 .. Cap
    <3>1. InfoOK'
      BY <1>1, <1>5 DEF handshake_err, infoVars, InfoOK, State
    <3>2. server_out' \in 0 .. Cap /\ client_out' \in 0 .. Cap
      BY <1>1, <1>5, SizeAssumption DEF OwnOK
    <3> QED BY <3>1, <3>2
  <2>2. OwnOK' /\ KernOK' /\ BatchOK' /\ Shape'
    BY <1>1, <1>2, <1>5, <2>1, ReleaseStep DEF handshake_err, sockVars
  <2> QED BY <1>2, <1>4, <2>1, <2>2
<1>6. CASE /\ client_out' = 0 /\ state' = "WAITING_COMMAND"
           /\ reg' = [reg EXCEPT !["client"] = {"IN"}]
           /\ UNCHANGED <<ownVars, fd, orphan>>
  <2>1. InfoOK' /\ OwnOK' /\ KernOK'
    BY <1>1, <1>6, SizeAssumption DEF infoVars, ownVars, sockVars, InfoOK, OwnOK, KernOK, State, Ev
  <2>2. reg'["server"] = reg["server"] /\ reg'["client"] = {"IN"}
    BY <1>1, <1>6 DEF KernOK, Side
  <2>3. BatchOK' /\ Shape'
    BY <1>1, <1>2, <1>6, <2>1, <2>2, AloneShape DEF KernOK
  <2> QED BY <1>2, <1>4, <2>1, <2>3
<1> QED BY <1>5, <1>6 DEF sendingmethod

\* A handler of a reply, a command or a connection attempt: the client's end
\* stays, and the server's end is what the new state asks for.
LEMMA WholeShape ==
  ASSUME IInv, Running, NEW s \in Side \cup {"resolver"}, Serve(s),
         UNCHANGED mem, dns' = "idle", s # "resolver" => dns = "idle",
         data' \in [Side -> BOOLEAN], data'["client"],
         fd' \in [Side -> {"none", "open", "closed"}], fd'["client"] = "open",
         reg' \in [Side -> SUBSET Ev],
         reg'["server"] # {} => data'["server"] /\ fd'["server"] = "open",
         batch'["server"] # {} => reg'["server"] # {},
         Sent',
         \/ /\ state' = "SENDING_REPLY" /\ client_out' \in 1 .. 3 /\ reg'["client"] = Ev
            /\ rep' = "SUCCESS" => server_out' = 0 /\ reg'["server"] = {"IN"}
         \/ /\ state' = "SENDING_REPLY_2" /\ client_out' \in 1 .. 3 /\ reg'["client"] = Ev
            /\ server_out' = 0 /\ reg'["server"] = {"IN"}
         \/ /\ state' \in {"CONNECTING", "BIND_LISTENING", "FULL"} /\ client_out' = 0
            /\ server_out' = 0 /\ reg'["client"] = {"IN"}
            /\ reg'["server"] = IF state' = "CONNECTING" THEN {"OUT"} ELSE {"IN"}
         \/ state' = "FULL_UDPA" /\ client_out' = 0 /\ reg'["client"] = {"IN"}
  PROVE  BatchOK' /\ Shape'
<1> USE DEF IInv, TypeOK
<1>1. /\ batch' \in [Side \cup {"resolver"} -> SUBSET Event] /\ batch'[s] = {}
      /\ \A x \in Side \cup {"resolver"} : x # s => batch'[x] = batch[x]
  BY Served
<1>2. BatchOK'
  BY <1>1 DEF BatchOK
<1>3. mem = {"shared", "info"}
  BY DEF Shape, ClientEnd
<1>4. batch'["resolver"] = {}
  BY <1>1 DEF Shape, Lookup
<1>5. Registered' /\ Lookup'
  BY <1>4 DEF Registered, Lookup, Side, Ev
<1>6. Nothing'
  BY DEF Nothing
<1>7. ClientEnd'
  BY <1>3 DEF ClientEnd, Ev
<1>8. ServerEnd'
  BY DEF ServerEnd, NoServerYet, Granted
<1>9. Buffered'
  BY DEF Buffered, Quiet, OutOf, Side, Ev
<1> QED BY <1>2, <1>5, <1>6, <1>7, <1>8, <1>9 DEF Shape

\* What a handler adds to CommandDone.
LEMMA CommandShape ==
  ASSUME IInv, CommandDone, state \in {"WAITING_COMMAND", "ASYNC_DNS"},
         NEW s \in {"client", "resolver"}, Serve(s), UNCHANGED <<mem, soerr, dlv>>,
         dns' = "idle", s # "resolver" => dns = "idle", Sent'
  PROVE  state' \in State /\ OwnOK' /\ KernOK' /\ HistOK' /\ BatchOK' /\ Shape'
<1> USE DEF IInv, TypeOK
<1>1. OwnOK' /\ KernOK' /\ HistOK' /\ state' \in State
  BY SizeAssumption DEF CommandDone, OwnOK, KernOK, HistOK, State
<1>2. batch'["server"] = {}
  <2>1. batch["server"] = {}
    BY DEF Shape, Registered, ServerEnd, NoServerYet, Side
  <2> QED BY <2>1 DEF Serve, BatchOK, Side
<1>3. Running /\ s \in Side \cup {"resolver"}
  BY DEF Running, Side
<1>4. BatchOK' /\ Shape'
  BY <1>2, <1>3, WholeShape DEF CommandDone
<1> QED BY <1>1, <1>4

\* resolve_ret: the answer is taken and the command runs.
LEMMA ResolveRetStep ==
  ASSUME IInv, resolve_ret
  PROVE  IInv'
<1> USE DEF IInv, TypeOK
<1>1. /\ Serve("resolver") /\ dns' = "idle"
      /\ UNCHANGED <<method, cmd, sa, ai, mem, soerr, unread, wireVars, dlv>>
      /\ resolver_ret' \in {"OK", "FAIL"}
  BY DEF resolve_ret
<1>2. state = "ASYNC_DNS"
  BY <1>1 DEF Serve, Shape, Lookup
<1>3. CommandDone
  <2>1. server_out \in 0 .. Cap
    BY DEF OwnOK
  <2>2. CASE init_command(cmd, ai[1], << >>, server_out)
    BY <1>2, <2>1, <2>2, CommandStep
  <2>3. CASE init_command(cmd, "none", <<"GENFAIL">>, server_out)
    BY <1>2, <2>1, <2>3, CommandStep
  <2> QED BY <2>2, <2>3 DEF resolve_ret
<1>4. WireOK' /\ Sent'
  BY <1>1 DEF wireVars, WireOK, Shape, Sent
<1>5. state' \in State /\ OwnOK' /\ KernOK' /\ HistOK' /\ BatchOK' /\ Shape'
  BY <1>1, <1>2, <1>3, <1>4, CommandShape
<1>6. InfoOK'
  BY <1>1, <1>3, <1>5 DEF InfoOK, CommandDone
<1> QED BY <1>4, <1>5, <1>6

\* waitingcommand: close, wait for more, ask the resolver, or run the command.
LEMMA WaitingCommandStep ==
  ASSUME IInv, waitingcommand
  PROVE  IInv'
<1> DEFINE used == server_out + Received
<1> USE DEF IInv, TypeOK
<1>1. /\ state = "WAITING_COMMAND" /\ Serve("client") /\ RecvClient
      /\ UNCHANGED <<method, resolver_ret, ai, soerr, wireVars, dlv>>
  BY DEF waitingcommand
<1>2. used \in 0 .. Cap /\ unread' \in [Side -> Nat] /\ Sent'
  BY <1>1, RecvStep DEF wireVars
<1>3. WireOK'
  BY <1>1, <1>2 DEF wireVars, WireOK
<1>4. /\ client_out = 0 /\ reg["client"] = {"IN"} /\ "client" \in Side /\ dns = "idle"
      /\ data["client"] /\ fd["client"] = "open" /\ reg["server"] = {}
  BY <1>1 DEF Shape, Buffered, Quiet, Lookup, ClientEnd, ServerEnd, NoServerYet, Running, Side
<1>5. req.cmd \in Command
  BY WorldAssumption DEF WireOK
<1>6. ASSUME CommandDone, UNCHANGED <<mem, dns>>,
             sa' \in Family \cup {"none"}, cmd' \in Command \cup {"UNSET"}
      PROVE  IInv'
  <2>1. state' \in State /\ OwnOK' /\ KernOK' /\ HistOK' /\ BatchOK' /\ Shape'
    BY <1>1, <1>2, <1>4, <1>6, CommandShape
  <2>2. InfoOK'
    BY <1>1, <1>6, <2>1 DEF InfoOK, CommandDone
  <2> QED BY <1>3, <2>1, <2>2
<1>7. ASSUME NEW c \in Errors, reply_with_err(<<c>>), ep_waiting_send("client"),
             server_out' = used, NoServer
      PROVE  CommandDone
  <2>1. <<c>> \in ErrorCodes
    BY CodesAreErrors
  <2>2. Refused
    BY <1>4, <1>7, <2>1, Refusal DEF HistOK
  <2> QED BY <1>2, <1>4, <1>7, <2>2, SizeAssumption DEF Refused, NoServer, ep_waiting_send,
          CommandDone, Side, Ev, Errors, InfoOK, OwnOK, KernOK
<1>8. "RULESET" \in Errors /\ "BADATYP" \in Errors
  BY DEF Errors, Rep
<1>9. CASE handshake_err("client")
           /\ UNCHANGED <<rep, sa, ai_index, ringVars, ssock, dns, replies>>
           /\ cmd' \in Command \cup {"UNSET"}
  <2>1. InfoOK' /\ HistOK'
    BY <1>1, <1>9 DEF handshake_err, InfoOK, HistOK, State
  <2>2. client_out' \in 0 .. Cap /\ server_out' \in 0 .. Cap
    BY <1>9 DEF ringVars, OwnOK
  <2>3. OwnOK' /\ KernOK' /\ BatchOK' /\ Shape'
    BY <1>1, <1>2, <1>4, <1>9, <2>2, ReleaseStep DEF handshake_err
  <2> QED BY <1>3, <2>1, <2>3
<1>10. CASE /\ server_out' = used /\ cmd' \in Command \cup {"UNSET"}
            /\ UNCHANGED <<state, rep, sa, ai_index, client_out, ownVars, kernVars, ssock,
                           dns, replies>>
  <2>1. InfoOK' /\ HistOK' /\ OwnOK' /\ KernOK'
    BY <1>1, <1>2, <1>10 DEF ownVars, kernVars, InfoOK, HistOK, OwnOK, KernOK
  <2>2. BatchOK' /\ Shape'
    BY <1>1, <1>2, <1>4, <1>10, AloneShape DEF kernVars, KernOK
  <2> QED BY <1>3, <2>1, <2>2
<1>11. CASE /\ state' = "ASYNC_DNS" /\ dns' = "asked" /\ server_out' = used
            /\ cmd' \in Command \cup {"UNSET"}
            /\ UNCHANGED <<rep, sa, ai_index, client_out, ownVars, kernVars, ssock, replies>>
  <2>1. InfoOK' /\ HistOK' /\ OwnOK' /\ KernOK'
    BY <1>1, <1>2, <1>11 DEF ownVars, kernVars, InfoOK, HistOK, OwnOK, KernOK, State
  <2>2. /\ batch' \in [Side \cup {"resolver"} -> SUBSET Event] /\ batch'["client"] = {}
        /\ \A x \in Side \cup {"resolver"} : x # "client" => batch'[x] = batch[x]
    BY <1>1, <1>4, Served
  <2>3. BatchOK'
    BY <1>11, <2>2 DEF BatchOK
  <2>4. Registered' /\ Lookup'
    BY <1>4, <1>11, <2>2 DEF ownVars, kernVars, Shape, Registered, Lookup, Side
  <2>5. Nothing' /\ ClientEnd' /\ ServerEnd' /\ Buffered'
    BY <1>1, <1>4, <1>11 DEF ownVars, kernVars, Shape, Nothing, ClientEnd, ServerEnd,
       Buffered, Running, NoServerYet, Granted, Quiet
  <2> QED BY <1>2, <1>3, <2>1, <2>3, <2>4, <2>5 DEF Shape
<1>12. CASE /\ reply_with_err(<<"BADATYP">>) /\ ep_waiting_send("client")
            /\ server_out' = used /\ NoServer /\ UNCHANGED <<cmd, sa, mem, dns>>
  BY <1>6, <1>7, <1>8, <1>12 DEF InfoOK
<1>13. CASE TakeRequest(used)
  <2>1. cmd' \in Command \cup {"UNSET"}
    BY <1>5, <1>13 DEF TakeRequest
  <2>2. CASE /\ req.atyp \in Family /\ sa' = req.atyp
             /\ reply_with_err(<<"RULESET">>) /\ ep_waiting_send("client")
             /\ server_out' = used /\ NoServer /\ UNCHANGED <<mem, dns>>
    BY <1>6, <1>7, <1>8, <2>1, <2>2
  <2>3. CASE /\ req.atyp \in Family /\ sa' = req.atyp
             /\ init_command(req.cmd, req.atyp, << >>, used) /\ UNCHANGED <<mem, dns>>
    <3>1. CommandDone
      BY <1>1, <1>2, <2>3, CommandStep
    <3> QED BY <1>6, <2>1, <2>3, <3>1
  <2> QED BY <1>9, <1>10, <1>11, <1>13, <2>1, <2>2, <2>3 DEF TakeRequest, firewall
<1> QED BY <1>9, <1>10, <1>12, <1>13 DEF waitingcommand, InfoOK
-----------------------------------------------------------------------------
(* Sending replies and reaching the server.                                *)

\* sendingreply: a short send keeps the state and what is left; a reply sent
\* whole ends the session, or goes on with both ends as ServerEnd has them.
LEMMA SendingReplyStep ==
  ASSUME IInv, sendingreply
  PROVE  IInv'
<1> USE DEF IInv, TypeOK
<1>1. /\ state \in {"SENDING_REPLY", "SENDING_REPLY_2"} /\ Serve("client")
      /\ UNCHANGED <<method, cmd, resolver_ret, sa, ai, ai_index, server_out, sockVars,
                     unread, dns, wireVars, replies>>
  BY DEF sendingreply
<1>2. WireOK' /\ Sent'
  BY <1>1 DEF wireVars, WireOK, Shape, Sent
<1>3. /\ client_out \in 1 .. 3 /\ reg["client"] = Ev /\ dns = "idle" /\ Running
      /\ data["client"] /\ fd["client"] = "open" /\ "client" \in Side
  BY <1>1 DEF Shape, Buffered, Lookup, ClientEnd, Running, Side
<1>4. /\ reg["server"] # {} => data["server"] /\ fd["server"] = "open"
      /\ batch'["server"] # {} => reg["server"] # {}
      /\ state = "SENDING_REPLY_2" \/ rep = "SUCCESS" =>
           server_out = 0 /\ reg["server"] = {"IN"}
  <2>1. batch'["server"] = batch["server"]
    BY <1>1, Served DEF Side
  <2> QED BY <1>1, <2>1 DEF Shape, Registered, ServerEnd, Granted, Side
<1>5. ASSUME handshake_err("client"), rep' = rep, client_out' \in 0 .. Cap, HistOK'
      PROVE  IInv'
  <2>1. InfoOK' /\ server_out' \in 0 .. Cap
    BY <1>1, <1>5 DEF handshake_err, InfoOK, OwnOK, State
  <2>2. OwnOK' /\ KernOK' /\ BatchOK' /\ Shape'
    BY <1>1, <1>2, <1>3, <1>5, <2>1, ReleaseStep DEF handshake_err, sockVars
  <2> QED BY <1>2, <1>5, <2>1, <2>2
<1>6. CASE MayFail("client") /\ handshake_err("client") /\ UNCHANGED <<rep, client_out, dlv>>
  BY <1>1, <1>5, <1>6 DEF OwnOK, HistOK
<1>7. ASSUME NEW k \in 0 .. client_out, Sends("client", client_out, k),
             client_out' = client_out - k,
             IF k < client_out THEN UNCHANGED <<state, rep, ownVars, kernVars>>
                               ELSE AfterReply
      PROVE  IInv'
  <2>1. k \in 1 .. client_out /\ k \in Nat
    BY <1>3, <1>7 DEF Sends, AtMost
  <2>2. client_out' \in 0 .. Cap /\ server_out' \in 0 .. Cap
    BY <1>1, <1>3, <1>7, <2>1, SizeAssumption DEF OwnOK
  <2>3. HistOK'
    <3>1. dlv \in [Side -> Nat]
      BY DEF HistOK
    <3>2. dlv' \in [Side -> Nat]
      BY <1>3, <1>7, <2>1, <3>1 DEF Sends
    <3> QED BY <1>1, <3>2 DEF HistOK
  <2>4. CASE k < client_out
    <3>1. UNCHANGED <<state, rep, ownVars, kernVars>> /\ client_out' \in 1 .. 3
      BY <1>3, <1>7, <2>1, <2>4
    <3>2. InfoOK' /\ OwnOK' /\ KernOK'
      BY <1>1, <2>2, <3>1 DEF ownVars, kernVars, sockVars, InfoOK, OwnOK, KernOK
    <3>3. BatchOK' /\ Shape'
      <4>1. /\ data' \in [Side -> BOOLEAN] /\ data'["client"] /\ mem' = mem
            /\ fd' \in [Side -> {"none", "open", "closed"}] /\ fd'["client"] = "open"
            /\ reg' \in [Side -> SUBSET Ev] /\ reg'["client"] = Ev
        BY <1>3, <3>1 DEF ownVars, kernVars, OwnOK, KernOK
      <4>2. /\ reg'["server"] # {} => data'["server"] /\ fd'["server"] = "open"
            /\ batch'["server"] # {} => reg'["server"] # {}
        BY <1>4, <3>1 DEF ownVars, kernVars
      <4>3. \/ /\ state' = "SENDING_REPLY"
               /\ rep' = "SUCCESS" => server_out' = 0 /\ reg'["server"] = {"IN"}
            \/ state' = "SENDING_REPLY_2" /\ server_out' = 0 /\ reg'["server"] = {"IN"}
        BY <1>1, <1>4, <3>1 DEF kernVars
      <4> QED BY <1>1, <1>2, <1>3, <3>1, <4>1, <4>2, <4>3, WholeShape
    <3> QED BY <1>2, <2>3, <3>2, <3>3
  <2>5. CASE k >= client_out /\ rep # "SUCCESS"
    <3>1. ~ (k < client_out)
      BY <1>3, <2>1, <2>5
    <3> QED BY <1>5, <1>7, <2>2, <2>3, <2>5, <3>1 DEF AfterReply
  <2>6. CASE k >= client_out /\ rep = "SUCCESS"
    <3>1. ~ (k < client_out) /\ client_out' = 0
      BY <1>3, <1>7, <2>1, <2>6
    <3>2. /\ reg' = [reg EXCEPT !["client"] = {"IN"}] /\ state' = AfterSuccess
          /\ rep' \in {"UNSET", rep} /\ UNCHANGED <<ownVars, fd, orphan>>
      BY <1>7, <2>6, <3>1 DEF AfterReply
    <3>3. state' \in {"FULL", "FULL_UDPA", "BIND_LISTENING"}
      BY <3>2 DEF AfterSuccess
    <3>4. /\ reg' \in [Side -> SUBSET Ev]
          /\ reg'["client"] = {"IN"} /\ reg'["server"] = reg["server"]
      BY <1>3, <3>2 DEF KernOK, Side, Ev
    <3>5. InfoOK' /\ OwnOK' /\ KernOK'
      BY <1>1, <2>2, <3>2, <3>3, <3>4 DEF ownVars, sockVars, InfoOK, OwnOK, KernOK, State
    <3>6. BatchOK' /\ Shape'
      <4>1. /\ data' \in [Side -> BOOLEAN] /\ data'["client"] /\ mem' = mem
            /\ fd' \in [Side -> {"none", "open", "closed"}] /\ fd'["client"] = "open"
        BY <1>3, <3>2 DEF ownVars, OwnOK, KernOK
      <4>2. /\ reg'["server"] = {"IN"} /\ server_out' = 0
            /\ data'["server"] /\ fd'["server"] = "open"
        BY <1>1, <1>4, <2>6, <3>2, <3>4 DEF ownVars
      <4> QED BY <1>1, <1>2, <1>3, <3>1, <3>3, <3>4, <4>1, <4>2, WholeShape
    <3> QED BY <1>2, <2>3, <3>5, <3>6
  <2> QED BY <1>3, <2>1, <2>4, <2>5, <2>6
<1> QED BY <1>6, <1>7 DEF sendingreply

\* connecting: every outcome but another attempt queues one reply, and only the
\* successful one leaves the server registered for input.
LEMMA ConnectingStep ==
  ASSUME IInv, connecting
  PROVE  IInv'
<1> USE DEF IInv, TypeOK
<1>1. /\ state = "CONNECTING" /\ Serve("server")
      /\ UNCHANGED <<method, cmd, resolver_ret, sa, ai, server_out, ownVars, fd, orphan,
                     soerr, unread, dns, wireVars, dlv>>
  BY DEF connecting
<1>2. WireOK' /\ Sent'
  BY <1>1 DEF wireVars, WireOK, Shape, Sent
<1>3. /\ client_out = 0 /\ reg["client"] = {"IN"} /\ dns = "idle" /\ Running
      /\ data["client"] /\ fd["client"] = "open" /\ server_out = 0
      /\ data["server"] /\ fd["server"] = "open" /\ reg["server"] = {"OUT"}
  BY <1>1 DEF Shape, Buffered, Quiet, Lookup, ClientEnd, ServerEnd, Running
<1>4. batch'["server"] = {}
  BY <1>1, Served DEF Side
<1>5. ASSUME rep' \in Rep \cup {"UNSET"}, replies' \in Seq(Rep), ai_index' \in Nat,
             ssock' \in Socket, reg' \in [Side -> SUBSET Ev],
             \/ /\ state' = "SENDING_REPLY" /\ client_out' \in 1 .. 3 /\ reg'["client"] = Ev
                /\ rep' = "SUCCESS" => reg'["server"] = {"IN"}
             \/ state' = "CONNECTING" /\ client_out' = 0 /\ reg' = reg
      PROVE  IInv'
  <2>1. InfoOK' /\ KernOK' /\ HistOK'
    BY <1>1, <1>5 DEF InfoOK, KernOK, HistOK, State
  <2>2. OwnOK'
    BY <1>1, <1>5, SizeAssumption DEF ownVars, OwnOK
  <2>3. BatchOK' /\ Shape'
    <3>1. /\ data' \in [Side -> BOOLEAN] /\ data'["client"] /\ data'["server"] /\ mem' = mem
          /\ fd' \in [Side -> {"none", "open", "closed"}] /\ fd'["client"] = "open"
          /\ fd'["server"] = "open" /\ server_out' = 0 /\ dns' = "idle"
      BY <1>1, <1>3 DEF ownVars, OwnOK, KernOK
    <3>2. "server" \in Side \cup {"resolver"}
      BY DEF Side
    <3> QED BY <1>1, <1>2, <1>3, <1>4, <1>5, <3>1, <3>2, WholeShape
  <2> QED BY <1>2, <2>1, <2>2, <2>3
<1>6. ASSUME NEW c \in Errors, reply_with_err(<<c>>), ep_waiting_send("client")
      PROVE  Refused /\ reg' \in [Side -> SUBSET Ev] /\ reg'["client"] = Ev
  <2>1. <<c>> \in ErrorCodes
    BY CodesAreErrors
  <2>2. Refused
    BY <1>3, <1>6, <2>1, Refusal DEF HistOK
  <2> QED BY <1>6, <2>2 DEF ep_waiting_send, KernOK, Side, Ev
<1>7. ai_index' \in Nat
  BY DEF connecting, InfoOK
<1>8. CASE reply_with_err(<<"GENFAIL">>) /\ ep_waiting_send("client") /\ UNCHANGED ssock
  <2>1. "GENFAIL" \in Errors
    BY DEF Errors, Rep
  <2> QED BY <1>5, <1>6, <1>7, <1>8, <2>1 DEF Refused, Errors, KernOK
<1>9. CASE reply_with_err(<<ErrorRep(soerr)>>) /\ ep_waiting_send("client") /\ UNCHANGED ssock
  <2>1. ErrorRep(soerr) \in Errors
    BY DEF ErrorRep, Errors, Rep
  <2> QED BY <1>5, <1>6, <1>7, <1>9, <2>1 DEF Refused, Errors, KernOK
<1>10. CASE /\ rep' = "SUCCESS" /\ replies' = Append(replies, "SUCCESS")
            /\ client_out' = client_out + 1 /\ state' = "SENDING_REPLY"
            /\ reg' = [s \in Side |-> IF s = "client" THEN Ev ELSE {"IN"}]
            /\ UNCHANGED ssock
  <2>1. rep' \in Rep /\ replies' \in Seq(Rep)
    BY <1>10 DEF Rep, HistOK
  <2>2. reg' \in [Side -> SUBSET Ev] /\ reg'["client"] = Ev /\ reg'["server"] = {"IN"}
    BY <1>10 DEF Side, Ev
  <2> QED BY <1>3, <1>5, <1>7, <1>10, <2>1, <2>2 DEF KernOK
<1>11. CASE /\ ssock' \in {"connecting", "dead"}
            /\ UNCHANGED <<state, rep, client_out, replies, reg>>
  BY <1>1, <1>3, <1>5, <1>7, <1>11 DEF InfoOK, KernOK, HistOK, Socket
<1> QED BY <1>8, <1>9, <1>10, <1>11 DEF connecting

\* bindlistening: one reply, a refusal or the second success; the descriptor
\* that was not let in is only counted.
LEMMA BindListeningStep ==
  ASSUME IInv, bindlistening
  PROVE  IInv'
<1> USE DEF IInv, TypeOK
<1>1. /\ state = "BIND_LISTENING" /\ Serve("server")
      /\ UNCHANGED <<method, cmd, resolver_ret, sa, ai, ai_index, server_out, ownVars, fd,
                     soerr, unread, dns, wireVars, dlv>>
  BY DEF bindlistening
<1>2. WireOK' /\ Sent'
  BY <1>1 DEF wireVars, WireOK, Shape, Sent
<1>3. /\ client_out = 0 /\ reg["client"] = {"IN"} /\ dns = "idle" /\ Running
      /\ data["client"] /\ fd["client"] = "open" /\ server_out = 0
      /\ data["server"] /\ fd["server"] = "open" /\ reg["server"] = {"IN"}
  BY <1>1 DEF Shape, Buffered, Quiet, Lookup, ClientEnd, ServerEnd, Running
<1>4. batch'["server"] = {}
  BY <1>1, Served DEF Side
<1>5. ssock' \in Socket /\ orphan' \in Nat
  BY DEF bindlistening, Socket, KernOK
<1>6. ASSUME rep' \in Rep \cup {"UNSET"}, replies' \in Seq(Rep), reg' \in [Side -> SUBSET Ev],
             client_out' \in 1 .. 3, reg'["client"] = Ev,
             \/ state' = "SENDING_REPLY" /\ rep' # "SUCCESS"
             \/ state' = "SENDING_REPLY_2" /\ reg'["server"] = {"IN"}
      PROVE  IInv'
  <2>1. InfoOK' /\ KernOK' /\ HistOK'
    BY <1>1, <1>5, <1>6 DEF InfoOK, KernOK, HistOK, State
  <2>2. OwnOK'
    BY <1>1, <1>6, SizeAssumption DEF ownVars, OwnOK
  <2>3. BatchOK' /\ Shape'
    <3>1. /\ data' \in [Side -> BOOLEAN] /\ data'["client"] /\ data'["server"] /\ mem' = mem
          /\ fd' \in [Side -> {"none", "open", "closed"}] /\ fd'["client"] = "open"
          /\ fd'["server"] = "open" /\ server_out' = 0 /\ dns' = "idle"
      BY <1>1, <1>3 DEF ownVars, OwnOK, KernOK
    <3>2. "server" \in Side \cup {"resolver"}
      BY DEF Side
    <3> QED BY <1>1, <1>2, <1>3, <1>4, <1>6, <3>1, <3>2, WholeShape
  <2> QED BY <1>2, <2>1, <2>2, <2>3
<1>7. ASSUME NEW c \in Errors, reply_with_err(<<c>>)
      PROVE  Refused
  <2>1. <<c>> \in ErrorCodes
    BY CodesAreErrors
  <2> QED BY <1>3, <1>7, <2>1, Refusal DEF HistOK
<1>8. "GENFAIL" \in Errors /\ "RULESET" \in Errors
  BY DEF Errors, Rep
<1>9. CASE Refused /\ ep_waiting_send("client")
  <2>1. reg' \in [Side -> SUBSET Ev] /\ reg'["client"] = Ev
    BY <1>9 DEF ep_waiting_send, KernOK, Side, Ev
  <2> QED BY <1>6, <1>9, <2>1 DEF Refused, Errors
<1>10. CASE Refused /\ reg' = [s \in Side |-> IF s = "client" THEN Ev ELSE {}]
  <2>1. reg' \in [Side -> SUBSET Ev] /\ reg'["client"] = Ev
    BY <1>10 DEF Side, Ev
  <2> QED BY <1>6, <1>10, <2>1 DEF Refused, Errors
<1>11. CASE /\ rep' = "SUCCESS" /\ replies' = Append(replies, "SUCCESS")
            /\ client_out' = client_out + 1 /\ state' = "SENDING_REPLY_2"
            /\ reg' = [s \in Side |-> IF s = "client" THEN Ev ELSE {"IN"}]
  <2>1. rep' \in Rep /\ replies' \in Seq(Rep)
    BY <1>11 DEF Rep, HistOK
  <2>2. reg' \in [Side -> SUBSET Ev] /\ reg'["client"] = Ev /\ reg'["server"] = {"IN"}
    BY <1>11 DEF Side, Ev
  <2> QED BY <1>3, <1>6, <1>11, <2>1, <2>2
<1> QED BY <1>7, <1>8, <1>9, <1>10, <1>11 DEF bindlistening
-----------------------------------------------------------------------------
(* The theorems.                                                           *)

\* Every handler, every step of epoll and every step of the world keeps IInv.
LEMMA NextStep ==
  ASSUME IInv, [Next]_vars
  PROVE  IInv'
<1>1. CASE UNCHANGED vars
  <2>1. TypeOK'
    BY <1>1 DEF vars, infoVars, ringVars, ownVars, kernVars, sockVars, wireVars, histVars,
       IInv, TypeOK, InfoOK, OwnOK, KernOK, BatchOK, WireOK, HistOK
  <2>2. Nothing' /\ ClientEnd' /\ ServerEnd' /\ Registered' /\ Lookup' /\ Sent'
    BY <1>1 DEF vars, infoVars, ringVars, ownVars, kernVars, wireVars, IInv, Shape, Nothing,
       ClientEnd, ServerEnd, Registered, Lookup, Sent, Running, Granted
  <2>3. Buffered'
    BY <1>1 DEF vars, ringVars, kernVars, IInv, Shape, Buffered, OutOf
  <2> QED BY <2>1, <2>2, <2>3 DEF IInv, Shape
<1>2. ASSUME NEW s \in Side, Handle(s)
      PROVE  IInv'
  BY <1>2, WaitingMethodsStep, SendingMethodStep, WaitingCommandStep, SendingReplyStep,
     ConnectingStep, BindListeningStep, FullStep, ClosedStep, IdleStep DEF Handle
<1> QED BY <1>1, <1>2, AcceptStep, EpollStep, ResolveRetStep, WorldStep DEF Next

\* The inductive invariant holds of every behaviour of the session.
THEOREM Invariance == Spec => []IInv
BY InitIInv, NextStep, PTL DEF Spec

\* Every field keeps its range whatever the handlers, the kernel and the remote
\* ends do: in particular no Ringbuff ever holds more than OUTBUFFSIZE.
THEOREM TypeCorrect == Spec => []TypeOK
<1>1. IInv => TypeOK
  BY DEF IInv
<1> QED BY <1>1, Invariance, PTL

\* An event left in the batch, and an answer of the resolver, still has the
\* Data and the Shared it points to: no handler frees what epoll_wait returned.
THEOREM PendingEventsLiveAlways == Spec => []PendingEventsLive
<1>1. IInv => PendingEventsLive
  BY DEF IInv, Shape, Registered, Lookup, ClientEnd, Running, PendingEventsLive
<1> QED BY <1>1, Invariance, PTL

\* Until STATE_CLOSED info and both buffers are there for every handler.
THEOREM InfoLiveAlways == Spec => []InfoLive
<1>1. IInv => InfoLive
  BY DEF IInv, Shape, ClientEnd, InfoLive
<1> QED BY <1>1, Invariance, PTL

\* Every EPOLL_CTL_MOD of a handler finds its descriptor registered.
THEOREM RearmsRegisteredAlways == Spec => []RearmsRegistered
<1>1. IInv => RearmsRegistered
  BY DEF IInv, Shape, ClientEnd, ServerEnd, RearmsRegistered
<1> QED BY <1>1, Invariance, PTL

\* EPOLLOUT is armed exactly while something waits to be sent, for every size
\* of the buffers and of the reads.
THEOREM WakeupArmedAlways == Spec => []WakeupArmed
<1>1. IInv => WakeupArmed
  BY DEF IInv, Shape, Buffered, Quiet, Ev, WakeupArmed
<1> QED BY <1>1, Invariance, PTL
----------------------------------------------------------------------------
(***************************************************************************)
(* What a client is told and what is done for it: replies come once and    *)
(* before the relay, a blocked address is never contacted, at most one     *)
(* descriptor is left behind, and the life of the shared record is the one *)
(* of Lifecycle.                                                           *)
(*                                                                         *)
(* Everything is built on IInv.                                            *)
(***************************************************************************)

\* What was queued for the client is what it has received and what is buffered:
\* the method reply and the replies of the command.
Told == dlv["client"] + client_out = 1 + Len(replies)

\* The client has been granted its command n times, and nothing else.
Successes(n) == replies \in Seq({"SUCCESS"}) /\ Len(replies) = n

\* The replies of each state, and the descriptors left behind by then.
Replied ==
  /\ state \in NoServerYet \cup {"CONNECTING"} => replies = << >> /\ orphan = 0
  /\ state \in {"NO_STATE", "WAITING_METHODS", "SENDING_METHOD"} => dlv["client"] = 0
  /\ state \in {"WAITING_COMMAND", "ASYNC_DNS", "CONNECTING", "SENDING_REPLY",
                "BIND_LISTENING", "SENDING_REPLY_2"} => Told
  /\ state = "CONNECTING" => cmd = "CONN"
  /\ Granted => cmd \in {"CONN", "BIND", "UDPA"} /\ Successes(1) /\ orphan = 0
  /\ state = "BIND_LISTENING" => cmd = "BIND" /\ Successes(1) /\ orphan = 0
  /\ state = "SENDING_REPLY_2" =>
       cmd = "BIND" /\ rep = "SUCCESS" /\ Successes(2)
  /\ OrphansBounded
  /\ RelayAfterReply

\* The ranges the proofs below rest on.
LEMMA Ranges ==
  ASSUME IInv
  PROVE  /\ dlv \in [Side -> Nat] /\ "client" \in Side /\ "server" \in Side
         /\ dlv["client"] \in Nat /\ dlv["server"] \in Nat
         /\ client_out \in Nat /\ server_out \in Nat /\ orphan \in Nat
         /\ replies \in Seq(Rep) /\ Len(replies) \in Nat
BY SizeAssumption DEF IInv, TypeOK, OwnOK, KernOK, HistOK, Side

\* One more success.
LEMMA GrantsMore ==
  ASSUME NEW n \in Nat, Successes(n), replies' = Append(replies, "SUCCESS")
  PROVE  Successes(n + 1)'
BY DEF Successes

LEMMA GrantsFew == replies = << >> => Successes(0)
BY DEF Successes

LEMMA GrantsShown ==
  ASSUME NEW n \in Nat, Successes(n)
  PROVE  replies = [i \in 1 .. n |-> "SUCCESS"]
BY DEF Successes

\* A refusal: every code that is queued is buffered, and the last is an error.
LEMMA RefusalTold ==
  ASSUME IInv, Told, NEW codes \in ErrorCodes, reply_with_err(codes), dlv' = dlv
  PROVE  Told' /\ state' = "SENDING_REPLY" /\ rep' \in Errors
<1>1. codes \in Seq(Rep) /\ Len(codes) \in Nat
  BY DEF ErrorCodes
<1>2. Len(replies \o codes) = Len(replies) + Len(codes)
  BY <1>1, Ranges
<1>3. replies' = replies \o codes
  BY DEF reply_with_err
<1>4. Len(replies') = Len(replies) + Len(codes)
  BY <1>2, <1>3, Zenon
<1>5. client_out' = client_out + Len(codes) /\ dlv["client"] + client_out = 1 + Len(replies)
  BY DEF reply_with_err, Told
<1> DEFINE n == Len(codes)
           m == Len(replies)
<1>6. n \in Nat /\ m \in Nat /\ client_out' = client_out + n /\ Len(replies') = m + n
      /\ dlv["client"] + client_out = 1 + m
  BY <1>1, <1>4, <1>5, Ranges
<1> HIDE DEF n, m
<1>7. dlv'["client"] = dlv["client"] /\ dlv["client"] \in Nat /\ client_out \in Nat
  BY Ranges
<1>8. dlv["client"] + client_out' = 1 + Len(replies')
  BY <1>6, <1>7
<1> QED BY <1>7, <1>8 DEF Told, reply_with_err, ErrorCodes

\* After a refusal nothing is left to show but how many descriptors are lost.
LEMMA RefusedReplied ==
  ASSUME Told', state' = "SENDING_REPLY", rep' \in Errors, orphan' \in {0, 1}
  PROVE  Replied'
BY DEF Replied, NoServerYet, Granted, Errors, OrphansBounded, RelayAfterReply

\* What Replied speaks about.
told == <<state, rep, cmd, replies, client_out, dlv, orphan>>

LEMMA KeptReplied ==
  ASSUME Replied, UNCHANGED told
  PROVE  Replied'
BY DEF told, Replied, Successes, Told, NoServerYet, Granted, OrphansBounded, RelayAfterReply

\* A session that closes has no promise left to keep.
LEMMA EndedReplied ==
  ASSUME Replied, state' \in {"HALF_CLOSE", "CLOSED", "FULL_UDPA"}, orphan' = orphan
  PROVE  Replied'
BY DEF Replied, NoServerYet, Granted, OrphansBounded, RelayAfterReply

\* init_command: a connection attempt without a reply, a refusal, or the first
\* reply of a bind or an association.
LEMMA CommandReplied ==
  ASSUME IInv, Replied, state \in {"WAITING_COMMAND", "ASYNC_DNS"},
         NEW fam, NEW pre \in {<< >>, <<"GENFAIL">>}, NEW used,
         init_command(cmd', fam, pre, used), dlv' = dlv
  PROVE  Replied'
<1>1. /\ client_out = 0 /\ Told /\ replies = << >> /\ orphan = 0
      /\ dlv["client"] = 1
  BY Ranges DEF IInv, Shape, Buffered, Quiet, Replied, NoServerYet, Told
<1>2. /\ <<"GENFAIL">> \in ErrorCodes /\ <<"BADATYP">> \in ErrorCodes
      /\ pre \o <<"GENFAIL">> \in ErrorCodes
      /\ pre \o <<"BADCOMM", "BADCOMM">> \in ErrorCodes
  <2>1. "GENFAIL" \in Errors /\ "BADATYP" \in Errors /\ "BADCOMM" \in Errors
    BY DEF Errors, Rep
  <2> QED BY <2>1, CodesAreErrors
<1>3. ASSUME NEW codes \in ErrorCodes, reply_with_err(codes), orphan' \in {0, 1}
      PROVE  Replied'
  BY <1>1, <1>3, RefusalTold, RefusedReplied
<1>4. CASE cmd' = "CONN" /\ init_connect(used)
  <2>1. CASE reply_with_err(<<"GENFAIL">>) /\ orphan' \in {orphan, orphan + 1}
    BY <2>1, <1>1, <1>2, <1>3
  <2>2. CASE state' = "CONNECTING" /\ UNCHANGED <<orphan, rep, client_out, replies>>
    BY <2>2, <1>1, <1>4 DEF Replied, NoServerYet, Granted, OrphansBounded, RelayAfterReply, Told
  <2> QED BY <1>4, <2>1, <2>2 DEF init_connect, CommandFails, NoServer
<1>5. ASSUME NEW sock, ReplyAndListen(sock), cmd' \in {"BIND", "UDPA"}
      PROVE  Replied'
  <2>1. CASE /\ rep' = "SUCCESS" /\ client_out' = client_out + 1
             /\ replies' = Append(replies, "SUCCESS") /\ state' = "SENDING_REPLY"
    <3>1. Successes(1)' /\ client_out' = 1
      BY <1>1, <2>1, GrantsFew, GrantsMore
    <3> QED BY <3>1, <2>1, <1>1, <1>5 DEF ReplyAndListen, Replied, NoServerYet, Granted,
            OrphansBounded, RelayAfterReply, Told, Successes
  <2>2. CASE /\ rep' = "GENFAIL" /\ client_out' = client_out + 2
             /\ replies' = replies \o <<"SUCCESS", "GENFAIL">> /\ state' = "SENDING_REPLY"
    <3>1. Len(replies') = 2 /\ client_out' = 2
      BY <1>1, <2>2
    <3>2. Told' /\ orphan' = 0 /\ rep' \in Errors
      BY <3>1, <2>2, <1>1, <1>5 DEF ReplyAndListen, Told, Errors, Rep
    <3> QED BY <2>2, <3>2, RefusedReplied
  <2> QED BY <1>5, <2>1, <2>2 DEF ReplyAndListen
<1>6. ASSUME NEW families, NoListener(fam, families, used)
      PROVE  Replied'
  BY <1>1, <1>2, <1>3, <1>6 DEF NoListener, NoServer
<1>7. CASE cmd' = "BIND" /\ init_bind(fam, used)
  BY <1>1, <1>2, <1>3, <1>5, <1>6, <1>7 DEF init_bind, CommandFails
<1>8. CASE cmd' = "UDPA" /\ init_udpa(fam, used)
  BY <1>5, <1>6, <1>8 DEF init_udpa
<1>9. CASE /\ \/ reply_with_err(pre \o <<"BADCOMM", "BADCOMM">>)
              \/ reply_with_err(pre \o <<"GENFAIL">>)
           /\ NoServer
  BY <1>1, <1>2, <1>3, <1>9 DEF NoServer
<1> QED BY <1>4, <1>7, <1>8, <1>9 DEF init_command
-----------------------------------------------------------------------------
(* The handlers.                                                           *)

LEMMA WaitingMethodsReplied ==
  ASSUME IInv, Replied, waitingmethods
  PROVE  Replied'
<1>1. /\ state = "WAITING_METHODS" /\ orphan' = orphan
      /\ UNCHANGED <<rep, cmd, replies, dlv>>
  BY DEF waitingmethods, histVars, kernVars, handshake_err, release
<1>2. \/ state' = "CLOSED" \/ state' = "SENDING_METHOD"
      \/ state' = state /\ client_out' = client_out
  BY DEF waitingmethods, handshake_err
<1>3. CASE state' = "SENDING_METHOD"
  BY <1>1, <1>3 DEF Replied, NoServerYet, Granted, OrphansBounded, RelayAfterReply
<1> QED BY <1>1, <1>2, <1>3, EndedReplied, KeptReplied DEF told

LEMMA SendingMethodReplied ==
  ASSUME IInv, Replied, sendingmethod
  PROVE  Replied'
<1>1. /\ state = "SENDING_METHOD" /\ orphan' = orphan
      /\ UNCHANGED <<rep, cmd, replies>>
  BY DEF sendingmethod, infoVars, handshake_err, release
<1>2. /\ client_out = 1 /\ dlv["client"] = 0 /\ replies = << >> /\ orphan = 0
  BY <1>1 DEF IInv, Shape, Buffered, Replied, NoServerYet
<1>3. \/ state' = "CLOSED"
      \/ state' = "WAITING_COMMAND" /\ Sends("client", client_out, client_out) /\ client_out' = 0
  BY DEF sendingmethod, handshake_err
<1>4. CASE state' = "WAITING_COMMAND" /\ Sends("client", client_out, client_out) /\ client_out' = 0
  <2>1. dlv'["client"] = 1
    BY <1>2, <1>4, Ranges DEF Sends
  <2> QED BY <2>1, <1>1, <1>2, <1>4 DEF Replied, NoServerYet, Granted, OrphansBounded,
          RelayAfterReply, Told
<1> QED BY <1>1, <1>3, <1>4, EndedReplied

LEMMA WaitingCommandReplied ==
  ASSUME IInv, Replied, waitingcommand
  PROVE  Replied'
<1> DEFINE used == server_out + Received
<1>1. state = "WAITING_COMMAND" /\ dlv' = dlv
  BY DEF waitingcommand
<1>2. Told /\ replies = << >> /\ orphan = 0
  BY <1>1 DEF Replied, NoServerYet
<1>3. CASE handshake_err("client")
  BY <1>3, EndedReplied DEF handshake_err, release
<1>4. ASSUME NEW c \in {"BADATYP", "RULESET"}, reply_with_err(<<c>>), NoServer
      PROVE  Replied'
  <2>1. <<c>> \in ErrorCodes
    <3>1. c \in Errors
      BY DEF Errors, Rep
    <3> QED BY <3>1, CodesAreErrors
  <2> QED BY <1>1, <1>2, <1>4, <2>1, RefusalTold, RefusedReplied DEF NoServer
<1>5. CASE /\ state' \in {state, "ASYNC_DNS"}
           /\ UNCHANGED <<rep, client_out, kernVars, replies>>
  BY <1>1, <1>2, <1>5 DEF kernVars, Replied, NoServerYet, Granted, OrphansBounded,
     RelayAfterReply, Told
<1>6. CASE TakeRequest(used)
  <2>1. CASE cmd' = req.cmd /\ init_command(req.cmd, req.atyp, << >>, used)
    <3>1. init_command(cmd', req.atyp, << >>, used)
      BY <2>1
    <3> QED BY <3>1, <1>1, CommandReplied
  <2> QED BY <1>3, <1>4, <1>5, <1>6, <2>1 DEF TakeRequest
<1> QED BY <1>3, <1>4, <1>5, <1>6 DEF waitingcommand

LEMMA ResolveRetReplied ==
  ASSUME IInv, Replied, resolve_ret
  PROVE  Replied'
<1>1. state = "ASYNC_DNS" /\ cmd' = cmd /\ dlv' = dlv
  BY DEF resolve_ret, Serve, IInv, Shape, Lookup
<1>2. \/ init_command(cmd', ai[1], << >>, server_out)
      \/ init_command(cmd', "none", <<"GENFAIL">>, server_out)
  BY <1>1 DEF resolve_ret
<1> QED BY <1>1, <1>2, CommandReplied

LEMMA SendingReplyReplied ==
  ASSUME IInv, Replied, sendingreply
  PROVE  Replied'
<1>1. /\ state \in {"SENDING_REPLY", "SENDING_REPLY_2"}
      /\ UNCHANGED <<cmd, replies>>
  BY DEF sendingreply
<1>2. Told /\ client_out \in 1 .. 3
  BY <1>1 DEF Replied, IInv, Shape, Buffered
<1>3. CASE handshake_err("client")
  BY <1>3, EndedReplied DEF handshake_err, release
<1>4. ASSUME NEW k \in 0 .. client_out, Sends("client", client_out, k),
             client_out' = client_out - k,
             IF k < client_out THEN UNCHANGED <<state, rep, ownVars, kernVars>>
                               ELSE AfterReply
      PROVE  Replied'
  <2>1. k \in Nat /\ dlv'["client"] = dlv["client"] + k
    BY <1>2, <1>4, Ranges DEF Sends
  <2>2. Told'
    BY <1>1, <1>2, <1>4, <2>1, Ranges DEF Told
  <2>3. CASE k < client_out
    BY <1>1, <1>4, <2>2, <2>3 DEF kernVars, Replied, Successes, NoServerYet, Granted,
       OrphansBounded, RelayAfterReply
  <2>4. CASE ~ (k < client_out) /\ rep # "SUCCESS"
    BY <1>3, <1>4, <2>4 DEF AfterReply
  <2>5. CASE ~ (k < client_out) /\ rep = "SUCCESS"
    <3>1. client_out' = 0 /\ dlv'["client"] = 1 + Len(replies)
      BY <1>2, <1>4, <2>1, <2>5, Ranges DEF Told
    <3>2. state' = AfterSuccess /\ orphan' = orphan
      BY <1>4, <2>5 DEF AfterReply
    <3>3. CASE state = "SENDING_REPLY"
      <4>1. /\ cmd \in {"CONN", "BIND", "UDPA"} /\ Successes(1) /\ orphan = 0
            /\ dlv'["client"] = 2
        <5>1. cmd \in {"CONN", "BIND", "UDPA"} /\ Successes(1) /\ orphan = 0
          BY <2>5, <3>3 DEF Replied, Granted
        <5>2. Len(replies) = 1
          BY <5>1 DEF Successes
        <5> QED BY <3>1, <5>1, <5>2
      <4>2. CASE cmd = "CONN"
        <5>1. replies = [i \in 1 .. 1 |-> "SUCCESS"]
          BY <4>1, GrantsShown
        <5> QED BY <1>1, <3>2, <4>1, <4>2, <5>1 DEF AfterSuccess, Replied, NoServerYet,
                Granted, OrphansBounded, RelayAfterReply, GrantsOf
      <4>3. CASE cmd = "BIND"
        BY <1>1, <2>2, <3>2, <3>3, <4>1, <4>3 DEF AfterSuccess, Replied, Successes, NoServerYet,
           Granted, OrphansBounded, RelayAfterReply
      <4>4. CASE cmd = "UDPA"
        BY <3>2, <4>4, EndedReplied DEF AfterSuccess
      <4> QED BY <4>1, <4>2, <4>3, <4>4
    <3>4. CASE state = "SENDING_REPLY_2"
      <4>1. cmd = "BIND" /\ Successes(2) /\ dlv'["client"] = 3
        <5>1. cmd = "BIND" /\ Successes(2)
          BY <3>4 DEF Replied
        <5>2. Len(replies) = 2
          BY <5>1 DEF Successes
        <5> QED BY <3>1, <5>1, <5>2
      <4>2. replies = [i \in 1 .. 2 |-> "SUCCESS"]
        BY <4>1, GrantsShown
      <4>3. OrphansBounded
        BY DEF Replied
      <4> QED BY <1>1, <3>2, <3>4, <4>1, <4>2, <4>3 DEF AfterSuccess, Replied, NoServerYet,
              Granted, OrphansBounded, RelayAfterReply, GrantsOf
    <3> QED BY <1>1, <3>3, <3>4
  <2> QED BY <2>3, <2>4, <2>5
<1> QED BY <1>3, <1>4 DEF sendingreply

LEMMA ConnectingReplied ==
  ASSUME IInv, Replied, connecting
  PROVE  Replied'
<1>1. state = "CONNECTING" /\ UNCHANGED <<cmd, dlv, orphan>>
  BY DEF connecting
<1>2. /\ Told /\ replies = << >> /\ orphan = 0 /\ cmd = "CONN"
      /\ client_out = 0 /\ dlv["client"] = 1
  BY <1>1, Ranges DEF Replied, IInv, Shape, Buffered, Quiet, Told
<1>3. ASSUME NEW c \in Errors, reply_with_err(<<c>>)
      PROVE  Replied'
  <2>1. <<c>> \in ErrorCodes
    BY CodesAreErrors
  <2> QED BY <1>1, <1>2, <1>3, <2>1, RefusalTold, RefusedReplied
<1>4. "GENFAIL" \in Errors /\ ErrorRep(soerr) \in Errors
  BY DEF ErrorRep, Errors, Rep
<1>5. CASE /\ rep' = "SUCCESS" /\ replies' = Append(replies, "SUCCESS")
           /\ client_out' = client_out + 1 /\ state' = "SENDING_REPLY"
  <2>1. Successes(1)' /\ client_out' = 1
    BY <1>2, <1>5, GrantsFew, GrantsMore
  <2> QED BY <2>1, <1>1, <1>2, <1>5 DEF Replied, NoServerYet, Granted, OrphansBounded,
          RelayAfterReply, Told, Successes
<1>6. CASE UNCHANGED <<state, rep, client_out, replies>>
  BY <1>1, <1>6, KeptReplied DEF told
<1> QED BY <1>3, <1>4, <1>5, <1>6 DEF connecting

LEMMA BindListeningReplied ==
  ASSUME IInv, Replied, bindlistening
  PROVE  Replied'
<1>1. state = "BIND_LISTENING" /\ UNCHANGED <<cmd, dlv>> /\ orphan' \in {orphan, orphan + 1}
  BY DEF bindlistening
<1>2. /\ Told /\ Successes(1) /\ orphan = 0 /\ cmd = "BIND"
      /\ client_out = 0 /\ dlv["client"] = 2
  <2>1. Told /\ Successes(1) /\ orphan = 0 /\ cmd = "BIND" /\ client_out = 0
    BY <1>1 DEF Replied, IInv, Shape, Buffered, Quiet
  <2>2. Len(replies) = 1
    BY <2>1 DEF Successes
  <2> QED BY <2>1, <2>2, Ranges DEF Told
<1>3. ASSUME NEW c \in {"GENFAIL", "RULESET"}, reply_with_err(<<c>>)
      PROVE  Replied'
  <2>1. <<c>> \in ErrorCodes
    <3>1. c \in Errors
      BY DEF Errors, Rep
    <3> QED BY <3>1, CodesAreErrors
  <2> QED BY <1>1, <1>2, <1>3, <2>1, RefusalTold, RefusedReplied
<1>4. CASE /\ rep' = "SUCCESS" /\ replies' = Append(replies, "SUCCESS")
           /\ client_out' = client_out + 1 /\ state' = "SENDING_REPLY_2"
  <2>1. Successes(2)' /\ client_out' = 1
    BY <1>2, <1>4, GrantsMore
  <2> QED BY <2>1, <1>1, <1>2, <1>4 DEF Replied, NoServerYet, Granted, OrphansBounded,
          RelayAfterReply, Told, Successes
<1> QED BY <1>3, <1>4 DEF bindlistening

\* Relaying delivers more, never less.
LEMMA FullReplied ==
  ASSUME IInv, Replied, NEW s \in Side, full(s)
  PROVE  Replied'
<1>1. /\ state = "FULL" /\ state' \in {"FULL", "HALF_CLOSE"}
      /\ UNCHANGED <<rep, cmd, replies, orphan>>
  BY DEF full, infoVars, send_traffic, read_traffic
<1>2. dlv'["client"] \in Nat /\ dlv'["client"] >= dlv["client"]
  <2>1. CASE dlv' = dlv
    BY <2>1, Ranges
  <2>2. ASSUME NEW k \in 0 .. OutOf(s), Sends(s, OutOf(s), k)
        PROVE  dlv'["client"] \in Nat /\ dlv'["client"] >= dlv["client"]
    <3>1. k \in Nat
      BY <2>2, Ranges DEF OutOf
    <3> QED BY <3>1, <2>2, Ranges DEF Sends
  <2> QED BY <2>1, <2>2 DEF full, send_traffic
<1>3. GrantsOf(cmd) \in Nat
  BY DEF GrantsOf
<1> QED BY <1>1, <1>2, <1>3, Ranges DEF Replied, NoServerYet, Granted, OrphansBounded,
        RelayAfterReply

LEMMA RepliedStep ==
  ASSUME IInv, Replied, [Next]_vars
  PROVE  Replied'
<1>1. CASE UNCHANGED vars
  BY <1>1, KeptReplied DEF vars, infoVars, ringVars, kernVars, histVars, told
<1>2. CASE World
  <2>1. UNCHANGED ProgramVars
    BY <1>2 DEF World, ClientSends, ServerSends, ConnectEnds, Knocks, resolver_th, Closes,
       Resets, Leaves
  <2> QED BY <2>1, KeptReplied DEF ProgramVars, ringVars, kernVars, histVars, told
<1>3. CASE epoll_wait
  BY <1>3, KeptReplied DEF epoll_wait, infoVars, ringVars, kernVars, histVars, told
<1>4. CASE accept_new_client
  <2>1. /\ state = "NO_STATE" /\ state' \in {"NO_STATE", "WAITING_METHODS"}
        /\ UNCHANGED <<rep, cmd, replies, client_out, dlv, orphan>>
    BY <1>4 DEF accept_new_client, infoVars, ringVars, histVars
  <2> QED BY <2>1 DEF Replied, NoServerYet, Granted, OrphansBounded, RelayAfterReply, Told
<1>5. ASSUME NEW s \in Side, ignore(s)
      PROVE  Replied'
  BY <1>5, KeptReplied DEF ignore, infoVars, ringVars, kernVars, histVars, told
<1>6. ASSUME NEW s \in Side, half_close(s) \/ closed(s)
      PROVE  Replied'
  BY <1>6, EndedReplied DEF half_close, closed, release, kernVars
<1>7. ASSUME NEW s \in Side, Handle(s)
      PROVE  Replied'
  BY <1>5, <1>6, <1>7, WaitingMethodsReplied, SendingMethodReplied, WaitingCommandReplied,
     SendingReplyReplied, ConnectingReplied, BindListeningReplied, FullReplied DEF Handle
<1> QED BY <1>1, <1>2, <1>3, <1>4, <1>7, ResolveRetReplied DEF Next

LEMMA InitReplied == Init => Replied
BY DEF Init, Replied, NoServerYet, Granted, OrphansBounded, RelayAfterReply, Side

\* Along with IInv.
LEMMA RepliedAlways == Spec => [](IInv /\ Replied)
<1>1. Init => IInv /\ Replied
  BY InitIInv, InitReplied
<1>2. IInv /\ Replied /\ [Next]_vars => (IInv /\ Replied)'
  BY NextStep, RepliedStep
<1> QED BY <1>1, <1>2, PTL DEF Spec

\* Relaying starts only after every reply of a granted command has been sent,
\* whatever fails on the way and however the replies are cut by the network.
THEOREM RelayAfterReplyAlways == Spec => []RelayAfterReply
<1>1. Replied => RelayAfterReply
  BY DEF Replied
<1> QED BY <1>1, RepliedAlways, PTL

\* No path through the failures of init_connect, init_bind and bindlistening
\* leaves a second descriptor behind.
THEOREM OrphansBoundedAlways == Spec => []OrphansBounded
<1>1. Replied => OrphansBounded
  BY DEF Replied
<1> QED BY <1>1, RepliedAlways, PTL

\* A connect that was granted gets no second reply: before the connection
\* replies is empty, and a bind waits for its second.
THEOREM GrantIsFinalAlways == Spec => GrantIsFinal
<1> DEFINE Final == cmd = "CONN" /\ replies # << >> /\ replies[Len(replies)] = "SUCCESS"
                      => replies' = replies
<1>1. ASSUME IInv, Replied, Next
      PROVE  Final
  <2>1. CASE waitingcommand \/ resolve_ret \/ connecting
    <3>1. state \in {"WAITING_COMMAND", "ASYNC_DNS", "CONNECTING"}
      BY <1>1, <2>1 DEF waitingcommand, connecting, resolve_ret, Serve, IInv, Shape, Lookup
    <3> QED BY <1>1, <3>1 DEF Replied, NoServerYet
  <2>2. CASE bindlistening
    BY <1>1, <2>2 DEF bindlistening, Replied
  <2>3. CASE UNCHANGED replies
    BY <2>3
  <2>4. ASSUME NEW s \in Side, Handle(s), ~ (waitingcommand \/ connecting \/ bindlistening)
        PROVE  UNCHANGED replies
    BY <2>4 DEF Handle, waitingmethods, sendingmethod, sendingreply, full, half_close, closed,
       ignore, histVars
  <2>5. ASSUME World
        PROVE  UNCHANGED replies
    BY <2>5 DEF World, ClientSends, ServerSends, ConnectEnds, Knocks, resolver_th, Closes,
       Resets, Leaves, ProgramVars, histVars
  <2> QED BY <1>1, <2>1, <2>2, <2>3, <2>4, <2>5 DEF Next, accept_new_client, epoll_wait, histVars
<1>2. IInv /\ Replied /\ [Next]_vars => [Final]_vars
  BY <1>1
<1> QED BY <1>2, RepliedAlways, PTL DEF Spec, GrantIsFinal
-----------------------------------------------------------------------------
(* A blocked address.                                                      *)

\* A request for a blocked literal address gets as far as its refusal.
Refusing ==
  req.blocked /\ req.atyp \in Family =>
    /\ ~data["server"] /\ fd["server"] = "none" /\ ssock = "none"
    /\ state \in {"NO_STATE", "WAITING_METHODS", "SENDING_METHOD", "WAITING_COMMAND",
                  "SENDING_REPLY", "CLOSED"}
    /\ replies \in {<< >>, <<"RULESET">>}
    /\ ~Granted

\* What Refusing speaks about.
reached == <<state, rep, data["server"], fd["server"], ssock, req, replies>>

LEMMA RefusingStep ==
  ASSUME IInv, Replied, Refusing, [Next]_vars
  PROVE  Refusing'
<1>1. req' = req
  BY DEF vars, wireVars, Next, accept_new_client, epoll_wait, resolve_ret, Handle,
     waitingmethods, sendingmethod, waitingcommand, sendingreply, connecting, bindlistening,
     full, half_close, closed, ignore, World, ClientSends, ServerSends, ConnectEnds, Knocks,
     resolver_th, Closes, Resets, Leaves, ProgramVars
<1>2. SUFFICES ASSUME req.blocked, req.atyp \in Family
               PROVE  Refusing'
  BY <1>1 DEF Refusing
<1>3. /\ ~data["server"] /\ fd["server"] = "none" /\ ssock = "none"
      /\ state \in {"NO_STATE", "WAITING_METHODS", "SENDING_METHOD", "WAITING_COMMAND",
                    "SENDING_REPLY", "CLOSED"}
      /\ replies \in {<< >>, <<"RULESET">>} /\ ~Granted
  BY <1>2 DEF Refusing
<1>4. batch["server"] = {} /\ dns = "idle" /\ batch["resolver"] = {}
  BY <1>3 DEF IInv, Shape, Registered, Lookup, Side
<1>5. CASE UNCHANGED reached
  BY <1>3, <1>5 DEF reached, Refusing, Granted
<1>6. CASE /\ UNCHANGED <<data["server"], fd["server"], ssock, replies>>
           /\ state' \in {"WAITING_METHODS", "SENDING_METHOD", "WAITING_COMMAND", "CLOSED"}
  BY <1>3, <1>6 DEF Refusing, Granted
<1>7. fd \in [Side -> {"none", "open", "closed"}] /\ data \in [Side -> BOOLEAN]
  BY DEF IInv, TypeOK, KernOK, OwnOK
<1>8. ASSUME release("client")
      PROVE  UNCHANGED <<data["server"], fd["server"]>>
  BY <1>7, <1>8 DEF release, free_data, Side
<1>9. CASE World
  BY <1>3, <1>5, <1>9 DEF World, ClientSends, ServerSends, ConnectEnds, Knocks, resolver_th, Closes,
     Resets, Leaves, ProgramVars, ownVars, kernVars, histVars, sockVars, reached
<1>10. CASE epoll_wait \/ UNCHANGED vars
  BY <1>5, <1>10 DEF epoll_wait, vars, infoVars, ownVars, kernVars, histVars, sockVars, wireVars,
     reached
<1>11. CASE accept_new_client
  BY <1>3, <1>5, <1>6, <1>7, <1>11 DEF accept_new_client, infoVars, histVars, sockVars, wireVars,
     Side, reached
<1>12. CASE resolve_ret
  BY <1>4, <1>12 DEF resolve_ret, Serve
<1>13. ASSUME NEW s \in Side, ignore(s)
       PROVE  Refusing'
  BY <1>5, <1>13 DEF ignore, infoVars, ownVars, kernVars, histVars, sockVars, wireVars, reached
<1>14. ASSUME NEW s \in Side, half_close(s) \/ full(s)
       PROVE  FALSE
  BY <1>3, <1>14 DEF half_close, full
<1>15. ASSUME NEW s \in Side, closed(s)
       PROVE  Refusing'
  <2>1. s = "client"
    BY <1>4, <1>15 DEF closed, ServePeer, Serve, Side
  <2> QED BY <1>3, <1>6, <1>8, <1>15, <2>1 DEF closed, sockVars, histVars
<1>16. CASE waitingmethods
  BY <1>3, <1>5, <1>6, <1>8, <1>16 DEF waitingmethods, handshake_err, ownVars, kernVars, sockVars,
     wireVars, histVars, reached
<1>17. CASE sendingmethod
  BY <1>3, <1>6, <1>8, <1>17 DEF sendingmethod, handshake_err, ownVars, sockVars, infoVars
<1>18. CASE waitingcommand
  <2>1. replies = << >> /\ state = "WAITING_COMMAND"
    BY <1>18 DEF waitingcommand, Replied, NoServerYet
  <2>2. req.atyp # "BAD" /\ req.atyp # "DOMN" /\ firewall
    BY <1>2 DEF Family, firewall
  <2>3. CASE handshake_err("client") /\ UNCHANGED <<ssock, replies>>
    BY <1>3, <1>6, <1>8, <2>3 DEF handshake_err
  <2>4. CASE UNCHANGED <<state, rep, ownVars, kernVars, ssock, replies>>
    BY <1>1, <1>5, <2>4 DEF ownVars, kernVars, reached
  <2>5. CASE reply_with_err(<<"RULESET">>) /\ NoServer
    <3>1. rep' = "RULESET" /\ state' = "SENDING_REPLY" /\ replies' = <<"RULESET">>
      BY <2>1, <2>5 DEF reply_with_err
    <3> QED BY <1>3, <2>5, <3>1 DEF NoServer, Refusing, Granted
  <2> QED BY <1>18, <2>2, <2>3, <2>4, <2>5 DEF waitingcommand, TakeRequest
<1>19. CASE sendingreply
  <2>1. state = "SENDING_REPLY" /\ rep # "SUCCESS"
    BY <1>3, <1>19 DEF sendingreply, Granted
  <2>2. CASE handshake_err("client")
    BY <1>3, <1>6, <1>8, <1>19, <2>2 DEF sendingreply, handshake_err, sockVars
  <2>3. CASE UNCHANGED <<state, rep, ownVars, kernVars>>
    BY <1>1, <1>5, <1>19, <2>3 DEF sendingreply, ownVars, kernVars, sockVars, reached
  <2> QED BY <1>19, <2>1, <2>2, <2>3 DEF sendingreply, AfterReply
<1>20. CASE connecting \/ bindlistening
  BY <1>3, <1>20 DEF connecting, bindlistening
<1> QED BY <1>9, <1>10, <1>11, <1>12, <1>13, <1>14, <1>15, <1>16, <1>17, <1>18, <1>19, <1>20
        DEF Next, Handle

\* Whatever command names a blocked literal address, no socket is ever opened
\* for it, and its only reply says that the ruleset forbids it.
THEOREM BlockedNeverReachedAlways == Spec => []BlockedNeverReached
<1>1. Init => Refusing
  BY DEF Init, Refusing, Granted, Side
<1>2. IInv /\ Replied /\ Refusing /\ [Next]_vars => Refusing'
  BY RefusingStep
<1>3. Refusing => BlockedNeverReached
  BY DEF Refusing, BlockedNeverReached
<1> QED BY <1>1, <1>2, <1>3, RepliedAlways, PTL DEF Spec
-----------------------------------------------------------------------------
(* The shared record lives as Lifecycle says.                              *)

Phase(st) == IF st = "NO_STATE" THEN "start"
             ELSE IF st = "CLOSED" THEN "closing"
             ELSE IF st \in {"FULL", "HALF_CLOSE", "FULL_UDPA"} THEN "relay"
             ELSE "handshake"
Ends == {s \in Side : data[s]}

\* The variables of Lifecycle, as the session gives them.
LEMMA LifeIs ==
  /\ Life!Init <=> Phase(state) = "start" /\ Ends = {} /\ mem = {}
  /\ Life!vars = <<Phase(state), Ends, mem>>
  /\ Life!Open <=> /\ Phase(state) = "start" /\ Phase(state') = "handshake"
                   /\ Ends' = {"client"} /\ mem' = {"shared", "info"}
  /\ Life!Join <=> /\ Phase(state) = "handshake" /\ Ends = {"client"}
                   /\ mem = {"shared", "info"} /\ Ends' = {"client", "server"}
                   /\ Phase(state') = Phase(state) /\ mem' = mem
  /\ Life!Relay <=> /\ Phase(state) = "handshake" /\ Ends = {"client", "server"}
                    /\ mem = {"shared", "info"} /\ Phase(state') = "relay"
                    /\ Ends' = Ends /\ mem' = mem
  /\ Life!Close <=> /\ Phase(state) = "relay" /\ Phase(state') = "closing"
                    /\ Ends' = Ends /\ mem' = mem
  /\ \A e : Life!Leave(e) <=>
       /\ e \in Ends /\ Phase(state) \in {"handshake", "closing"}
       /\ Phase(state) = "handshake" => e = "client"
       /\ Phase(state') = "closing" /\ Ends' = Ends \ {e}
       /\ mem' = IF Ends' = {} THEN {} ELSE {"shared"}
BY DEF Life!Init, Life!vars, Life!Open, Life!Join, Life!Relay, Life!Close, Life!Leave,
   Life!Whole, Phase, Ends

\* Nothing of it changes.
LEMMA LifeKept ==
  ASSUME Phase(state') = Phase(state), data' = data, mem' = mem
  PROVE  UNCHANGED Life!vars
<1>1. Ends' = Ends
  BY DEF Ends
<1> QED BY <1>1 DEF Life!vars, Phase, Ends

\* An end leaves.
LEMMA LifeLeaves ==
  ASSUME IInv, NEW s \in Side, data[s], release(s), state' = "CLOSED",
         (Phase(state) = "handshake" /\ s = "client") \/ state = "CLOSED"
  PROVE  Life!Leave(s)
<1>1. data \in [Side -> BOOLEAN] /\ s \in Ends
  BY DEF IInv, TypeOK, OwnOK, Ends
<1>2. Ends' = Ends \ {s} /\ (Ends' = {} <=> ~data[Peer(s)])
  BY <1>1 DEF release, free_data, Ends, Side, Peer
<1>3. mem' = IF Ends' = {} THEN {} ELSE {"shared"}
  BY <1>2 DEF release, free_data
<1>4. Phase(state) \in {"handshake", "closing"} /\ Phase(state') = "closing"
  BY DEF Phase
<1> QED BY <1>1, <1>2, <1>3, <1>4, LifeIs DEF Phase

\* init_command: the server's end joins, or it is refused.
LEMMA LifeCommand ==
  ASSUME IInv, state \in {"WAITING_COMMAND", "ASYNC_DNS"}, mem' = mem,
         NEW command, NEW fam, NEW pre, NEW used, init_command(command, fam, pre, used)
  PROVE  Life!Join \/ UNCHANGED Life!vars
<1>1. Phase(state) = "handshake" /\ Phase(state') = "handshake"
  BY DEF Phase, init_command, init_connect, init_bind, init_udpa, NoListener, ReplyAndListen,
     CommandFails, reply_with_err
<1>2. ServerData \/ UNCHANGED data
  BY DEF init_command, init_connect, init_bind, init_udpa, NoListener, ReplyAndListen, NoServer
<1>3. CASE ServerData
  <2>1. /\ data \in [Side -> BOOLEAN] /\ data["client"] /\ ~data["server"]
        /\ mem = {"shared", "info"}
    BY DEF IInv, TypeOK, OwnOK, Shape, ClientEnd, Running, ServerEnd, NoServerYet
  <2>2. Ends = {"client"} /\ Ends' = {"client", "server"}
    BY <1>3, <2>1 DEF ServerData, Ends, Side
  <2> QED BY <1>1, <2>1, <2>2, LifeIs
<1> QED BY <1>1, <1>2, <1>3, LifeKept

LEMMA LifeStep ==
  ASSUME IInv, [Next]_vars
  PROVE  [Life!Next]_(Life!vars)
<1>1. /\ data \in [Side -> BOOLEAN]
      /\ Running => data["client"] /\ mem = {"shared", "info"}
      /\ \A s \in Side : batch[s] # {} => data[s]
  BY DEF IInv, TypeOK, OwnOK, Shape, ClientEnd, Registered
<1>2. CASE UNCHANGED <<state, data, mem>>
  BY <1>2, LifeKept
<1>3. CASE epoll_wait \/ World \/ UNCHANGED vars
  BY <1>2, <1>3 DEF epoll_wait, World, ClientSends, ServerSends, ConnectEnds, Knocks, resolver_th,
     Closes, Resets, Leaves, ProgramVars, ownVars, vars
<1>4. CASE accept_new_client
  <2>1. CASE /\ data' = [data EXCEPT !["client"] = TRUE] /\ mem' = {"shared", "info"}
             /\ state' = "WAITING_METHODS"
    <3>1. ~data["server"] /\ state = "NO_STATE"
      BY <1>4 DEF accept_new_client, IInv, Shape, Nothing, Side
    <3>2. Ends' = {"client"}
      BY <1>1, <2>1, <3>1 DEF Ends, Side
    <3> QED BY <2>1, <3>1, <3>2, LifeIs DEF Phase, Life!Next
  <2> QED BY <1>2, <1>4, <2>1 DEF accept_new_client
<1>5. ASSUME handshake_err("client"), Phase(state) = "handshake"
      PROVE  Life!Next
  <2>1. data["client"] /\ "client" \in Side
    BY <1>1, <1>5 DEF Running, Phase, Side
  <2> QED BY <1>5, <2>1, LifeLeaves DEF handshake_err, Life!Next
<1>6. ASSUME NEW s \in Side, closed(s)
      PROVE  Life!Next
  <2>1. data[s] /\ release(s) /\ state = "CLOSED" /\ state' = "CLOSED"
    BY <1>1, <1>6 DEF closed, ServePeer, Serve
  <2> QED BY <2>1, LifeLeaves DEF Life!Next, Side
<1>7. ASSUME NEW s \in Side, half_close(s)
      PROVE  Life!Next
  <2>1. state = "HALF_CLOSE" /\ state' = "CLOSED" /\ data' = data /\ mem' = mem
    BY <1>7 DEF half_close, ownVars
  <2>2. Ends' = Ends
    BY <2>1 DEF Ends
  <2> QED BY <2>1, <2>2, LifeIs DEF Phase, Life!Next
<1>8. ASSUME NEW s \in Side, full(s)
      PROVE  UNCHANGED Life!vars
  <2>1. Phase(state') = Phase(state) /\ data' = data /\ mem' = mem
    BY <1>8 DEF full, send_traffic, read_traffic, ownVars, Phase
  <2> QED BY <2>1, LifeKept
<1>9. ASSUME NEW s \in Side, ignore(s)
      PROVE  UNCHANGED Life!vars
  <2>1. UNCHANGED <<state, data, mem>>
    BY <1>9 DEF ignore, ownVars
  <2> QED BY <2>1, LifeKept
<1>10. CASE waitingmethods
  <2>1. CASE ~ handshake_err("client")
    <3>1. Phase(state') = Phase(state) /\ data' = data /\ mem' = mem
      BY <1>10, <2>1 DEF waitingmethods, ownVars, Phase
    <3> QED BY <3>1, LifeKept
  <2> QED BY <1>5, <1>10, <2>1 DEF waitingmethods, Phase
<1>11. CASE sendingmethod
  <2>1. CASE UNCHANGED ownVars /\ state' = "WAITING_COMMAND"
    <3>1. Phase(state') = Phase(state) /\ data' = data /\ mem' = mem
      BY <1>11, <2>1 DEF sendingmethod, ownVars, Phase
    <3> QED BY <3>1, LifeKept
  <2> QED BY <1>5, <1>11, <2>1 DEF sendingmethod, Phase
<1>12. CASE waitingcommand
  <2>1. state = "WAITING_COMMAND"
    BY <1>12 DEF waitingcommand
  <2>2. CASE handshake_err("client")
    BY <1>5, <2>1, <2>2 DEF Phase
  <2>3. CASE /\ state' \in {"WAITING_COMMAND", "ASYNC_DNS", "SENDING_REPLY"}
             /\ data' = data /\ mem' = mem
    <3>1. Phase(state') = Phase(state)
      BY <2>1, <2>3 DEF Phase
    <3> QED BY <2>3, <3>1, LifeKept
  <2>4. ASSUME NEW used, init_command(req.cmd, req.atyp, << >>, used), mem' = mem
        PROVE  [Life!Next]_(Life!vars)
    BY <2>1, <2>4, LifeCommand DEF Life!Next
  <2> QED BY <1>12, <2>1, <2>2, <2>3, <2>4 DEF waitingcommand, TakeRequest, reply_with_err,
          NoServer, ownVars
<1>13. CASE resolve_ret
  <2>1. state = "ASYNC_DNS" /\ mem' = mem
    BY <1>13 DEF resolve_ret, Serve, IInv, Shape, Lookup
  <2> QED BY <1>13, <2>1, LifeCommand DEF resolve_ret, Life!Next
<1>14. CASE sendingreply
  <2>1. state \in {"SENDING_REPLY", "SENDING_REPLY_2"}
    BY <1>14 DEF sendingreply
  <2>2. CASE handshake_err("client")
    BY <1>5, <2>1, <2>2 DEF Phase
  <2>3. CASE rep = "SUCCESS" /\ state' = AfterSuccess /\ data' = data /\ mem' = mem
    <3>1. CASE state' = "BIND_LISTENING"
      <4>1. Phase(state') = Phase(state)
        BY <2>1, <3>1 DEF Phase
      <4> QED BY <2>3, <4>1, LifeKept
    <3>2. CASE state' \in {"FULL", "FULL_UDPA"}
      <4>1. data["client"] /\ data["server"] /\ mem = {"shared", "info"}
        BY <1>1, <2>1, <2>3 DEF IInv, Shape, ServerEnd, Granted, Running
      <4>2. Ends = {"client", "server"} /\ Ends' = Ends
        BY <2>3, <4>1 DEF Ends, Side
      <4> QED BY <2>1, <2>3, <3>2, <4>1, <4>2, LifeIs DEF Phase, Life!Next
    <3> QED BY <2>3, <3>1, <3>2 DEF AfterSuccess
  <2>4. CASE UNCHANGED <<state, ownVars>>
    BY <1>2, <2>4 DEF ownVars
  <2> QED BY <1>14, <2>2, <2>3, <2>4 DEF sendingreply, AfterReply, ownVars
<1>15. CASE connecting \/ bindlistening
  <2>1. Phase(state') = Phase(state) /\ data' = data /\ mem' = mem
    BY <1>15 DEF connecting, bindlistening, reply_with_err, ownVars, Phase
  <2> QED BY <2>1, LifeKept
<1> QED BY <1>3, <1>4, <1>6, <1>7, <1>8, <1>9, <1>10, <1>11, <1>12, <1>13, <1>14, <1>15
        DEF Next, Handle

\* The Shared record and its two Data go through the life Lifecycle describes:
\* one server end joins, both are there to relay, then they leave one by one,
\* the first with the buffers and the last with the record.
THEOREM SessionImplementsLifecycle == Spec => ImplementsLifecycle
<1>1. Init => Life!Init
  <2> SUFFICES ASSUME Init PROVE Life!Init
    OBVIOUS
  <2>1. Phase(state) = "start" /\ Ends = {} /\ mem = {}
    BY DEF Init, Phase, Ends
  <2> QED BY <2>1, LifeIs
<1>2. IInv /\ [Next]_vars => [Life!Next]_(Life!vars)
  BY LifeStep
<1> QED BY <1>1, <1>2, Invariance, PTL DEF Spec, ImplementsLifecycle, Life!Spec
----------------------------------------------------------------------------
(***************************************************************************)
(* The relayed streams: nothing the proxy takes from one end is missing at *)
(* the other, except what it reads while the other buffer is full.  And a  *)
(* success reply to connect tells of a connection.                         *)
(*                                                                         *)
(* Nothing is assumed of the two ends: they send what they like and when,  *)
(* and the theorems name the steps in which bytes are lost.                *)
(***************************************************************************)

\* What the proxy has read from an end and neither delivered nor buffered, in either direction.
Down == Taken("server") - (dlv["client"] + client_out)
Up == Taken("client") - (dlv["server"] + server_out)

\* On the way to the relay, and before.
Reaching == state \in {"CONNECTING", "BIND_LISTENING", "SENDING_REPLY_2"} \/ Granted
Early == state \in NoServerYet \/ Reaching

\* The numbers the balance is made of.
LEMMA Amounts ==
  ASSUME IInv
  PROVE  /\ sent \in [Side -> Nat] /\ unread \in [Side -> Nat] /\ dlv \in [Side -> Nat]
         /\ \A s \in Side : sent[s] \in Nat /\ unread[s] \in Nat /\ dlv[s] \in Nat
                            /\ unread[s] <= sent[s]
         /\ client_out \in Nat /\ server_out \in Nat
         /\ "client" \in Side /\ "server" \in Side
         /\ Cap \in Nat /\ Cap >= 4 /\ ReadMax \in Nat
BY SizeAssumption DEF IInv, TypeOK, OwnOK, WireOK, HistOK, Shape, Sent, Side

\* send_traffic moves units from a buffer to its end, read_traffic from the
\* kernel to the buffer of the peer, if there is room.
LEMMA FullBalance ==
  ASSUME IInv, NEW s \in Side, full(s)
  PROVE  /\ sent' = sent /\ replies' = replies
         /\ Down' = Down \/ (s = "server" /\ Overflows(s))
         /\ Up' = Up \/ (s = "client" /\ Overflows(s))
<1>1. sent' = sent /\ replies' = replies
  BY DEF full, wireVars
<1>2. ASSUME send_traffic(s), unread' = unread
      PROVE  Down' = Down /\ Up' = Up
  <2>1. CASE UNCHANGED <<ringVars, dlv>>
    BY <1>1, <1>2, <2>1 DEF ringVars, Down, Up, Taken
  <2>2. ASSUME NEW k \in 0 .. OutOf(s), Sends(s, OutOf(s), k), SetOut(s, OutOf(s) - k)
        PROVE  Down' = Down /\ Up' = Up
    <3>1. k \in Nat
      BY <2>2, Amounts DEF OutOf
    <3>2. CASE s = "client"
      <4>1. /\ dlv'["client"] = dlv["client"] + k /\ dlv'["server"] = dlv["server"]
            /\ client_out' = client_out - k /\ server_out' = server_out
        BY <2>2, <3>2, Amounts DEF Sends, SetOut, OutOf, Side
      <4> QED BY <1>1, <1>2, <3>1, <4>1, Amounts DEF Down, Up, Taken
    <3>3. CASE s = "server"
      <4>1. /\ dlv'["server"] = dlv["server"] + k /\ dlv'["client"] = dlv["client"]
            /\ server_out' = server_out - k /\ client_out' = client_out
        BY <2>2, <3>3, Amounts DEF Sends, SetOut, OutOf, Side
      <4> QED BY <1>1, <1>2, <3>1, <4>1, Amounts DEF Down, Up, Taken
    <3> QED BY <3>2, <3>3 DEF Side
  <2> QED BY <1>2, <2>1, <2>2 DEF send_traffic
<1>3. ASSUME read_traffic(s), dlv' = dlv
      PROVE  /\ Down' = Down \/ (s = "server" /\ Overflows(s))
             /\ Up' = Up \/ (s = "client" /\ Overflows(s))
  <2> DEFINE n == AtMost(unread[s], ReadMax)
  <2>1. n \in Nat /\ n <= unread[s]
    BY Amounts DEF AtMost
  <2>2. unread' = [unread EXCEPT ![s] = @ - n]
    BY <1>3 DEF read_traffic
  <2>3. IF Room(Peer(s), n) THEN SetOut(Peer(s), OutOf(Peer(s)) + n) ELSE UNCHANGED ringVars
    BY <1>3 DEF read_traffic
  <2>4. ~ Room(Peer(s), n) => Overflows(s)
    <3>1. OutOf(Peer(s)) \in 0 .. Cap
      BY DEF OutOf, IInv, TypeOK, OwnOK
    <3>2. Cap \in Nat
      BY SizeAssumption
    <3>3. unread'[s] = unread[s] - n /\ unread[s] \in Nat
      BY <2>2, Amounts
    <3>4. state = "FULL"
      BY DEF full
    <3>5. ~ Room(Peer(s), n) => OutOf(Peer(s)) + n > Cap /\ n > 0
      <4> HIDE DEF n
      <4> QED BY <2>1, <3>1, <3>2 DEF Room
    <3> QED BY <2>1, <3>3, <3>4, <3>5 DEF Overflows
  <2> HIDE DEF n
  <2>5. CASE s = "client"
    <3>1. unread'["client"] = unread["client"] - n /\ unread'["server"] = unread["server"]
      BY <2>2, <2>5, Amounts DEF Side
    <3>2. client_out' = client_out /\ (Overflows(s) \/ server_out' = server_out + n)
      BY <2>3, <2>4, <2>5 DEF SetOut, OutOf, Peer, ringVars
    <3> QED BY <1>1, <1>3, <2>1, <2>5, <3>1, <3>2, Amounts DEF Down, Up, Taken
  <2>6. CASE s = "server"
    <3>1. unread'["server"] = unread["server"] - n /\ unread'["client"] = unread["client"]
      BY <2>2, <2>6, Amounts DEF Side
    <3>2. server_out' = server_out /\ (Overflows(s) \/ client_out' = client_out + n)
      BY <2>3, <2>4, <2>6 DEF SetOut, OutOf, Peer, ringVars
    <3> QED BY <1>1, <1>3, <2>1, <2>6, <3>1, <3>2, Amounts DEF Down, Up, Taken
  <2> QED BY <2>5, <2>6 DEF Side
<1> QED BY <1>1, <1>2, <1>3 DEF full

\* The remote ends change what was sent and what waits in the kernel together.
LEMMA WorldTakes ==
  ASSUME IInv, World
  PROVE  /\ \A s \in Side : Taken(s)' = Taken(s)
         /\ Down' = Down /\ Up' = Up
         /\ UNCHANGED <<state, rep, client_out, server_out, dlv, replies, req>>
<1>1. UNCHANGED <<state, rep, client_out, server_out, dlv, replies, req>>
  BY DEF World, ClientSends, ServerSends, ConnectEnds, Knocks, resolver_th, Closes, Resets,
     Leaves, ProgramVars, ringVars, histVars
<1> DEFINE Kept == \A s \in Side : Taken(s)' = Taken(s)
<1>a. SUFFICES Kept
  BY <1>1, Amounts DEF Down, Up, Side
<1>2. ASSUME NEW e \in Side, sent' = [sent EXCEPT ![e] = @ + 1],
             unread' = [unread EXCEPT ![e] = @ + 1]
      PROVE  Kept
  BY <1>2, Amounts DEF Taken
<1>3. ASSUME NEW e \in Side, NEW lost \in Nat, sent' = [sent EXCEPT ![e] = @ - lost],
             unread' = [unread EXCEPT ![e] = @ - lost]
      PROVE  Kept
  BY <1>3, Amounts DEF Taken
<1>4. CASE UNCHANGED <<sent, unread>>
  BY <1>4, Amounts DEF Taken
<1>5. CASE \E e \in Side : Closes(e) \/ Resets(e)
  BY <1>3, <1>5, Amounts DEF Closes, Resets, Leaves
<1>6. CASE ClientSends
  BY <1>2, <1>6, Amounts DEF ClientSends, Side
<1>7. CASE ServerSends
  BY <1>2, <1>7, Amounts DEF ServerSends
<1> QED BY <1>4, <1>5, <1>6, <1>7, Amounts DEF World, ConnectEnds, Knocks, resolver_th

\* Every step of the program but the relaying ones.
Handshakes ==
  \/ accept_new_client \/ epoll_wait \/ resolve_ret
  \/ waitingmethods \/ sendingmethod \/ waitingcommand \/ sendingreply
  \/ connecting \/ bindlistening
  \/ \E s \in Side : half_close(s) \/ closed(s) \/ ignore(s)

LEMMA Steps ==
  ASSUME [Next]_vars
  PROVE  Handshakes \/ World \/ (\E s \in Side : full(s)) \/ UNCHANGED vars
BY DEF Next, Handle, Handshakes

\* The same numbers after a step.
LEMMA NextNumbers ==
  ASSUME IInv, [Next]_vars
  PROVE  /\ sent'["client"] \in Nat /\ sent'["server"] \in Nat
         /\ unread'["client"] \in Nat /\ unread'["server"] \in Nat
         /\ dlv'["client"] \in Nat /\ dlv'["server"] \in Nat
         /\ client_out' \in Nat /\ server_out' \in Nat /\ Len(replies') \in Nat
<1>1. IInv'
  BY NextStep
<1>2. /\ sent' \in [Side -> Nat] /\ unread' \in [Side -> Nat] /\ dlv' \in [Side -> Nat]
      /\ client_out' \in Nat /\ server_out' \in Nat /\ Len(replies') \in Nat
  BY <1>1, SizeAssumption DEF IInv, TypeOK, OwnOK, WireOK, HistOK
<1> QED BY <1>2 DEF Side

\* The relay starts with every reply delivered and nothing buffered; until then
\* the server's bytes stay in the kernel and it is sent nothing.
LEMMA Approach ==
  ASSUME IInv, Replied, Handshakes
  PROVE  /\ sent' = sent /\ req' = req
         /\ unread'["server"] = unread["server"] /\ dlv'["server"] = dlv["server"]
         /\ Early' => Early
         /\ state' = "FULL" =>
              \/ UNCHANGED <<state, client_out, server_out, dlv, replies, unread>>
              \/ /\ Reaching /\ dlv'["client"] = 1 + Len(replies') /\ client_out' = 0
                 /\ server_out' = server_out /\ unread' = unread
<1>1. sent' = sent /\ req' = req
  BY DEF Handshakes, accept_new_client, epoll_wait, resolve_ret, waitingmethods, sendingmethod,
     waitingcommand, sendingreply, connecting, bindlistening, half_close, closed, ignore, wireVars
<1>2. unread' = unread \/ RecvClient
  BY DEF Handshakes, accept_new_client, epoll_wait, resolve_ret, waitingmethods, sendingmethod,
     waitingcommand, sendingreply, connecting, bindlistening, half_close, closed, ignore
<1>3. unread'["server"] = unread["server"]
  BY <1>2, Amounts DEF RecvClient
<1>4. dlv' = dlv \/ (\E k : dlv' = [dlv EXCEPT !["client"] = @ + k])
  BY DEF Handshakes, accept_new_client, epoll_wait, resolve_ret, waitingmethods, sendingmethod,
     waitingcommand, sendingreply, connecting, bindlistening, half_close, closed, ignore, histVars,
     Sends
<1>5. dlv'["server"] = dlv["server"]
  BY <1>4, Amounts
<1>6. CASE \/ accept_new_client \/ epoll_wait \/ waitingmethods \/ sendingmethod
           \/ \E s \in Side : half_close(s) \/ closed(s) \/ ignore(s)
  <2>1. /\ Early' => Early
        /\ state' = "FULL" => UNCHANGED <<state, client_out, server_out, dlv, replies, unread>>
    BY <1>6 DEF accept_new_client, epoll_wait, waitingmethods, sendingmethod, half_close, closed,
       ignore, handshake_err, infoVars, ringVars, histVars, Early, Reaching, Granted, NoServerYet
  <2> QED BY <1>1, <1>3, <1>5, <2>1
<1>7. CASE waitingcommand \/ resolve_ret
  <2>1. state \in {"WAITING_COMMAND", "ASYNC_DNS"}
    BY <1>7 DEF waitingcommand, resolve_ret, Serve, IInv, Shape, Lookup
  <2>2. Early
    BY <2>1 DEF Early, NoServerYet
  <2>3. ASSUME NEW command, NEW fam, NEW pre, NEW used, init_command(command, fam, pre, used)
        PROVE  state' # "FULL"
    BY <2>3 DEF init_command, init_connect, init_bind, init_udpa, NoListener, ReplyAndListen,
       CommandFails, reply_with_err
  <2>4. state' # "FULL"
    BY <1>7, <2>1, <2>3 DEF waitingcommand, resolve_ret, TakeRequest, handshake_err, reply_with_err
  <2> QED BY <1>1, <1>3, <1>5, <2>2, <2>4
<1>8. CASE connecting \/ bindlistening
  <2>1. Early /\ state' # "FULL"
    BY <1>8 DEF connecting, bindlistening, Early, Reaching, reply_with_err
  <2> QED BY <1>1, <1>3, <1>5, <2>1
<1>9. CASE sendingreply
  <2>1. /\ state \in {"SENDING_REPLY", "SENDING_REPLY_2"} /\ replies' = replies
        /\ server_out' = server_out /\ unread' = unread
    BY <1>9 DEF sendingreply
  <2>2. CASE state' = "CLOSED"
    BY <1>1, <1>3, <1>5, <2>2 DEF Early, Reaching, Granted, NoServerYet
  <2>3. ASSUME NEW k \in 0 .. client_out, Sends("client", client_out, k),
               client_out' = client_out - k, k < client_out, UNCHANGED <<state, rep>>
        PROVE  (Early' => Early) /\ state' # "FULL"
    BY <2>1, <2>3 DEF Early, Reaching, Granted
  <2>4. ASSUME NEW k \in 0 .. client_out, Sends("client", client_out, k),
               client_out' = client_out - k, ~ (k < client_out), rep = "SUCCESS"
        PROVE  Reaching /\ dlv'["client"] = 1 + Len(replies') /\ client_out' = 0
    <3>1. Reaching /\ Told
      BY <2>1, <2>4 DEF Reaching, Granted, Replied
    <3>2. k = client_out /\ k \in Nat
      BY <2>4, Amounts
    <3>3. dlv'["client"] = dlv["client"] + client_out /\ client_out' = 0
      BY <2>4, <3>2, Amounts DEF Sends
    <3>4. dlv["client"] + client_out = 1 + Len(replies')
      BY <2>1, <3>1 DEF Told
    <3> QED BY <3>1, <3>3, <3>4
  <2>5. CASE rep = "SUCCESS"
    BY <1>1, <1>3, <1>5, <1>9, <2>1, <2>2, <2>3, <2>4 DEF sendingreply, AfterReply, handshake_err,
       Early
  <2>6. CASE rep # "SUCCESS"
    BY <1>1, <1>3, <1>5, <1>9, <2>1, <2>2, <2>3, <2>6 DEF sendingreply, AfterReply, handshake_err
  <2> QED BY <2>5, <2>6
<1> QED BY <1>6, <1>7, <1>8, <1>9 DEF Handshakes

\* While relaying, a unit that was taken from one end is delivered to the other
\* or buffered for it in every step, but for a read that finds no room.
THEOREM OnlyOverflowLoses ==
  Spec => [][state = "FULL" /\ (Down' # Down \/ Up' # Up) => \E s \in Side : Overflows(s)]_vars
<1> DEFINE Kept == state = "FULL" /\ (Down' # Down \/ Up' # Up) => \E s \in Side : Overflows(s)
<1>1. ASSUME IInv, Replied, [Next]_vars, state = "FULL"
      PROVE  Kept
  <2>1. CASE Handshakes
    <3>1. UNCHANGED <<sent, unread, dlv, client_out, server_out>>
          \/ \E s \in Side : half_close(s) \/ closed(s)
      BY <1>1, <2>1 DEF Handshakes, accept_new_client, epoll_wait, resolve_ret, waitingmethods,
         sendingmethod, waitingcommand, sendingreply, connecting, bindlistening, ignore, wireVars,
         ringVars, histVars, IInv, Shape, Lookup, Serve
    <3>2. ~ (\E s \in Side : half_close(s) \/ closed(s))
      BY <1>1 DEF half_close, closed
    <3> QED BY <3>1, <3>2 DEF Down, Up, Taken
  <2>2. CASE World
    BY <1>1, <2>2, WorldTakes
  <2>3. CASE \E s \in Side : full(s)
    BY <1>1, <2>3, FullBalance
  <2>4. CASE UNCHANGED vars
    BY <2>4 DEF vars, wireVars, histVars, ringVars, Down, Up, Taken
  <2> QED BY <1>1, <2>1, <2>2, <2>3, <2>4, Steps
<1>2. IInv /\ Replied /\ [Next]_vars => [Kept]_vars
  BY <1>1
<1> QED BY <1>2, RepliedAlways, PTL DEF Spec
-----------------------------------------------------------------------------
(* How the relay starts.                                                   *)

\* What a handler of the handshake reads from the client.
LEMMA HandshakeReads ==
  ASSUME IInv, RecvClient, sent' = sent
  PROVE  /\ Received \in Nat /\ Received <= unread["client"]
         /\ Received = unread["client"] \/ server_out + Received = Cap
         /\ Taken("client")' = Taken("client") + Received
<1>1. Cap - server_out \in Nat
  BY Amounts DEF IInv, TypeOK, OwnOK
<1>2. Received \in Nat /\ Received <= unread["client"]
      /\ (Received = unread["client"] \/ server_out + Received = Cap)
  BY <1>1, Amounts DEF Received, AtMost
<1>3. unread'["client"] = unread["client"] - Received
  BY Amounts DEF RecvClient
<1> QED BY <1>2, <1>3, Amounts DEF Taken

\* Before the relay nothing is taken from the server and nothing sent to it, and
\* what is taken from the client is its two messages and what is behind them.
Before ==
  /\ Early => Taken("server") = 0 /\ dlv["server"] = 0
  /\ state \in {"NO_STATE", "WAITING_METHODS"} => Taken("client") = server_out
  /\ state \in {"SENDING_METHOD", "WAITING_COMMAND", "ASYNC_DNS"} =>
       Taken("client") = MethLen + server_out
  /\ state = "ASYNC_DNS" => server_out >= 2 /\ req.atyp = "DOMN"
  /\ Reaching => Taken("client") >= MethLen + 2 /\ req.atyp \in Family \cup {"DOMN"}

LEMMA MethodsBefore ==
  ASSUME IInv, Before, waitingmethods
  PROVE  Before'
<1> DEFINE used == server_out + Received
<1>1. /\ state = "WAITING_METHODS" /\ sent' = sent /\ dlv' = dlv /\ RecvClient
      /\ state' \in {"CLOSED", "WAITING_METHODS", "SENDING_METHOD"}
  BY DEF waitingmethods, handshake_err, wireVars, histVars
<1>2. /\ Taken("server") = 0 /\ dlv["server"] = 0 /\ Taken("client") = server_out
  BY <1>1 DEF Before, Early, NoServerYet
<1>3. Received \in Nat /\ Taken("client")' = Taken("client") + Received
  BY <1>1, HandshakeReads
<1>4. Taken("client")' = used /\ used \in Nat /\ Taken("server")' = 0 /\ dlv'["server"] = 0
  BY <1>1, <1>2, <1>3, Amounts DEF Taken, RecvClient, Side
<1>5. CASE state' = "CLOSED"
  BY <1>5 DEF Before, Early, Reaching, Granted, NoServerYet
<1>6. CASE state' = "WAITING_METHODS"
  <2>1. server_out' = used
    BY <1>1, <1>6 DEF waitingmethods, handshake_err
  <2> QED BY <1>4, <1>6, <2>1 DEF Before, Reaching, Granted
<1>7. CASE state' = "SENDING_METHOD"
  <2>1. server_out' = used - MethLen
    BY <1>1, <1>7 DEF waitingmethods, handshake_err
  <2>2. Taken("client")' = MethLen + server_out'
    BY <1>4, <2>1 DEF MethLen
  <2> QED BY <1>4, <1>7, <2>2 DEF Before, Reaching, Granted
<1> QED BY <1>1, <1>5, <1>6, <1>7

\* A request is taken with both units of its fixed part, by address or by name.
LEMMA CommandBefore ==
  ASSUME IInv, Before, waitingcommand
  PROVE  Before'
<1> DEFINE used == server_out + Received
<1>1. /\ state = "WAITING_COMMAND" /\ sent' = sent /\ dlv' = dlv /\ req' = req /\ RecvClient
  BY DEF waitingcommand, wireVars
<1>2. /\ Taken("server") = 0 /\ dlv["server"] = 0 /\ Taken("client") = MethLen + server_out
  BY <1>1 DEF Before, Early, NoServerYet
<1>3. Received \in Nat /\ Taken("client")' = Taken("client") + Received
      /\ server_out + Received \in 0 .. Cap
  <2>1. /\ Received \in Nat /\ Taken("client")' = Taken("client") + Received
        /\ server_out \in 0 .. Cap /\ Cap \in Nat
    BY <1>1, HandshakeReads, SizeAssumption DEF IInv, TypeOK, OwnOK
  <2>2. Received <= Cap - server_out
    BY <2>1, Amounts DEF Received, AtMost
  <2> QED BY <2>1, <2>2
<1>4. /\ Taken("client")' = MethLen + used /\ used \in 0 .. Cap
      /\ Taken("server")' = 0 /\ dlv'["server"] = 0
  BY <1>1, <1>2, <1>3, Amounts DEF Taken, RecvClient, Side, MethLen
<1>5. ASSUME state' \in {"CLOSED", "SENDING_REPLY"}, ~ Granted'
      PROVE  Before'
  BY <1>4, <1>5 DEF Before, Reaching, NoServerYet
<1>6. ASSUME NEW codes \in ErrorCodes, reply_with_err(codes)
      PROVE  Before'
  BY <1>5, <1>6 DEF reply_with_err, Granted, ErrorCodes, Errors
<1>7. CASE state' = state /\ server_out' = used
  BY <1>1, <1>4, <1>7 DEF Before, Reaching, Granted
<1>8. CASE handshake_err("client")
  BY <1>5, <1>8 DEF handshake_err, Granted
<1>9. req.atyp \in Family \cup {"DOMN", "BAD"}
  BY WorldAssumption DEF IInv, TypeOK, WireOK
<1>10. <<"BADATYP">> \in ErrorCodes /\ <<"RULESET">> \in ErrorCodes
  <2>1. "BADATYP" \in Errors /\ "RULESET" \in Errors
    BY DEF Errors, Rep
  <2> QED BY <2>1, CodesAreErrors
<1>11. ASSUME used >= CodeLen(req.atyp)
       PROVE  Taken("client")' >= MethLen + 2 /\ used >= 2
  BY <1>4, <1>11 DEF CodeLen, MethLen
<1>12. ASSUME req.atyp \in Family, used >= CodeLen(req.atyp),
              init_command(req.cmd, req.atyp, << >>, used)
       PROVE  Before'
  <2>1. state' \in {"CONNECTING", "SENDING_REPLY"}
    <3>1. CommandDone
      BY <1>1, <1>4, <1>12, CommandStep
    <3> QED BY <3>1 DEF CommandDone
  <2> QED BY <1>1, <1>4, <1>11, <1>12, <2>1 DEF Before, Reaching
<1>13. CASE /\ state' = "ASYNC_DNS" /\ server_out' = used /\ req.atyp = "DOMN"
            /\ used >= CodeLen(req.atyp)
  BY <1>1, <1>4, <1>11, <1>13 DEF Before, Reaching, Granted
<1>14. CASE used >= CodeLen(req.atyp) /\ TakeRequest(used)
  <2>1. ASSUME req.atyp = "DOMN" PROVE req.atyp \notin Family
    BY <2>1 DEF Family
  <2> QED BY <1>6, <1>7, <1>8, <1>10, <1>12, <1>13, <1>14, <2>1 DEF TakeRequest
<1> QED BY <1>6, <1>7, <1>8, <1>10, <1>14 DEF waitingcommand

LEMMA AnswerBefore ==
  ASSUME IInv, Before, resolve_ret
  PROVE  Before'
<1>1. state = "ASYNC_DNS" /\ UNCHANGED <<sent, unread, dlv, req>>
  BY DEF resolve_ret, Serve, IInv, Shape, Lookup, wireVars
<1>2. /\ Taken("server")' = 0 /\ dlv'["server"] = 0
      /\ Taken("client")' >= MethLen + 2 /\ req'.atyp = "DOMN"
  BY <1>1, Amounts DEF Before, Early, NoServerYet, Taken, MethLen
<1>3. CommandDone
  <2>1. server_out \in 0 .. Cap
    BY DEF IInv, TypeOK, OwnOK
  <2> QED BY <1>1, <2>1, CommandStep DEF resolve_ret
<1>4. state' \in {"CONNECTING", "SENDING_REPLY"}
  BY <1>3 DEF CommandDone
<1> QED BY <1>2, <1>4 DEF Before, Reaching

LEMMA BeforeStep ==
  ASSUME IInv, Replied, Before, [Next]_vars
  PROVE  Before'
<1>1. CASE UNCHANGED vars
  BY <1>1 DEF vars, infoVars, ringVars, wireVars, histVars, Before, Taken, Early, Reaching, Granted
<1>2. CASE World
  <2>1. Taken("client")' = Taken("client") /\ Taken("server")' = Taken("server")
    BY <1>2, WorldTakes, Amounts
  <2>2. UNCHANGED <<state, rep, server_out, dlv, req>>
    BY <1>2, WorldTakes
  <2> QED BY <2>1, <2>2 DEF Before, Early, Reaching, Granted
<1>3. ASSUME NEW s \in Side, full(s)
      PROVE  Before'
  <2>1. state' \in {"FULL", "HALF_CLOSE"}
    BY <1>3 DEF full, send_traffic, read_traffic
  <2> QED BY <2>1 DEF Before, Early, Reaching, Granted, NoServerYet
<1>4. CASE Handshakes
  <2>1. /\ sent' = sent /\ req' = req /\ dlv'["server"] = dlv["server"] /\ (Early' => Early)
        /\ unread'["server"] = unread["server"]
    BY <1>4, Approach
  <2>2. Early' => Taken("server")' = 0 /\ dlv'["server"] = 0
    BY <2>1 DEF Before, Taken
  <2>3. CASE accept_new_client
    <3>1. /\ state = "NO_STATE" /\ state' \in {"NO_STATE", "WAITING_METHODS"}
          /\ UNCHANGED <<server_out, unread>>
      BY <2>3 DEF accept_new_client, ringVars
    <3> QED BY <2>1, <2>2, <3>1 DEF Before, Taken, Reaching, Granted
  <2>4. CASE epoll_wait \/ \E s \in Side : ignore(s)
    <3>1. UNCHANGED <<state, rep, server_out, unread>>
      BY <2>4 DEF epoll_wait, ignore, infoVars, ringVars
    <3> QED BY <2>1, <2>2, <3>1 DEF Before, Taken, Reaching, Granted
  <2>5. CASE \E s \in Side : half_close(s) \/ closed(s)
    <3>1. state' = "CLOSED"
      BY <2>5 DEF half_close, closed
    <3> QED BY <3>1 DEF Before, Early, Reaching, Granted, NoServerYet
  <2>6. CASE sendingmethod
    <3>1. /\ state = "SENDING_METHOD" /\ state' \in {"CLOSED", "WAITING_COMMAND"}
          /\ UNCHANGED <<server_out, unread>>
      BY <2>6 DEF sendingmethod, handshake_err
    <3> QED BY <2>1, <2>2, <3>1 DEF Before, Taken, Reaching, Granted
  <2>7. CASE connecting \/ bindlistening
    <3>1. /\ Reaching /\ unread' = unread
          /\ state' \in {"CONNECTING", "BIND_LISTENING", "SENDING_REPLY", "SENDING_REPLY_2"}
      BY <2>7 DEF connecting, bindlistening, Reaching, reply_with_err
    <3> QED BY <2>1, <2>2, <3>1 DEF Before, Taken
  <2>8. CASE sendingreply
    <3>1. /\ state \in {"SENDING_REPLY", "SENDING_REPLY_2"} /\ unread' = unread
          /\ \/ state' \in {"CLOSED", "FULL", "FULL_UDPA"} \/ UNCHANGED <<state, rep>>
             \/ state' = "BIND_LISTENING" /\ rep = "SUCCESS"
      BY <2>8 DEF sendingreply, handshake_err, AfterReply, AfterSuccess
    <3>2. CASE state' \in {"CLOSED", "FULL", "FULL_UDPA"}
      BY <3>2 DEF Before, Early, Reaching, Granted, NoServerYet
    <3>3. CASE UNCHANGED <<state, rep>>
      BY <2>1, <2>2, <3>1, <3>3 DEF Before, Taken, Reaching, Granted
    <3>4. CASE state' = "BIND_LISTENING" /\ rep = "SUCCESS"
      <4>1. Reaching
        BY <3>1, <3>4 DEF Reaching, Granted
      <4> QED BY <2>1, <2>2, <3>1, <3>4, <4>1 DEF Before, Taken
    <3> QED BY <3>1, <3>2, <3>3, <3>4
  <2> QED BY <1>4, <2>3, <2>4, <2>5, <2>6, <2>7, <2>8, MethodsBefore, CommandBefore,
          AnswerBefore DEF Handshakes
<1> QED BY <1>1, <1>2, <1>3, <1>4, Steps

LEMMA BeforeAlways == Spec => [](IInv /\ Replied /\ Before)
<1>1. Init => Before
  BY DEF Init, Before, Early, Reaching, Granted, Taken, Side
<1>2. IInv /\ Replied /\ Before /\ [Next]_vars => Before'
  BY BeforeStep
<1> QED BY <1>1, <1>2, RepliedAlways, PTL DEF Spec
-----------------------------------------------------------------------------
(* The two streams, from the start of the relay to its end.                *)

\* Both streams are exact by the balance of what was taken and passed on.
Balanced ==
  /\ DownstreamExact <=> (state = "FULL" => Down = - (1 + Len(replies)))
  /\ UpstreamExact <=> (state = "FULL" => Up = MethLen + WireLen(req.atyp))

LEMMA ExactIs == IInv => Balanced
<1> SUFFICES ASSUME IInv PROVE Balanced
  OBVIOUS
<1>1. /\ sent["client"] \in Nat /\ unread["client"] \in Nat /\ sent["server"] \in Nat
      /\ unread["server"] \in Nat /\ dlv["client"] \in Nat /\ dlv["server"] \in Nat
      /\ client_out \in Nat /\ server_out \in Nat /\ Len(replies) \in Nat
      /\ MethLen \in Nat /\ WireLen(req.atyp) \in Nat
  BY Amounts, Ranges DEF MethLen, WireLen
<1> DEFINE sc == sent["client"]
           uc == unread["client"]
           ss == sent["server"]
           us == unread["server"]
           dc == dlv["client"]
           ds == dlv["server"]
           n == Len(replies)
           w == WireLen(req.atyp)
<1>2. DownstreamExact <=> (state = "FULL" => 1 + n + ss - us = dc + client_out)
  BY DEF DownstreamExact
<1>3. UpstreamExact <=> (state = "FULL" => sc - uc = MethLen + w + ds + server_out)
  BY DEF UpstreamExact
<1>4. Down = (ss - us) - (dc + client_out) /\ Up = (sc - uc) - (ds + server_out)
  BY DEF Down, Up, Taken
<1>5. /\ sc \in Nat /\ uc \in Nat /\ ss \in Nat /\ us \in Nat /\ dc \in Nat /\ ds \in Nat
      /\ client_out \in Nat /\ server_out \in Nat /\ n \in Nat /\ MethLen \in Nat /\ w \in Nat
  BY <1>1
<1> HIDE DEF sc, uc, ss, us, dc, ds, n, w
<1>6. (1 + n + ss - us = dc + client_out) <=> ((ss - us) - (dc + client_out) = - (1 + n))
  BY <1>5
<1>7. (sc - uc = MethLen + w + ds + server_out)
        <=> ((sc - uc) - (ds + server_out) = MethLen + w)
  BY <1>5
<1> QED BY <1>2, <1>3, <1>4, <1>6, <1>7 DEF n, w, Balanced

\* Every step of a relaying session but an overflow, and every step into it,
\* leaves the balances as the replies and the request make them.
LEMMA BalanceStep ==
  ASSUME IInv, Replied, Before, [Next]_vars, state' = "FULL"
  PROVE  \/ /\ state = "FULL" /\ replies' = replies /\ req' = req
            /\ Down' = Down \/ Overflows("server")
            /\ Up' = Up \/ Overflows("client")
         \/ /\ state # "FULL" /\ req' = req
            /\ Down' = - (1 + Len(replies')) /\ Up' = Taken("client")
            /\ Taken("client") >= MethLen + 2 /\ req.atyp \in Family \cup {"DOMN"}
<1>1. CASE UNCHANGED vars
  BY <1>1 DEF vars, wireVars, histVars, ringVars, Down, Up, Taken
<1>2. CASE World
  BY <1>2, WorldTakes
<1>3. ASSUME NEW s \in Side, full(s)
      PROVE  /\ state = "FULL" /\ replies' = replies /\ req' = req
             /\ Down' = Down \/ Overflows("server")
             /\ Up' = Up \/ Overflows("client")
  BY <1>3, FullBalance DEF full, wireVars
<1>4. CASE Handshakes
  <2>1. /\ sent' = sent /\ req' = req /\ dlv'["server"] = dlv["server"]
        /\ unread'["server"] = unread["server"]
    BY <1>4, Approach
  <2>2. CASE UNCHANGED <<state, client_out, server_out, dlv, replies, unread>>
    BY <2>1, <2>2 DEF Down, Up, Taken
  <2>3. CASE /\ Reaching /\ dlv'["client"] = 1 + Len(replies') /\ client_out' = 0
             /\ server_out' = server_out /\ unread' = unread
    <3>1. /\ Taken("server") = 0 /\ dlv["server"] = 0 /\ server_out = 0
          /\ Taken("client") >= MethLen + 2 /\ req.atyp \in Family \cup {"DOMN"}
      BY <2>3 DEF Before, Early, Reaching, IInv, Shape, ServerEnd
    <3>2. state # "FULL"
      BY <2>3 DEF Reaching, Granted
    <3>3. Len(replies') \in Nat /\ Taken("client") \in Int
      BY NextNumbers, Amounts DEF Taken
    <3>4. Taken("server")' = 0 /\ Taken("client")' = Taken("client")
      BY <2>1, <2>3, <3>1 DEF Taken
    <3>5. Down' = - (1 + Len(replies'))
      BY <2>3, <3>3, <3>4 DEF Down
    <3>6. Up' = Taken("client")
      BY <2>1, <2>3, <3>1, <3>3, <3>4 DEF Up
    <3> QED BY <2>1, <3>1, <3>2, <3>5, <3>6
  <2> QED BY <1>4, <2>2, <2>3, Approach
<1> QED BY <1>1, <1>2, <1>3, <1>4, Steps

\* DownstreamKept: whatever the two ends do, the client's stream is exact when
\* the relay starts and is broken by nothing but a read that finds no room.
THEOREM DownstreamKeptAlways == Spec => DownstreamKept
<1> DEFINE Kept == DownstreamExact /\ ~ DownstreamExact' => Overflows("server")
<1>1. ASSUME IInv, Replied, Before, [Next]_vars, DownstreamExact, ~ DownstreamExact'
      PROVE  Overflows("server")
  <2>1. Balanced'
    <3>1. IInv'
      BY <1>1, NextStep
    <3> QED BY <3>1, ExactIs, PTL
  <2>2. state' = "FULL" /\ Down' # - (1 + Len(replies'))
    BY <1>1, <2>1 DEF Balanced
  <2>3. state = "FULL" => Down = - (1 + Len(replies))
    BY <1>1, ExactIs DEF Balanced
  <2> QED BY <1>1, <2>2, <2>3, BalanceStep
<1>2. IInv /\ Replied /\ Before /\ [Next]_vars => [Kept]_vars
  BY <1>1
<1> QED BY <1>2, BeforeAlways, PTL DEF Spec, DownstreamKept

\* UpstreamKept: the server's stream is broken by a read that finds no room, or
\* is not exact from the start because of data sent before the reply or of a
\* name whose request was taken for complete one byte early.
THEOREM UpstreamKeptAlways == Spec => UpstreamKept
<1> DEFINE Cause == Overflows("client") \/ (state # "FULL" /\ (EarlyData \/ NameCut))
           Kept == UpstreamExact /\ ~ UpstreamExact' => Cause
<1>1. ASSUME IInv, Replied, Before, [Next]_vars, UpstreamExact, ~ UpstreamExact'
      PROVE  Cause
  <2>1. Balanced'
    <3>1. IInv'
      BY <1>1, NextStep
    <3> QED BY <3>1, ExactIs, PTL
  <2>2. state' = "FULL" /\ Up' # MethLen + WireLen(req'.atyp)
    BY <1>1, <2>1 DEF Balanced
  <2>3. state = "FULL" => Up = MethLen + WireLen(req.atyp)
    BY <1>1, ExactIs DEF Balanced
  <2>4. CASE state = "FULL" /\ req' = req /\ (Up' = Up \/ Overflows("client"))
    BY <2>2, <2>3, <2>4
  <2>5. CASE /\ state # "FULL" /\ req' = req /\ Up' = Taken("client")
             /\ Taken("client") >= MethLen + 2 /\ req.atyp \in Family \cup {"DOMN"}
    <3>1. Taken("client") \in Int /\ MethLen = 2
      BY <1>1, Amounts DEF Taken, MethLen
    <3>2. Taken("client") # MethLen + WireLen(req.atyp)
      BY <2>2, <2>5
    <3>3. CASE req.atyp = "DOMN"
      <4>1. Taken("client") > MethLen + WireLen(req.atyp)
            \/ Taken("client") < MethLen + WireLen(req.atyp)
        BY <3>1, <3>2, <3>3 DEF WireLen
      <4> QED BY <2>5, <3>3, <4>1 DEF EarlyData, NameCut
    <3>4. CASE req.atyp # "DOMN"
      <4>1. Taken("client") > MethLen + WireLen(req.atyp)
        BY <2>5, <3>1, <3>2, <3>4 DEF WireLen
      <4> QED BY <2>5, <4>1 DEF EarlyData
    <3> QED BY <3>3, <3>4
  <2> QED BY <1>1, <2>2, <2>4, <2>5, BalanceStep
<1>2. IInv /\ Replied /\ Before /\ [Next]_vars => [Kept]_vars
  BY <1>1
<1> QED BY <1>2, BeforeAlways, PTL DEF Spec, UpstreamKept
-----------------------------------------------------------------------------
(* A success reply to connect.                                             *)

\* No request by name is accepted.
Literal == AllowDomains => \A r \in Requests : r.atyp # "DOMN"

\* No connection is tried a second time: every list of addresses has one.
SingleAddress == Literal \/ \A a \in Answers : Len(a) = 1

\* The socket of a connection attempt, until its outcome is reported.
Attempt ==
  /\ Len(ai) <= 1
  /\ Literal => state # "ASYNC_DNS"
  /\ state = "CONNECTING" =>
       /\ ssock \in {"connecting", "connected", "failed"}
       /\ "OUT" \in batch["server"] => ssock # "connecting"
  /\ GrantedIsConnected

\* The last reply says success.
Accepted == replies # << >> /\ replies[Len(replies)] = "SUCCESS"

LEMMA LastOf ==
  ASSUME NEW p \in Seq(Rep), NEW q \in Seq(Rep), Len(q) >= 1
  PROVE  Len(p \o q) = Len(p) + Len(q) /\ (p \o q)[Len(p \o q)] = q[Len(q)]
<1> DEFINE all == p \o q
<1>1. all \in Seq(Rep) /\ Len(all) = Len(p) + Len(q) /\ all[Len(all)] = q[Len(q)]
  OBVIOUS
<1> QED BY <1>1

LEMMA Unaccepted ==
  /\ \A codes \in ErrorCodes : reply_with_err(codes) /\ replies \in Seq(Rep) => ~ Accepted'
  /\ \A r \in Seq(Rep), c \in {<<"SUCCESS", "GENFAIL">>} :
       replies' = r \o c => ~ Accepted'
<1>1. ASSUME NEW codes \in ErrorCodes, reply_with_err(codes), replies \in Seq(Rep)
      PROVE  ~ Accepted'
  <2>1. codes \in Seq(Rep) /\ Len(codes) \in 1 .. 3 /\ codes[Len(codes)] \in Errors
    BY DEF ErrorCodes
  <2> DEFINE all == replies \o codes
  <2>2. Len(all) = Len(replies) + Len(codes) /\ all[Len(all)] = codes[Len(codes)]
    <3>1. Len(codes) >= 1
      BY <2>1
    <3> QED BY <1>1, <2>1, <3>1, LastOf, Zenon
  <2>3. replies' = all
    BY <1>1 DEF reply_with_err
  <2> HIDE DEF all
  <2>4. replies'[Len(replies')] # "SUCCESS"
    BY <2>1, <2>2, <2>3 DEF Errors
  <2> QED BY <2>4 DEF Accepted
<1>2. ASSUME NEW r \in Seq(Rep), replies' = r \o <<"SUCCESS", "GENFAIL">>
      PROVE  ~ Accepted'
  <2> DEFINE c == <<"SUCCESS", "GENFAIL">>
             all == r \o c
  <2>1. c \in Seq(Rep) /\ Len(c) = 2 /\ c[2] = "GENFAIL"
    BY DEF Rep
  <2> HIDE DEF c
  <2>2. Len(all) = Len(r) + 2 /\ all[Len(all)] = c[2]
    <3>1. Len(c) >= 1
      BY <2>1
    <3> QED BY <1>2, <2>1, <3>1, LastOf, Zenon
  <2>3. replies' = all
    BY <1>2 DEF c
  <2> HIDE DEF all
  <2> QED BY <2>1, <2>2, <2>3 DEF Accepted
<1> QED BY <1>1, <1>2

\* init_command answers a connect with an error, or starts the attempt on a
\* socket of which no event can be pending.
LEMMA AttemptStarts ==
  ASSUME IInv, Attempt, Replied, state \in {"WAITING_COMMAND", "ASYNC_DNS"}, ai' = ai,
         batch'["server"] = batch["server"],
         NEW fam, NEW pre \in {<< >>, <<"GENFAIL">>}, NEW used, init_command(cmd', fam, pre, used)
  PROVE  Attempt'
<1>1. replies = << >> /\ replies \in Seq(Rep) /\ batch["server"] = {}
  BY Ranges DEF Replied, NoServerYet, IInv, Shape, ServerEnd, Registered, Side
<1>2. Len(ai') <= 1
  BY DEF Attempt
<1>3. CASE state' = "SENDING_REPLY" /\ (cmd' = "CONN" => ~ Accepted')
  BY <1>2, <1>3 DEF Attempt, GrantedIsConnected, Accepted
<1>4. CASE state' = "CONNECTING" /\ ssock' = "connecting" /\ replies' = replies
  BY <1>1, <1>2, <1>4 DEF Attempt, GrantedIsConnected
<1>5. /\ <<"GENFAIL">> \in ErrorCodes /\ <<"BADATYP">> \in ErrorCodes
      /\ pre \o <<"GENFAIL">> \in ErrorCodes
      /\ pre \o <<"BADCOMM", "BADCOMM">> \in ErrorCodes
  <2>1. "GENFAIL" \in Errors /\ "BADATYP" \in Errors /\ "BADCOMM" \in Errors
    BY DEF Errors, Rep
  <2> QED BY <2>1, CodesAreErrors
<1>6. ASSUME NEW codes \in ErrorCodes, reply_with_err(codes)
      PROVE  Attempt'
  BY <1>1, <1>3, <1>6, Unaccepted DEF reply_with_err
<1>7. CASE cmd' = "CONN" /\ init_connect(used)
  BY <1>4, <1>5, <1>6, <1>7 DEF init_connect, CommandFails
<1>8. ASSUME cmd' # "CONN", state' = "SENDING_REPLY"
      PROVE  Attempt'
  BY <1>3, <1>8
<1>9. CASE cmd' = "BIND" /\ init_bind(fam, used)
  BY <1>8, <1>9 DEF init_bind, NoListener, CommandFails, ReplyAndListen, reply_with_err
<1>10. CASE cmd' = "UDPA" /\ init_udpa(fam, used)
  BY <1>8, <1>10 DEF init_udpa, NoListener, CommandFails, ReplyAndListen, reply_with_err
<1>11. CASE \/ reply_with_err(pre \o <<"BADCOMM", "BADCOMM">>)
            \/ reply_with_err(pre \o <<"GENFAIL">>)
  BY <1>5, <1>6, <1>11
<1> QED BY <1>7, <1>9, <1>10, <1>11 DEF init_command

\* What Attempt speaks about.
tried == <<state, cmd, ai, batch["server"], ssock, replies>>

LEMMA AttemptKept ==
  ASSUME Attempt, UNCHANGED tried
  PROVE  Attempt'
BY DEF tried, Attempt, GrantedIsConnected

\* The outcome is reported: on EPOLLOUT the attempt has ended, and with one
\* address it is not repeated.
LEMMA AttemptEnds ==
  ASSUME IInv, Attempt, Replied, connecting
  PROVE  Attempt'
<1>1. /\ state = "CONNECTING" /\ "OUT" \in batch["server"] /\ cmd' = cmd /\ ai' = ai
      /\ replies = << >> /\ replies \in Seq(Rep)
  BY Ranges DEF connecting, Replied
<1>2. ssock \in {"connected", "failed"} /\ Len(ai) <= 1
  BY <1>1 DEF Attempt
<1>3. ASSUME NEW c \in Errors, reply_with_err(<<c>>)
      PROVE  Attempt'
  <2>1. <<c>> \in ErrorCodes
    BY CodesAreErrors
  <2>2. ~ Accepted' /\ state' = "SENDING_REPLY"
    BY <1>1, <1>3, <2>1, Unaccepted DEF reply_with_err
  <2> QED BY <1>1, <1>2, <2>2 DEF Attempt, GrantedIsConnected, Accepted
<1>4. CASE ~ ConnectFailed /\ state' = "SENDING_REPLY" /\ ssock' = ssock
  BY <1>1, <1>2, <1>4 DEF ConnectFailed, Attempt, GrantedIsConnected
<1>5. Len(ai) \in Nat
  BY DEF IInv, TypeOK, InfoOK
<1>6. ~ (Len(ai) > 1)
  BY <1>2, <1>5
<1>7. "GENFAIL" \in Errors /\ ErrorRep(soerr) \in Errors
  BY DEF ErrorRep, Errors, Rep
<1> QED BY <1>3, <1>4, <1>6, <1>7 DEF connecting

LEMMA AttemptStep ==
  ASSUME SingleAddress, IInv, Replied, Attempt, [Next]_vars
  PROVE  Attempt'
<1>1. CASE UNCHANGED vars
  BY <1>1, AttemptKept DEF vars, infoVars, sockVars, histVars, tried
<1>2. CASE World
  <2>1. UNCHANGED <<state, cmd, batch, replies>>
    BY <1>2 DEF World, ClientSends, ServerSends, ConnectEnds, Knocks, resolver_th, Closes,
       Resets, Leaves, ProgramVars, histVars
  <2>2. CASE UNCHANGED <<ai, ssock>>
    BY <2>1, <2>2, AttemptKept DEF tried
  <2>3. CASE ConnectEnds
    BY <2>1, <2>3 DEF ConnectEnds, Attempt, GrantedIsConnected
  <2>4. CASE Knocks
    BY <2>1, <2>4 DEF Knocks, Attempt, GrantedIsConnected
  <2>5. CASE resolver_th
    <3>1. state = "ASYNC_DNS" /\ ssock' = ssock
      BY <2>5 DEF resolver_th, sockVars, IInv, Shape, Lookup
    <3>2. Len(ai') <= 1
      <4>1. CASE ai' = << >>
        BY <4>1
      <4>2. CASE ai' \in Answers
        <5>1. \A a \in Answers : Len(a) = 1
          BY <3>1 DEF SingleAddress, Attempt
        <5>2. Len(ai') = 1
          BY <4>2, <5>1, Zenon
        <5> QED BY <5>2
      <4> QED BY <2>5, <4>1, <4>2 DEF resolver_th
    <3> QED BY <2>1, <3>1, <3>2 DEF Attempt, GrantedIsConnected
  <2> QED BY <1>2, <2>2, <2>3, <2>4, <2>5 DEF World, ClientSends, ServerSends, Closes, Resets,
          Leaves, sockVars
<1>3. CASE epoll_wait
  <2>1. UNCHANGED <<state, cmd, ai, ssock, replies>>
    BY <1>3 DEF epoll_wait, infoVars, sockVars, histVars
  <2>2. "OUT" \in batch'["server"] => ssock # "connecting"
    BY <1>3 DEF epoll_wait, Masks, MayWrite, Side
  <2> QED BY <2>1, <2>2 DEF Attempt, GrantedIsConnected
<1>4. ASSUME NEW s \in Side, Serve(s), UNCHANGED <<cmd, ai, ssock, replies>>,
             state' # "CONNECTING" \/ state' = state, state' # "ASYNC_DNS" \/ state' = state
      PROVE  Attempt'
  <2>1. batch'["server"] \subseteq batch["server"]
    BY <1>4 DEF Serve, IInv, TypeOK, BatchOK, Side
  <2> QED BY <1>4, <2>1 DEF Attempt, GrantedIsConnected
<1>5. CASE accept_new_client
  BY <1>5 DEF accept_new_client, infoVars, sockVars, histVars, Attempt, GrantedIsConnected
<1>6. ASSUME NEW s \in Side, full(s) \/ half_close(s) \/ closed(s) \/ ignore(s)
      PROVE  Attempt'
  <2>1. Serve(s) /\ UNCHANGED <<cmd, ai, ssock, replies>>
    BY <1>6 DEF full, half_close, closed, ignore, ServePeer, infoVars, sockVars, histVars
  <2>2. state' = state \/ state' \in {"HALF_CLOSE", "CLOSED"}
    BY <1>6 DEF full, half_close, closed, ignore, send_traffic, read_traffic
  <2> QED BY <1>4, <2>1, <2>2
<1>7. CASE waitingmethods \/ sendingmethod \/ sendingreply
  <2>1. Serve("client") /\ UNCHANGED <<cmd, ai, ssock, replies>>
    BY <1>7 DEF waitingmethods, sendingmethod, sendingreply, infoVars, sockVars, histVars
  <2>2. state' = state \/ state' \in {"CLOSED", "SENDING_METHOD", "WAITING_COMMAND", "FULL",
                                      "FULL_UDPA", "BIND_LISTENING"}
    BY <1>7 DEF waitingmethods, sendingmethod, sendingreply, handshake_err, AfterReply, AfterSuccess
  <2> QED BY <1>4, <2>1, <2>2 DEF Side
<1>8. CASE waitingcommand
  <2>1. /\ state = "WAITING_COMMAND" /\ Serve("client") /\ ai' = ai
        /\ batch'["server"] = batch["server"] /\ replies = << >> /\ replies \in Seq(Rep)
    BY <1>8, Ranges DEF waitingcommand, Serve, IInv, TypeOK, BatchOK, Side, Replied, NoServerYet
  <2>2. ASSUME state' \in {"WAITING_COMMAND", "CLOSED"}, replies' = replies
        PROVE  Attempt'
    BY <2>1, <2>2 DEF Attempt, GrantedIsConnected
  <2>3. ASSUME NEW c \in Errors, reply_with_err(<<c>>)
        PROVE  Attempt'
    <3>1. <<c>> \in ErrorCodes
      BY CodesAreErrors
    <3>2. ~ Accepted' /\ state' = "SENDING_REPLY"
      BY <2>1, <2>3, <3>1, Unaccepted DEF reply_with_err
    <3> QED BY <2>1, <3>2 DEF Attempt, GrantedIsConnected, Accepted
  <2>4. "BADATYP" \in Errors /\ "RULESET" \in Errors
    BY DEF Errors, Rep
  <2>5. CASE /\ state' = "ASYNC_DNS" /\ replies' = replies
             /\ req.atyp = "DOMN" /\ AllowDomains
    <3>1. req \in Requests
      BY DEF IInv, TypeOK, WireOK
    <3> QED BY <2>1, <2>5, <3>1 DEF Attempt, GrantedIsConnected, Literal
  <2>6. ASSUME NEW used, cmd' = req.cmd, init_command(req.cmd, req.atyp, << >>, used)
        PROVE  Attempt'
    <3>1. init_command(cmd', req.atyp, << >>, used)
      BY <2>6
    <3> QED BY <2>1, <3>1, AttemptStarts
  <2> QED BY <1>8, <2>1, <2>2, <2>3, <2>4, <2>5, <2>6 DEF waitingcommand, TakeRequest, handshake_err
<1>9. CASE resolve_ret
  <2>1. /\ state = "ASYNC_DNS" /\ ai' = ai /\ cmd' = cmd
        /\ batch'["server"] = batch["server"]
    BY <1>9 DEF resolve_ret, Serve, IInv, TypeOK, BatchOK, Shape, Lookup, Side
  <2>2. \/ init_command(cmd', ai[1], << >>, server_out)
        \/ init_command(cmd', "none", <<"GENFAIL">>, server_out)
    BY <1>9, <2>1 DEF resolve_ret
  <2> QED BY <2>1, <2>2, AttemptStarts
<1>10. CASE bindlistening
  <2>1. cmd' = "BIND" /\ ai' = ai /\ state' \in {"SENDING_REPLY", "SENDING_REPLY_2"}
    BY <1>10 DEF bindlistening, Replied, reply_with_err
  <2> QED BY <2>1 DEF Attempt, GrantedIsConnected
<1> QED BY <1>1, <1>2, <1>3, <1>5, <1>6, <1>7, <1>8, <1>9, <1>10, AttemptEnds DEF Next, Handle

\* As long as no second address is tried, a client that is told that its
\* connect succeeded has a connection.
THEOREM GrantedIsConnectedAlways ==
  ASSUME SingleAddress
  PROVE  Spec => []GrantedIsConnected
<1>1. Init => Attempt
  BY DEF Init, Attempt, GrantedIsConnected
<1>2. IInv /\ Replied /\ Attempt /\ [Next]_vars => Attempt'
  BY AttemptStep
<1>3. Attempt => GrantedIsConnected
  BY DEF Attempt
<1> QED BY <1>1, <1>2, <1>3, RepliedAlways, PTL DEF Spec
============================================================================
