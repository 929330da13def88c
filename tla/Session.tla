------------------------------ MODULE Session ------------------------------
(***************************************************************************)
(* One proxied session: the Shared struct, its two Data structs (client    *)
(* and server), their descriptors and epoll registrations, and every       *)
(* handler socks5() dispatches to (src/src/socks.c, net.c, epoll_data.c,   *)
(* the event loop of socksprox.c and resolve_ret of resolver.c).           *)
(*                                                                         *)
(* Bytes are counted in units.  The method request is two units: the first *)
(* ends before the last byte, so a request is complete with its second     *)
(* unit.  A command request is two units, and one more, the last byte of   *)
(* the port, when it names a domain; its first unit holds the five bytes   *)
(* its length is computed from.  A reply message is one unit.              *)
(*                                                                         *)
(* The kernel: reg is the interest list of epoll, batch the events of one  *)
(* epoll_wait call that are not yet served; the loop serves them in any    *)
(* order, each with the mask computed when epoll_wait returned.  An        *)
(* EPOLL_CTL_MOD of a registered descriptor succeeds (RearmsRegistered     *)
(* says that it is always registered).                                     *)
(***************************************************************************)
EXTENDS Naturals, Sequences, FiniteSets

CONSTANTS
  \* Configs
  Methods,        \* configs->methods, the methods set to 1
  Allowed,        \* the commands allow-connect, allow-bind, ... permit
  AllowDomains,   \* configs->allow_domains
  BindFamilies,   \* families with a bind-listen and a bind-advertise address
  UdpaFamilies,   \* the same for udp associate
  \* the world
  Offers,         \* method requests a client may send
  Requests,       \* command requests a client may send
  Answers,        \* address lists getaddrinfo may return
  Errnos,         \* errors a connection attempt may end with
  Faults,         \* calls that may fail
  Pipelined,      \* TRUE: the client does not wait for the proxy's messages
  \* sizes and bounds
  Cap,            \* OUTBUFFSIZE in units
  ReadMax,        \* the 1024-byte buffer of read_traffic in units
  MaxClient,      \* bound: units the client sends
  MaxServer       \* bound: units the server sends

Side == {"client", "server"}
Peer(s) == IF s = "client" THEN "server" ELSE "client"
Ev == {"IN", "OUT"}          \* what the code registers
Event == Ev \cup {"HUP"}     \* what epoll_wait reports
Family == {"IPV4", "IPV6"}
Command == {"CONN", "BIND", "UDPA", "OTHER"}
Method == {"NOAUTH", "GSSAPI", "USERPW"}
Fault == {"accept", "malloc", "socket", "connect", "bind", "getsockname",
          "epoll_add", "bind_accept"}
Rep == {"SUCCESS", "GENFAIL", "RULESET", "NUNRECH", "HUNRECH", "REFUSED",
        "TTLEXPR", "BADCOMM", "BADATYP"}
Socket == {"none", "connecting", "connected", "failed", "dead", "listening",
           "knocked", "udp"}
State == {"NO_STATE", "WAITING_METHODS", "SENDING_METHOD", "WAITING_COMMAND",
          "ASYNC_DNS", "SENDING_REPLY", "SENDING_REPLY_2", "CONNECTING",
          "BIND_LISTENING", "FULL", "FULL_UDPA", "HALF_CLOSE", "CLOSED"}

ASSUME ConfigAssumption ==
  /\ Methods \subseteq Method
  /\ Allowed \subseteq Command \ {"OTHER"}
  /\ AllowDomains \in BOOLEAN
  /\ BindFamilies \subseteq Family
  /\ UdpaFamilies \subseteq Family
ASSUME WorldAssumption ==
  /\ Offers \subseteq [ver : BOOLEAN, methods : Seq(Method \cup {"OTHER"})]
  /\ Requests \subseteq [ver : BOOLEAN, cmd : Command,
                         atyp : Family \cup {"DOMN", "BAD"}, blocked : BOOLEAN]
  /\ Answers \subseteq Seq(Family) \ {<< >>}
  /\ Errnos \subseteq Nat \ {0}
  /\ Faults \subseteq Fault
  /\ Pipelined \in BOOLEAN
\* A ring holds at least the handshake messages and the replies of a session,
\* and one read of read_traffic: 4096 bytes, 1024 and 300.
ASSUME SizeAssumption ==
  /\ Cap \in Nat /\ Cap >= 4
  /\ ReadMax \in 1 .. Cap
  /\ MaxClient \in Nat
  /\ MaxServer \in Nat

VARIABLES
  \* struct Shared and struct Info
  state, method, rep, cmd, resolver_ret,
  sa,          \* info->sa: its family, or "none"
  ai,          \* info->ai: the families of the list, << >> for NULL
  ai_index,
  client_out, server_out,   \* Ringbuff.used; server_out is the input buffer
                            \* of the handshake
  data,        \* client_data and server_data: is a Data allocated
  mem,         \* "shared": Shared allocated; "info": info and both buffers
  \* the kernel
  fd, reg, batch,
  orphan,      \* descriptors left open that no Data refers to
  ssock,       \* the proxied socket
  soerr,       \* the error its last connection attempt ended with, or 0
  unread,      \* units received by the kernel and not yet by the proxy
  gone,        \* the remote end has closed or reset
  dns,         \* the pipe to and from the resolver thread
  \* the remote ends and what they have seen
  offer, req, sent, dlv, replies

infoVars == <<method, rep, cmd, resolver_ret, sa, ai, ai_index>>
ringVars == <<client_out, server_out>>
ownVars == <<data, mem>>
kernVars == <<fd, reg, orphan>>
sockVars == <<ssock, soerr>>
wireVars == <<offer, req, gone, sent>>
histVars == <<dlv, replies>>
vars == <<state, infoVars, ringVars, ownVars, kernVars, batch, sockVars,
          unread, dns, wireVars, histVars>>
-----------------------------------------------------------------------------
(* Units on the wire and units the code asks for.                          *)

MethLen == 2
WireLen(atyp) == IF atyp = "DOMN" THEN 3 ELSE 2
\* Variants: total_len one too small, one too large.
CodeLenShort(atyp) == 1
CodeLenLong(atyp) == 3

\* total_len of waitingcommand: six fixed bytes and the address.  A domain has
\* seven: its length byte is one more.
CodeLen(atyp) == 2

AtMost(m, n) == IF m < n THEN m ELSE n
None == [s \in Side \cup {"resolver"} |-> {}]

Init ==
  /\ state = "NO_STATE" /\ method = "NOMETH" /\ rep = "UNSET" /\ cmd = "UNSET"
  /\ resolver_ret = "UNSET" /\ sa = "none" /\ ai = << >> /\ ai_index = 0
  /\ client_out = 0 /\ server_out = 0
  /\ data = [s \in Side |-> FALSE] /\ mem = {}
  /\ fd = [s \in Side |-> "none"] /\ reg = [s \in Side |-> {}] /\ batch = None
  /\ orphan = 0 /\ ssock = "none" /\ soerr = 0
  /\ unread = [s \in Side |-> 0] /\ gone = [s \in Side |-> FALSE]
  /\ dns = "idle"
  /\ offer \in Offers /\ req \in Requests
  /\ sent = [s \in Side |-> 0] /\ dlv = [s \in Side |-> 0] /\ replies = << >>
-----------------------------------------------------------------------------
(* Building blocks the handlers call.                                      *)

\* Variants: the first call frees Shared too; the last one does not.
free_dataTwice(s) == data' = [data EXCEPT ![s] = FALSE] /\ mem' = {}
free_dataLeak(s) ==
  data' = [data EXCEPT ![s] = FALSE] /\ mem' = IF data[Peer(s)] THEN {"shared"} ELSE mem

\* free_data: the first of the two calls frees info and both buffers, the call
\* for the last Data frees Shared.
free_data(s) ==
  /\ data' = [data EXCEPT ![s] = FALSE]
  /\ mem' = IF data[Peer(s)] THEN {"shared"} ELSE {}

\* close and EPOLL_CTL_DEL, then free_data: handshake_err after it has set the
\* state, and closed.
release(s) ==
  /\ fd' = [fd EXCEPT ![s] = "closed"]
  /\ reg' = [reg EXCEPT ![s] = {}]
  /\ free_data(s)
  /\ UNCHANGED orphan

\* Variant: the state is not set.
handshake_errOpen(s) == UNCHANGED state /\ release(s)

handshake_err(s) == state' = "CLOSED" /\ release(s)

\* reply_with_err, called once for each code of the sequence: every call
\* appends a reply to client_out and arms the client's EPOLLOUT.
reply_with_err(codes) ==
  /\ rep' = codes[Len(codes)]
  /\ client_out' = client_out + Len(codes)
  /\ replies' = replies \o codes
  /\ state' = "SENDING_REPLY"

\* Variant: EPOLLOUT alone.
ep_waiting_sendOnly(s) == reg' = [reg EXCEPT ![s] = {"OUT"}]

ep_waiting_send(s) == reg' = [reg EXCEPT ![s] = Ev]

\* The loop takes the event of s out of the batch.
Serve(s) == batch[s] # {} /\ batch' = [batch EXCEPT ![s] = {}]

\* It calls socks5 only for EPOLLIN and EPOLLOUT: a hang-up alone is passed over.
ServePeer(s) == batch[s] \cap Ev # {} /\ Serve(s)

\* recv into the free part of server_out during the handshake.
Received == AtMost(unread["client"], Cap - server_out)
RecvClient == unread' = [unread EXCEPT !["client"] = @ - Received]

\* send() of m units to side s returns k, or fails if the other end is gone.
Sends(s, m, k) == k \in AtMost(1, m) .. m /\ dlv' = [dlv EXCEPT ![s] = @ + k]
MayFail(s) == gone[s] \/ (s = "server" /\ ssock = "dead")

SelectMethod(methods) ==
  LET ok == {i \in DOMAIN methods : methods[i] \in Methods}
  IN  IF ok = {} THEN "NOMETH" ELSE methods[CHOOSE i \in ok : \A j \in ok : i <= j]
-----------------------------------------------------------------------------
(* Connection errors.  The code tests "error & ECODE", not equality.       *)

ECONNREFUSED == 111
EHOSTUNREACH == 113
ETIMEDOUT == 110
ENETUNREACH == 101
Bits == {1, 2, 4, 8, 16, 32, 64, 128}
Shares(m, n) == \E b \in Bits : (m \div b) % 2 = 1 /\ (n \div b) % 2 = 1

ErrorRep(error) ==
  IF Shares(error, ENETUNREACH) THEN "NUNRECH"
  ELSE IF Shares(error, EHOSTUNREACH) THEN "HUNRECH"
  ELSE IF Shares(error, ETIMEDOUT) THEN "TTLEXPR"
  ELSE IF Shares(error, ECONNREFUSED) THEN "REFUSED"
  ELSE "GENFAIL"
-----------------------------------------------------------------------------
(* accept_new_client: one Data and one Shared, or everything given back    *)
(* when a malloc or the EPOLL_CTL_ADD fails.                               *)

accept_new_client ==
  /\ state = "NO_STATE" /\ fd["client"] = "none"
  /\ \/ /\ fd' = [fd EXCEPT !["client"] = "open"]
        /\ data' = [data EXCEPT !["client"] = TRUE]
        /\ mem' = {"shared", "info"}
        /\ reg' = [reg EXCEPT !["client"] = {"IN"}]
        /\ state' = "WAITING_METHODS"
     \/ /\ "accept" \in Faults
        /\ fd' = [fd EXCEPT !["client"] = "closed"]
        /\ UNCHANGED <<data, mem, reg, state>>
  /\ UNCHANGED <<infoVars, ringVars, orphan, batch, sockVars, unread, dns,
                 wireVars, histVars>>
-----------------------------------------------------------------------------
(* The commands.  used is what the input buffer holds; each operator ends  *)
(* with the reply_with_err that waitingcommand adds when rep is an error.  *)

NoServer == UNCHANGED <<data, fd, orphan, ssock, ai_index>>

ServerData == data' = [data EXCEPT !["server"] = TRUE]

\* The call failed: GENFAIL, and the session has no usable server side.
CommandFails(used) ==
  reply_with_err(<<"GENFAIL">>) /\ ep_waiting_send("client") /\ server_out' = used

\* A descriptor that init_connect does not close when connect fails at once or
\* there is no memory for the Data.
init_connect(used) ==
  \/ /\ "socket" \in Faults
     /\ CommandFails(used) /\ NoServer
  \/ /\ Faults \cap {"connect", "malloc"} # {}
     /\ CommandFails(used)
     /\ orphan' = orphan + 1
     /\ UNCHANGED <<data, fd, ssock, ai_index>>
  \/ /\ "epoll_add" \in Faults
     /\ CommandFails(0) /\ ServerData
     /\ fd' = [fd EXCEPT !["server"] = "open"] /\ ssock' = "connecting"
     /\ ai_index' = 0
     /\ UNCHANGED orphan
  \/ /\ ServerData
     /\ fd' = [fd EXCEPT !["server"] = "open"] /\ ssock' = "connecting"
     /\ reg' = [reg EXCEPT !["server"] = {"OUT"}]
     /\ server_out' = 0 /\ state' = "CONNECTING" /\ ai_index' = 0
     /\ UNCHANGED <<orphan, rep, client_out, replies>>

\* The last part of init_bind and init_udpa, once the socket is ready: the
\* success reply, then EPOLL_CTL_ADD of the socket, which may fail after it.
ReplyAndListen(sock) ==
  /\ ServerData
  /\ fd' = [fd EXCEPT !["server"] = "open"] /\ ssock' = sock
  /\ server_out' = 0
  /\ \/ /\ reg' = [s \in Side |-> IF s = "client" THEN Ev ELSE {"IN"}]
        /\ rep' = "SUCCESS" /\ client_out' = client_out + 1
        /\ replies' = Append(replies, "SUCCESS") /\ state' = "SENDING_REPLY"
     \/ /\ "epoll_add" \in Faults
        /\ ep_waiting_send("client")
        /\ rep' = "GENFAIL" /\ client_out' = client_out + 2
        /\ replies' = replies \o <<"SUCCESS", "GENFAIL">> /\ state' = "SENDING_REPLY"
  /\ UNCHANGED <<orphan, ai_index>>

\* No socket, no bind or no memory: the descriptor, if any, is closed.
NoListener(fam, families, used) ==
  /\ \/ fam \notin families /\ reply_with_err(<<"BADATYP">>)
     \/ "socket" \in Faults /\ reply_with_err(<<"GENFAIL">>)
     \/ /\ fam \in families /\ Faults \cap {"bind", "malloc"} # {}
        /\ reply_with_err(<<"GENFAIL">>)
  /\ ep_waiting_send("client") /\ server_out' = used /\ NoServer

\* getsockname fails once server_data refers to the socket: it is closed, the
\* Data stays.
init_bind(fam, used) ==
  \/ NoListener(fam, BindFamilies, used)
  \/ /\ fam \in BindFamilies /\ "getsockname" \in Faults
     /\ CommandFails(used) /\ ServerData
     /\ fd' = [fd EXCEPT !["server"] = "closed"]
     /\ UNCHANGED <<orphan, ssock, ai_index>>
  \/ fam \in BindFamilies /\ ReplyAndListen("listening")

init_udpa(fam, used) ==
  \/ NoListener(fam, UdpaFamilies, used)
  \/ fam \in UdpaFamilies /\ ReplyAndListen("udp")

\* pre: replies the caller has queued already.  A command that is not allowed
\* is answered here and once more by waitingcommand; without an address the
\* init function of an allowed command sets GENFAIL.
init_command(command, fam, pre, used) ==
  \/ /\ command \notin Allowed
     /\ reply_with_err(pre \o <<"BADCOMM", "BADCOMM">>)
     /\ ep_waiting_send("client") /\ server_out' = used /\ NoServer
  \/ /\ command \in Allowed /\ fam = "none"
     /\ reply_with_err(pre \o <<"GENFAIL">>)
     /\ ep_waiting_send("client") /\ server_out' = used /\ NoServer
  \/ command = "CONN" /\ command \in Allowed /\ fam # "none" /\ init_connect(used)
  \/ command = "BIND" /\ command \in Allowed /\ fam # "none" /\ init_bind(fam, used)
  \/ command = "UDPA" /\ command \in Allowed /\ fam # "none" /\ init_udpa(fam, used)
-----------------------------------------------------------------------------
(* The handshake handlers.                                                 *)

waitingmethods ==
  LET used == server_out + Received
  IN  /\ state = "WAITING_METHODS" /\ "IN" \in batch["client"]
      /\ Serve("client") /\ RecvClient
      /\ \/ /\ Received = 0 \/ (used >= MethLen /\ ~offer.ver)
            /\ handshake_err("client")
            /\ UNCHANGED <<method, ringVars>>
         \/ /\ Received > 0 /\ used < MethLen
            /\ server_out' = used
            /\ UNCHANGED <<state, method, client_out, ownVars, kernVars>>
         \/ /\ Received > 0 /\ used >= MethLen /\ offer.ver
            /\ method' = SelectMethod(offer.methods)
            /\ server_out' = used - MethLen
            /\ client_out' = client_out + 1
            /\ state' = "SENDING_METHOD"
            /\ ep_waiting_send("client")
            /\ UNCHANGED <<ownVars, fd, orphan>>
      /\ UNCHANGED <<rep, cmd, resolver_ret, sa, ai, ai_index, sockVars, dns,
                     wireVars, histVars>>

\* Only the no-authentication method goes on; the others end the session here.
sendingmethod ==
  /\ state = "SENDING_METHOD" /\ "OUT" \in batch["client"]
  /\ Serve("client")
  /\ \/ /\ MayFail("client")
        /\ handshake_err("client")
        /\ UNCHANGED <<client_out, dlv>>
     \/ /\ Sends("client", client_out, client_out)
        /\ client_out' = 0
        /\ IF method = "NOAUTH"
           THEN /\ state' = "WAITING_COMMAND"
                /\ reg' = [reg EXCEPT !["client"] = {"IN"}]
                /\ UNCHANGED <<ownVars, fd, orphan>>
           ELSE handshake_err("client")
  /\ UNCHANGED <<infoVars, server_out, sockVars, unread, dns, wireVars, replies>>

\* Variant: IPv4 is not looked at.
firewallV6 == req.atyp = "IPV6" /\ req.blocked

\* The requested literal address is in a blocked network.
firewall == req.atyp \in Family /\ req.blocked

\* A complete request: version, then firewall and command, or the resolver.
TakeRequest(used) ==
  /\ cmd' = req.cmd
  /\ \/ /\ ~req.ver
        /\ handshake_err("client")
        /\ UNCHANGED <<rep, sa, ai_index, ringVars, ssock, dns, replies>>
     \/ /\ req.ver /\ req.atyp = "DOMN"
        /\ state' = "ASYNC_DNS" /\ dns' = "asked" /\ server_out' = used
        /\ UNCHANGED <<rep, sa, ai_index, client_out, ownVars, kernVars, ssock, replies>>
     \/ /\ req.ver /\ req.atyp \in Family /\ "malloc" \in Faults
        /\ server_out' = used
        /\ UNCHANGED <<state, rep, sa, ai_index, client_out, ownVars, kernVars,
                       ssock, dns, replies>>
     \/ /\ req.ver /\ firewall
        /\ sa' = req.atyp
        /\ reply_with_err(<<"RULESET">>)
        /\ ep_waiting_send("client") /\ server_out' = used
        /\ NoServer /\ UNCHANGED <<mem, dns>>
     \/ /\ req.ver /\ req.atyp \in Family /\ ~firewall
        /\ sa' = req.atyp
        /\ init_command(req.cmd, req.atyp, << >>, used)
        /\ UNCHANGED <<mem, dns>>

waitingcommand ==
  LET used == server_out + Received
      refused == req.atyp = "BAD" \/ (req.atyp = "DOMN" /\ ~AllowDomains)
  IN  /\ state = "WAITING_COMMAND" /\ "IN" \in batch["client"]
      /\ Serve("client") /\ RecvClient
      /\ \/ /\ Received = 0
            /\ handshake_err("client")
            /\ UNCHANGED <<rep, cmd, sa, ai_index, ringVars, ssock, dns, replies>>
         \/ /\ Received > 0 /\ refused
            /\ reply_with_err(<<"BADATYP">>)
            /\ ep_waiting_send("client") /\ server_out' = used
            /\ NoServer /\ UNCHANGED <<cmd, sa, mem, dns>>
         \/ /\ Received > 0 /\ ~refused /\ used < CodeLen(req.atyp)
            /\ server_out' = used
            /\ UNCHANGED <<state, rep, cmd, sa, ai_index, client_out, ownVars,
                           kernVars, ssock, dns, replies>>
         \/ /\ Received > 0 /\ ~refused /\ used >= CodeLen(req.atyp)
            /\ TakeRequest(used)
      /\ UNCHANGED <<method, resolver_ret, ai, soerr, wireVars, dlv>>

\* resolve_ret hands the session back to waitingcommand with a made-up event.
\* After a failed lookup waitingcommand replies and yet runs the command.
resolve_ret ==
  /\ Serve("resolver")
  /\ dns' = "idle"
  /\ IF dns = "ok"
     THEN resolver_ret' = "OK" /\ init_command(cmd, ai[1], << >>, server_out)
     ELSE resolver_ret' = "FAIL" /\ init_command(cmd, "none", <<"GENFAIL">>, server_out)
  /\ UNCHANGED <<method, cmd, sa, ai, mem, soerr, unread, wireVars, dlv>>

\* Variants: a missing break after CMD_CONN; a bind that relays after one reply.
AfterSuccessFallThrough ==
  IF cmd = "UDPA" THEN "FULL_UDPA"
  ELSE IF state = "SENDING_REPLY" THEN "BIND_LISTENING" ELSE "FULL"
AfterSuccessOneReply == IF cmd = "UDPA" THEN "FULL_UDPA" ELSE "FULL"

\* The state after a success reply that was sent whole.
AfterSuccess ==
  IF cmd = "CONN" THEN "FULL"
  ELSE IF cmd = "UDPA" THEN "FULL_UDPA"
  ELSE IF state = "SENDING_REPLY" THEN "BIND_LISTENING" ELSE "FULL"

\* Variant: rep is not looked at.
AfterReplyUnchecked ==
  /\ reg' = [reg EXCEPT !["client"] = {"IN"}]
  /\ rep' = IF cmd = "BIND" /\ state = "SENDING_REPLY" THEN "UNSET" ELSE rep
  /\ state' = AfterSuccess
  /\ UNCHANGED <<ownVars, fd, orphan>>

AfterReply ==
  IF rep # "SUCCESS" THEN handshake_err("client") /\ UNCHANGED rep
  ELSE /\ reg' = [reg EXCEPT !["client"] = {"IN"}]
       /\ rep' = IF cmd = "BIND" /\ state = "SENDING_REPLY" THEN "UNSET" ELSE rep
       /\ state' = AfterSuccess
       /\ UNCHANGED <<ownVars, fd, orphan>>

sendingreply ==
  /\ state \in {"SENDING_REPLY", "SENDING_REPLY_2"} /\ "OUT" \in batch["client"]
  /\ Serve("client")
  /\ \/ /\ MayFail("client")
        /\ handshake_err("client")
        /\ UNCHANGED <<rep, client_out, dlv>>
     \/ \E k \in 0 .. client_out :
          /\ Sends("client", client_out, k)
          /\ client_out' = client_out - k
          /\ IF k < client_out THEN UNCHANGED <<state, rep, ownVars, kernVars>>
                               ELSE AfterReply
  /\ UNCHANGED <<method, cmd, resolver_ret, sa, ai, ai_index, server_out,
                 sockVars, unread, dns, wireVars, replies>>
-----------------------------------------------------------------------------
(* Reaching the server.                                                    *)

\* Variant: the result of getsockopt is not looked at.
ConnectFailedNever == FALSE

\* SO_ERROR of the proxied socket is not zero.
ConnectFailed == ssock = "failed"

\* The outcome of a connection attempt.  When the list has another address
\* connect is called again on the same socket and its result is not looked at:
\* "dead" is a socket on which that call failed at once, so that no error is
\* pending and EPOLLOUT is reported.
connecting ==
  /\ state = "CONNECTING" /\ "OUT" \in batch["server"]
  /\ Serve("server")
  /\ \/ /\ "getsockname" \in Faults
        /\ reply_with_err(<<"GENFAIL">>) /\ ep_waiting_send("client")
        /\ UNCHANGED <<ai_index, ssock>>
     \/ /\ ~ConnectFailed
        /\ rep' = "SUCCESS" /\ replies' = Append(replies, "SUCCESS")
        /\ client_out' = client_out + 1 /\ state' = "SENDING_REPLY"
        /\ reg' = [s \in Side |-> IF s = "client" THEN Ev ELSE {"IN"}]
        /\ UNCHANGED <<ai_index, ssock>>
     \/ /\ ConnectFailed /\ Len(ai) > 1 /\ ai_index + 1 < Len(ai)
        /\ ai_index' = ai_index + 1
        /\ ssock' \in {"connecting", "dead"}
        /\ UNCHANGED <<state, rep, client_out, replies, reg>>
     \/ /\ ConnectFailed /\ ai_index + 1 >= Len(ai)
        /\ reply_with_err(<<ErrorRep(soerr)>>) /\ ep_waiting_send("client")
        /\ ai_index' = IF Len(ai) > 1 THEN ai_index + 1 ELSE ai_index
        /\ UNCHANGED ssock
  /\ UNCHANGED <<method, cmd, resolver_ret, sa, ai, server_out, ownVars, fd,
                 orphan, soerr, unread, dns, wireVars, dlv>>

\* A connection to the bind listener: only the host and port of the request may
\* connect.  A refused connection keeps its descriptor.
bindlistening ==
  /\ state = "BIND_LISTENING" /\ "IN" \in batch["server"]
  /\ Serve("server")
  /\ \/ /\ "bind_accept" \in Faults
        /\ reply_with_err(<<"GENFAIL">>) /\ ep_waiting_send("client")
        /\ UNCHANGED <<orphan, ssock>>
     \/ /\ reply_with_err(<<"RULESET">>) /\ ep_waiting_send("client")
        /\ orphan' = orphan + 1 /\ ssock' = "listening"
     \/ /\ "epoll_add" \in Faults
        /\ reply_with_err(<<"GENFAIL">>)
        /\ reg' = [s \in Side |-> IF s = "client" THEN Ev ELSE {}]
        /\ ssock' = "connected" /\ UNCHANGED orphan
     \/ /\ rep' = "SUCCESS" /\ replies' = Append(replies, "SUCCESS")
        /\ client_out' = client_out + 1 /\ state' = "SENDING_REPLY_2"
        /\ reg' = [s \in Side |-> IF s = "client" THEN Ev ELSE {"IN"}]
        /\ ssock' = "connected" /\ UNCHANGED orphan
  /\ UNCHANGED <<method, cmd, resolver_ret, sa, ai, ai_index, server_out, ownVars,
                 fd, soerr, unread, dns, wireVars, dlv>>
-----------------------------------------------------------------------------
(* Relaying and closing.                                                   *)

OutOf(s) == IF s = "client" THEN client_out ELSE server_out
SetOut(s, n) == IF s = "client" THEN client_out' = n /\ UNCHANGED server_out
                                ELSE server_out' = n /\ UNCHANGED client_out

send_traffic(s) ==
  \/ /\ MayFail(s)
     /\ state' = "HALF_CLOSE"
     /\ UNCHANGED <<ringVars, reg, dlv>>
  \/ \E k \in 0 .. OutOf(s) :
       /\ Sends(s, OutOf(s), k) /\ SetOut(s, OutOf(s) - k)
       /\ reg' = IF k = OutOf(s) THEN [reg EXCEPT ![s] = {"IN"}] ELSE reg
       /\ UNCHANGED state

\* Variants: off by one either way.
RoomStrict(s, n) == OutOf(s) + n < Cap
RoomOver(s, n) == OutOf(s) + n <= Cap + 1

\* write_ringbuff takes the whole read or none of it; its result is not looked at.
Room(s, n) == OutOf(s) + n <= Cap

read_traffic(s) ==
  LET n == AtMost(unread[s], ReadMax)
  IN  /\ unread' = [unread EXCEPT ![s] = @ - n]
      /\ state' = IF n = 0 THEN "HALF_CLOSE" ELSE state
      /\ IF Room(Peer(s), n)
         THEN SetOut(Peer(s), OutOf(Peer(s)) + n)
         ELSE UNCHANGED ringVars

\* EPOLLOUT comes first and the call returns after it.  After a read, and after
\* the end of the stream too, the peer is armed.
\* Variant: the reader is armed, not its peer.
fullArmsReader(s) ==
  /\ state = "FULL" /\ Serve(s)
  /\ \/ "OUT" \in batch[s] /\ send_traffic(s) /\ UNCHANGED unread
     \/ "OUT" \notin batch[s] /\ "IN" \in batch[s]
        /\ read_traffic(s) /\ ep_waiting_send(s) /\ UNCHANGED dlv
  /\ UNCHANGED <<infoVars, ownVars, fd, orphan, sockVars, dns, wireVars, replies>>

full(s) ==
  /\ state = "FULL" /\ Serve(s)
  /\ \/ "OUT" \in batch[s] /\ send_traffic(s) /\ UNCHANGED unread
     \/ "OUT" \notin batch[s] /\ "IN" \in batch[s]
        /\ read_traffic(s) /\ ep_waiting_send(Peer(s)) /\ UNCHANGED dlv
  /\ UNCHANGED <<infoVars, ownVars, fd, orphan, sockVars, dns, wireVars, replies>>

\* Variants: waits for a flush that nobody does; a hang-up during a lookup
\* closes the session at once.
half_closeFlush(s) ==
  /\ state = "HALF_CLOSE" /\ ServePeer(s)
  /\ state' = IF OutOf(s) = 0 THEN "CLOSED" ELSE state
  /\ UNCHANGED <<infoVars, ringVars, ownVars, kernVars, sockVars, unread, dns,
                 wireVars, histVars>>
half_closeEarly(s) ==
  /\ state \in {"HALF_CLOSE", "ASYNC_DNS"} /\ ServePeer(s)
  /\ state' = "CLOSED"
  /\ UNCHANGED <<infoVars, ringVars, ownVars, kernVars, sockVars, unread, dns,
                 wireVars, histVars>>

half_close(s) ==
  /\ state = "HALF_CLOSE" /\ ServePeer(s)
  /\ state' = "CLOSED"
  /\ UNCHANGED <<infoVars, ringVars, ownVars, kernVars, sockVars, unread, dns,
                 wireVars, histVars>>

closed(s) ==
  /\ state = "CLOSED" /\ ServePeer(s)
  /\ release(s)
  /\ UNCHANGED <<state, infoVars, ringVars, sockVars, unread, dns, wireVars, histVars>>

\* Events that change nothing are the others: a hang-up alone, the wrong
\* descriptor or the wrong direction, and every event of a session that waits
\* for the resolver or is a udp association (full_udpa does nothing).
Handled(s) ==
  CASE state \in {"WAITING_METHODS", "WAITING_COMMAND"} -> s = "client" /\ "IN" \in batch[s]
    [] state \in {"SENDING_METHOD", "SENDING_REPLY", "SENDING_REPLY_2"} ->
         s = "client" /\ "OUT" \in batch[s]
    [] state = "CONNECTING" -> s = "server" /\ "OUT" \in batch[s]
    [] state = "BIND_LISTENING" -> s = "server" /\ "IN" \in batch[s]
    [] state \in {"FULL", "HALF_CLOSE", "CLOSED"} -> batch[s] \cap Ev # {}
    [] OTHER -> FALSE

ignore(s) ==
  /\ Serve(s) /\ ~Handled(s)
  /\ UNCHANGED <<state, infoVars, ringVars, ownVars, kernVars, sockVars, unread,
                 dns, wireVars, histVars>>
-----------------------------------------------------------------------------
(* epoll_wait: a nonempty set of ready registered descriptors, each with   *)
(* the mask of what is ready now.  A socket is writable when its remote    *)
(* end has made room, which it may or may not have.  A socket without a    *)
(* connection also reports EPOLLHUP, which nobody asked for.               *)

InReady(s) ==
  IF s = "server" /\ ssock # "connected" THEN ssock \in {"knocked", "failed"}
  ELSE unread[s] > 0 \/ gone[s]
MayWrite(s) == s = "client" \/ ssock \in {"connected", "failed", "dead"}
MustWrite(s) == gone[s] \/ (s = "server" /\ ssock \in {"failed", "dead"})

HangUp(s) == s = "server" /\ ssock \in {"failed", "dead"} /\ reg[s] # {}

Masks(s) ==
  {m \in SUBSET (reg[s] \cup {"HUP"}) :
     /\ "HUP" \in m <=> HangUp(s)
     /\ "IN" \in m <=> "IN" \in reg[s] /\ InReady(s)
     /\ "OUT" \in m => MayWrite(s)
     /\ "OUT" \in reg[s] /\ MustWrite(s) => "OUT" \in m}

epoll_wait ==
  /\ batch = None
  /\ \E c \in Masks("client") \cup {{}}, p \in Masks("server") \cup {{}},
        r \in {{}} \cup (IF dns \in {"ok", "fail"} THEN {{"IN"}} ELSE {}) :
       batch' = [s \in Side \cup {"resolver"} |->
                   IF s = "client" THEN c ELSE IF s = "server" THEN p ELSE r]
  /\ batch' # None
  /\ UNCHANGED <<state, infoVars, ringVars, ownVars, kernVars, sockVars, unread,
                 dns, wireVars, histVars>>
-----------------------------------------------------------------------------
(* The world outside the process: the client, the server and the resolver. *)

ProgramVars == <<state, method, rep, cmd, resolver_ret, sa, ai_index, ringVars,
                 ownVars, kernVars, batch, histVars, offer, req>>

\* What a client that waits for every message of the proxy may send by now.
GrantsOf(command) == IF command = "BIND" THEN 2 ELSE 1
MaySend ==
  \/ Pipelined
  \/ sent["client"] < MethLen
  \/ dlv["client"] >= 1 /\ sent["client"] < MethLen + WireLen(req.atyp)
  \/ dlv["client"] >= 1 + GrantsOf(req.cmd)

ClientSends ==
  /\ fd["client"] = "open" /\ ~gone["client"] /\ sent["client"] < MaxClient /\ MaySend
  /\ sent' = [sent EXCEPT !["client"] = @ + 1]
  /\ unread' = [unread EXCEPT !["client"] = @ + 1]
  /\ UNCHANGED <<ProgramVars, ai, sockVars, gone, dns>>

ServerSends ==
  /\ fd["server"] = "open" /\ ssock = "connected" /\ ~gone["server"]
  /\ sent["server"] < MaxServer
  /\ sent' = [sent EXCEPT !["server"] = @ + 1]
  /\ unread' = [unread EXCEPT !["server"] = @ + 1]
  /\ UNCHANGED <<ProgramVars, ai, sockVars, gone, dns>>

\* An end closes; a reset also discards what the proxy has not read yet.
Leaves(s, lost) ==
  /\ fd[s] = "open" /\ ~gone[s] /\ (s = "server" => ssock = "connected")
  /\ gone' = [gone EXCEPT ![s] = TRUE]
  /\ unread' = [unread EXCEPT ![s] = @ - lost]
  /\ sent' = [sent EXCEPT ![s] = @ - lost]
  /\ UNCHANGED <<ProgramVars, ai, sockVars, dns>>
Closes(s) == Leaves(s, 0)
Resets(s) == unread[s] > 0 /\ Leaves(s, unread[s])

ConnectEnds ==
  /\ ssock = "connecting"
  /\ \/ ssock' = "connected" /\ UNCHANGED soerr
     \/ ssock' = "failed" /\ soerr' \in Errnos
  /\ UNCHANGED <<ProgramVars, ai, unread, gone, sent, dns>>

Knocks ==
  /\ ssock = "listening" /\ ssock' = "knocked"
  /\ UNCHANGED <<ProgramVars, ai, soerr, unread, gone, sent, dns>>

\* The resolver thread stores the list in info->ai, then writes its answer.
resolver_th ==
  /\ dns = "asked"
  /\ \/ dns' = "ok" /\ ai' \in Answers
     \/ dns' = "fail" /\ ai' = << >>
  /\ UNCHANGED <<ProgramVars, sockVars, unread, gone, sent>>
-----------------------------------------------------------------------------
Handle(s) ==
  \/ s = "client" /\ (waitingmethods \/ sendingmethod \/ waitingcommand \/ sendingreply)
  \/ s = "server" /\ (connecting \/ bindlistening)
  \/ full(s) \/ half_close(s) \/ closed(s) \/ ignore(s)

World ==
  \/ ClientSends \/ ServerSends \/ ConnectEnds \/ Knocks \/ resolver_th
  \/ \E s \in Side : Closes(s) \/ Resets(s)

Next ==
  \/ accept_new_client \/ epoll_wait \/ resolve_ret
  \/ \E s \in Side : Handle(s)
  \/ World

Spec == Init /\ [][Next]_vars
-----------------------------------------------------------------------------
\* Every field keeps its range: no Ringbuff overfills, no reply code but those
\* of socks.h, no descriptor in a state the code cannot name.
InfoOK ==
  /\ state \in State /\ method \in Method \cup {"NOMETH"}
  /\ rep \in Rep \cup {"UNSET"} /\ cmd \in Command \cup {"UNSET"}
  /\ resolver_ret \in {"UNSET", "OK", "FAIL"}
  /\ sa \in Family \cup {"none"} /\ ai \in Seq(Family) /\ ai_index \in Nat
OwnOK ==
  /\ client_out \in 0 .. Cap /\ server_out \in 0 .. Cap
  /\ data \in [Side -> BOOLEAN] /\ mem \in {{}, {"shared"}, {"shared", "info"}}
KernOK ==
  /\ fd \in [Side -> {"none", "open", "closed"}] /\ reg \in [Side -> SUBSET Ev]
  /\ orphan \in Nat /\ ssock \in Socket /\ soerr \in Nat
BatchOK ==
  /\ batch \in [Side \cup {"resolver"} -> SUBSET Event]
  /\ dns \in {"idle", "asked", "ok", "fail"}
WireOK ==
  /\ unread \in [Side -> Nat] /\ gone \in [Side -> BOOLEAN]
  /\ sent \in [Side -> Nat] /\ offer \in Offers /\ req \in Requests
HistOK == dlv \in [Side -> Nat] /\ replies \in Seq(Rep)

TypeOK == InfoOK /\ OwnOK /\ KernOK /\ BatchOK /\ WireOK /\ HistOK
============================================================================
