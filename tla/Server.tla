------------------------------- MODULE Server -------------------------------
(* The program of socksprox.c: startup step by step, the event loop over one *)
(* epoll instance that all descriptors share, and the ways out.  Of a        *)
(* session only its client's descriptor is here; module Session has the      *)
(* rest.  The kernel keeps the ready descriptors in a queue: epoll_wait      *)
(* takes as many from its head as the array has room for and, being          *)
(* level-triggered, puts them at its end again.                              *)
EXTENDS Naturals, Sequences, FiniteSets

CONSTANTS Listener,      \* addresses of the "listen" lines
          Client,        \* descriptors the process may still open
          max_conns,     \* max-connections: the size of the event array
          AllowDomains,  \* allow-domains
          MaxBacklog,    \* bound on connections waiting for accept
          Faults         \* the calls that may fail
ASSUME ServerAssumption ==
    /\ max_conns \in Nat \ {0}   \* conf_error_check
    /\ Listener # {}             \* conf_error_check
    /\ AllowDomains \in BOOLEAN /\ MaxBacklog \in Nat
    /\ Listener \cap Client = {}
    /\ IsFiniteSet(Listener) /\ IsFiniteSet(Client)

VARIABLES phase,          \* where main is
          allow_domains,  \* configs.allow_domains
          resolver,       \* "none", "registered" with epoll, "running"
          sock,           \* of each listener: "none", "bound", "listening"
          backlog,        \* of each listener: connections to be accepted
          clients,        \* clients with a session
          ready,          \* descriptors with an event to report
          queue,          \* epoll's ready list
          batch           \* events not yet served
vars == <<phase, allow_domains, resolver, sock, backlog, clients, ready, queue, batch>>
world == <<backlog, clients>>
poll == <<ready, queue, batch>>

Resolver == "resolver"
Fd == Listener \cup Client \cup {Resolver}
-----------------------------------------------------------------------------
Init ==
    /\ phase = "configs" /\ allow_domains = FALSE /\ resolver = "none"
    /\ sock = [l \in Listener |-> "none"] /\ backlog = [l \in Listener |-> 0]
    /\ clients = {} /\ ready = {} /\ queue = <<>> /\ batch = <<>>

Members(s) == {s[i] : i \in DOMAIN s}

(* The entries of a list that are in S, in their order.                      *)
Kept(s, S) ==
    LET upto[i \in 0..Len(s)] ==
            IF i = 0 THEN <<>>
            ELSE IF s[i] \in S THEN Append(upto[i - 1], s[i]) ELSE upto[i - 1]
    IN  upto[Len(s)]

(* f gets something to report.                                               *)
Wakes(f) ==
    /\ ready' = ready \cup {f}
    /\ queue' = IF f \in Members(queue) THEN queue ELSE Append(queue, f)

(* parse_configs and init_logger: without them main returns at once.         *)
parse_configs ==
    /\ phase = "configs"
    /\ \/ phase' = "logger" /\ allow_domains' = AllowDomains
       \/ "configs" \in Faults /\ phase' = "exited" /\ UNCHANGED allow_domains
    /\ UNCHANGED <<resolver, sock, world, poll>>

init_logger ==
    /\ phase = "logger"
    /\ \/ phase' = "epoll"
       \/ "logger" \in Faults /\ phase' = "exited"
    /\ UNCHANGED <<allow_domains, resolver, sock, world, poll>>

(* From here on every way out logs and joins the logger first.               *)
epoll_create ==
    /\ phase = "epoll"
    /\ \/ phase' = "listeners"
       \/ "epoll" \in Faults /\ phase' = "joining"
    /\ UNCHANGED <<allow_domains, resolver, sock, world, poll>>

init_listener_lenient(l) ==
    /\ phase = "listeners" /\ sock[l] = "none"
    /\ \/ sock' = [sock EXCEPT ![l] = "listening"] /\ UNCHANGED phase
       \/ "bind" \in Faults /\ phase' = "resolver" /\ UNCHANGED sock
    /\ UNCHANGED <<allow_domains, resolver, world, poll>>

(* One round of the loop of init_listeners.  The result of listen is not     *)
(* looked at: the socket is registered all the same, and epoll reports a     *)
(* hang-up of it.                                                            *)
init_listener(l) ==
    /\ phase = "listeners" /\ sock[l] = "none"
    /\ \/ sock' = [sock EXCEPT ![l] = "listening"] /\ UNCHANGED <<phase, poll>>
       \/ /\ "listen" \in Faults /\ sock' = [sock EXCEPT ![l] = "bound"]
          /\ Wakes(l) /\ UNCHANGED <<phase, batch>>
       \/ "bind" \in Faults /\ phase' = "joining" /\ UNCHANGED <<sock, poll>>
    /\ UNCHANGED <<allow_domains, resolver, world>>

listeners_done ==
    /\ phase = "listeners" /\ \A l \in Listener : sock[l] # "none"
    /\ phase' = "resolver"
    /\ UNCHANGED <<allow_domains, resolver, sock, world, poll>>

(* init_resolver fails before or after its pipe is registered; main then     *)
(* goes on without names.                                                    *)
init_resolver ==
    /\ phase = "resolver" /\ phase' = "serving"
    /\ \/ ~ allow_domains /\ UNCHANGED <<resolver, allow_domains>>
       \/ allow_domains /\ resolver' = "running" /\ UNCHANGED allow_domains
       \/ /\ allow_domains /\ allow_domains' = FALSE
          /\ \/ "pipe" \in Faults /\ UNCHANGED resolver
             \/ "pthread" \in Faults /\ resolver' = "registered"
    /\ UNCHANGED <<sock, world, poll>>
-----------------------------------------------------------------------------
InLoop == phase = "serving"

epoll_wait_edge ==
    /\ InLoop /\ batch = <<>> /\ queue # <<>>
    /\ batch' = Kept(queue, ready)
    /\ queue' = <<>>
    /\ UNCHANGED <<phase, allow_domains, resolver, sock, world, ready>>

(* The first max_conns descriptors that are ready; the others stay in front. *)
epoll_wait ==
    LET due == Kept(queue, ready)
        n   == IF Len(due) <= max_conns THEN Len(due) ELSE max_conns
    IN
    /\ InLoop /\ batch = <<>> /\ due # <<>>
    /\ batch' = SubSeq(due, 1, n)
    /\ queue' = SubSeq(due, n + 1, Len(due)) \o SubSeq(due, 1, n)
    /\ UNCHANGED <<phase, allow_domains, resolver, sock, world, ready>>

(* epoll_wait returns -1, as it does when the process was stopped and goes   *)
(* on (EINTR).                                                               *)
epoll_wait_fails ==
    /\ InLoop /\ batch = <<>> /\ "wait" \in Faults
    /\ phase' = "joining"
    /\ UNCHANGED <<allow_domains, resolver, sock, world, poll>>

Serve(f) == InLoop /\ batch # <<>> /\ Head(batch) = f

Drained(fds) ==
    /\ ready' = ready \ fds
    /\ batch' = Tail(batch)
    /\ UNCHANGED queue

(* A new connection needs a descriptor; without one it stays in the backlog  *)
(* and the listener stays ready.  It is lost when the session cannot be made.*)
accept_new_client(l) ==
    /\ Serve(l) /\ sock[l] = "listening"
    /\ \/ /\ clients # Client
          /\ backlog' = [backlog EXCEPT ![l] = @ - 1]
          /\ \/ \E c \in Client \ clients : clients' = clients \cup {c}
             \/ "session" \in Faults /\ UNCHANGED clients
          /\ Drained(IF backlog[l] = 1 THEN {l} ELSE {})
       \/ /\ clients = Client
          /\ UNCHANGED world /\ Drained({})
    /\ UNCHANGED <<phase, allow_domains, resolver, sock>>

listener_logged(l) ==
    /\ Serve(l) /\ sock[l] = "bound"
    /\ Drained({})
    /\ UNCHANGED <<phase, allow_domains, resolver, sock, world>>

(* An event of a listener that is not EPOLLIN ends the server.               *)
listener_error(l) ==
    /\ Serve(l) /\ (sock[l] = "bound" \/ "listener" \in Faults)
    /\ phase' = "joining"
    /\ UNCHANGED <<allow_domains, resolver, sock, world, poll>>

serve_peer_only(c) ==
    /\ Serve(c)
    /\ batch' = <<>>
    /\ UNCHANGED <<phase, allow_domains, resolver, sock, world, ready, queue>>

(* socks5: the handler takes what is there, or a part of it, or ends the     *)
(* session, which closes the descriptor.                                     *)
serve_peer(c) ==
    /\ Serve(c)
    /\ \/ Drained({c}) /\ UNCHANGED clients
       \/ Drained({}) /\ UNCHANGED clients
       \/ /\ clients' = clients \ {c}
          /\ ready' = ready \ {c} /\ batch' = Tail(batch)
          /\ queue' = Kept(queue, Fd \ {c})
    /\ UNCHANGED <<phase, allow_domains, resolver, sock, backlog>>

(* resolve_ret takes one answer; there may be more.                          *)
serve_resolver ==
    /\ Serve(Resolver)
    /\ \/ Drained({Resolver}) \/ Drained({})
    /\ UNCHANGED <<phase, allow_domains, resolver, sock, world>>

(* pthread_join returns, and main does, on one of the ways out of the setup  *)
(* or of the loop; the return behind the loop is never reached.              *)
exits ==
    /\ phase = "joining" /\ phase' = "exited"
    /\ UNCHANGED <<allow_domains, resolver, sock, world, poll>>
-----------------------------------------------------------------------------
(* The world: connections come in, clients send, the resolver answers.       *)
Connects(l) ==
    /\ sock[l] = "listening" /\ backlog[l] < MaxBacklog /\ phase # "exited"
    /\ backlog' = [backlog EXCEPT ![l] = @ + 1]
    /\ Wakes(l)
    /\ UNCHANGED <<phase, allow_domains, resolver, sock, clients, batch>>

Sends(c) ==
    /\ c \in clients \ ready /\ phase # "exited"
    /\ Wakes(c)
    /\ UNCHANGED <<phase, allow_domains, resolver, sock, world, batch>>

Answers ==
    /\ resolver = "running" /\ Resolver \notin ready /\ phase # "exited"
    /\ clients # {}
    /\ Wakes(Resolver)
    /\ UNCHANGED <<phase, allow_domains, resolver, sock, world, batch>>

startup == parse_configs \/ init_logger \/ epoll_create \/
           (\E l \in Listener : init_listener(l)) \/ listeners_done \/ init_resolver
serve == (\E l \in Listener : accept_new_client(l) \/ listener_error(l)) \/
         (\E c \in Client : serve_peer(c)) \/ serve_resolver

Next == startup \/ epoll_wait \/ epoll_wait_fails \/ serve \/ exits \/
        (\E l \in Listener : Connects(l)) \/ (\E c \in Client : Sends(c)) \/ Answers

Spec == Init /\ [][Next]_vars

(* One thread runs the loop, and no handler waits.  Whether the logger can   *)
(* be joined is the business of module Logger.                               *)
FairSpec == Spec /\ WF_vars(epoll_wait) /\ WF_vars(serve)
-----------------------------------------------------------------------------
(* The loop starts only with every listener of the configuration registered, *)
(* and takes requests by name only with a thread that reads them: resolve    *)
(* writes to a descriptor that init_resolver, failing half way, may have     *)
(* left 0, or to a pipe nobody reads.                                        *)
StartedWhole ==
    InLoop => /\ \A l \in Listener : sock[l] # "none"
              /\ allow_domains => resolver = "running"

(* What has something to report is in epoll's list, batch after batch, also  *)
(* when a handler took only part of it or an accept found no descriptor.     *)
NoLostWakeup == ready \subseteq Members(queue)

(* README.md:44, "The maximum connection at one time on the server".         *)
MaxConnections == Cardinality(clients) <= max_conns

(* However many descriptors are ready at every turn, and however small the   *)
(* array, each of them is served: the assumption about epoll_wait on which   *)
(* the fairness of module Session rests.                                     *)
EachServed ==
    \A f \in Fd : InLoop /\ f \in ready ~> (batch # <<>> /\ Head(batch) = f) \/ ~ InLoop

(* A listener that is bound but does not listen is not left behind in        *)
(* silence: the hang-up epoll reports of it ends the server.                 *)
ListensOrEnds == \A l \in Listener : InLoop /\ sock[l] = "bound" ~> ~ InLoop
=============================================================================
