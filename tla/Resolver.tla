------------------------------ MODULE Resolver ------------------------------
(* The asynchronous lookup of resolver.c: the main thread writes requests to *)
(* one pipe, the resolver thread takes them apart read by read, looks the    *)
(* name up and writes an answer to a second pipe, which the main thread      *)
(* reads when epoll reports it.                                              *)
(*                                                                           *)
(* A request is a sequence of units that stand for bytes and know where they *)
(* came from: the pointer to the Shared, the byte resolve leaves unset, the  *)
(* length, the name, the port.  Shared records are reused: once a session is *)
(* over, another one may get its address.                                    *)
EXTENDS Naturals, Sequences, FiniteSets, Pipe

CONSTANTS Session,     \* addresses of Shared records
          Lens,        \* lengths of the names asked for
          Gaps,        \* values of the byte of msg that resolve does not set
          Byte,        \* values of a character where it is taken for a length
          PtrSize,     \* sizeof(Shared *)
          RequestCap,  \* units the request pipe holds
          AnswerCap,   \* answers the answer pipe holds
          MaxRequests, \* bound on the requests made
          None, Wild,  \* a null pointer, a pointer made of other bytes
          Unset        \* the value of a byte where it does not matter

ASSUME ResolverAssumption ==
    /\ PtrSize \in Nat \ {0}
    /\ {RequestCap, AnswerCap, MaxRequests} \subseteq Nat
    /\ Lens \cup Gaps \cup Byte \subseteq Nat
    /\ None # Wild /\ Session \cap {None, Wild} = {} /\ Unset \notin Nat

VARIABLES state,      \* of each session, as far as the lookup goes
          asked,      \* the name and port each session's request named
          ai,         \* info->ai: what was looked up for it, None for NULL
          inp, outp,  \* resolver.win_pipe to rin_pipe, wout_pipe to rout_pipe
          pc,         \* the read resolver_th is at
          shared, name_len, name, port,  \* its locals
          requests,   \* how many were made
          intact      \* every write found room, and every unset byte was the length
vars == <<state, asked, ai, inp, outp, pc, shared, name_len, name, port, requests, intact>>
thread == <<pc, shared, name_len, name, port>>
main == <<state, asked, requests, intact>>

GapAt == PtrSize + 1
LenAt == PtrSize + 2

Unit == [of : Session, at : Nat, val : Nat \cup {Unset}]
Plain(s, i) == [of |-> s, at |-> i, val |-> Unset]

(* What resolve writes: one byte of msg is skipped, and the last byte of the *)
(* port does not fit any more.                                               *)
Message(s, n, g) ==
    [i \in 1..PtrSize + n + 3 |->
        [Plain(s, i) EXCEPT !.val = IF i = GapAt THEN g ELSE IF i = LenAt THEN n ELSE Unset]]
Pointer(s) == [i \in 1..PtrSize |-> Plain(s, i)]

(* What the client put into its request.                                     *)
Target(s, n) == [name |-> [i \in 1..n |-> Plain(s, LenAt + i)],
                 port |-> [i \in 1..2 |-> Plain(s, LenAt + n + i)]]

(* A byte read as a length.                                                  *)
Values(u) == IF u.val = Unset THEN Byte ELSE {u.val}
-----------------------------------------------------------------------------
Init ==
    /\ state = [s \in Session |-> "WAITING_COMMAND"]
    /\ asked = [s \in Session |-> None]
    /\ ai = [s \in Session |-> None]
    /\ inp = <<>> /\ outp = <<>>
    /\ pc = "ptr" /\ shared = None /\ name_len = 0 /\ name = <<>> /\ port = <<>>
    /\ requests = 0 /\ intact = TRUE

Running == pc # "crashed"

resolve_unmarked(s) ==
    /\ Running /\ state[s] = "WAITING_COMMAND" /\ requests < MaxRequests
    /\ \E n \in Lens, g \in Gaps :
          /\ inp' = Written(inp, Message(s, n, g), RequestCap)
          /\ asked' = [asked EXCEPT ![s] = Target(s, n)]
          /\ intact' = (intact /\ g = n /\ Fits(inp, Message(s, n, g), RequestCap))
    /\ requests' = requests + 1
    /\ UNCHANGED <<state, ai, outp, thread>>

(* waitingcommand with a complete request by name.                           *)
resolve(s) ==
    /\ Running /\ state[s] = "WAITING_COMMAND" /\ requests < MaxRequests
    /\ \E n \in Lens, g \in Gaps :
          /\ inp' = Written(inp, Message(s, n, g), RequestCap)
          /\ asked' = [asked EXCEPT ![s] = Target(s, n)]
          /\ intact' = (intact /\ g = n /\ Fits(inp, Message(s, n, g), RequestCap))
    /\ state' = [state EXCEPT ![s] = "ASYNC_DNS"]
    /\ requests' = requests + 1
    /\ UNCHANGED <<ai, outp, thread>>

(* The session goes on from there and ends; its Shared is freed and becomes  *)
(* the Shared of a session that has come to its command.                     *)
Reused(s) ==
    /\ Running /\ state[s] = "ANSWERED"
    /\ state' = [state EXCEPT ![s] = "WAITING_COMMAND"]
    /\ ai' = [ai EXCEPT ![s] = None]
    /\ asked' = [asked EXCEPT ![s] = None]
    /\ UNCHANGED <<inp, outp, thread, requests, intact>>

(* epoll reports the answer pipe; waitingcommand follows in the same call.   *)
resolve_ret ==
    /\ Running /\ outp # <<>>
    /\ state' = [state EXCEPT ![Head(outp)] = "ANSWERED"]
    /\ outp' = Tail(outp)
    /\ UNCHANGED <<asked, ai, inp, thread, requests, intact>>
-----------------------------------------------------------------------------
Fresh == shared' = None /\ name_len' = 0 /\ name' = <<>> /\ port' = <<>>

(* A read that comes back short is given up together with what it took.      *)
Waiting == UNCHANGED <<pc, shared, name_len, name, port>>
GiveUp == pc' = "ptr" /\ Fresh

ReadPointer ==
    LET got == ReadOf(inp, PtrSize) IN
    /\ pc = "ptr" /\ inp # <<>>
    /\ inp' = RestOf(inp, PtrSize)
    /\ \/ Len(got) < PtrSize /\ GiveUp
       \/ /\ \E s \in Session : got = Pointer(s) /\ shared' = s
          /\ pc' = "len" /\ UNCHANGED <<name_len, name, port>>
       \/ /\ Len(got) = PtrSize /\ got \notin {Pointer(s) : s \in Session}
          /\ \/ pc' = "len" /\ shared' = Wild
             \/ pc' = "ended" /\ shared' = None   \* eight zero bytes
          /\ UNCHANGED <<name_len, name, port>>
    /\ UNCHANGED <<main, ai, outp>>

ReadLength ==
    /\ pc = "len"
    /\ inp' = RestOf(inp, 1)
    /\ \/ inp = <<>> /\ GiveUp
       \/ /\ inp # <<>> /\ name_len' \in Values(Head(inp))
          /\ pc' = "name" /\ UNCHANGED <<shared, name, port>>
    /\ UNCHANGED <<main, ai, outp>>

ReadName ==
    LET got == ReadOf(inp, name_len) IN
    /\ pc = "name"
    /\ inp' = RestOf(inp, name_len)
    /\ \/ Len(got) # name_len /\ GiveUp
       \/ /\ Len(got) = name_len /\ name' = got
          /\ pc' = "port" /\ UNCHANGED <<shared, name_len, port>>
    /\ UNCHANGED <<main, ai, outp>>

ReadPort ==
    LET got == ReadOf(inp, 2) IN
    /\ pc = "port"
    /\ inp' = RestOf(inp, 2)
    /\ \/ Len(got) # 2 /\ GiveUp
       \/ /\ Len(got) = 2 /\ port' = got
          /\ pc' = "lookup" /\ UNCHANGED <<shared, name_len, name>>
    /\ UNCHANGED <<main, ai, outp>>

Lookup_silent ==
    /\ pc = "lookup" /\ shared \in Session
    /\ \/ /\ ai' = [ai EXCEPT ![shared] = [name |-> name, port |-> port]]
          /\ outp' = Written(outp, <<shared>>, AnswerCap)
       \/ UNCHANGED <<ai, outp>>
    /\ pc' = "ptr" /\ Fresh
    /\ UNCHANGED <<main, inp>>

(* getaddrinfo, the store through the pointer, and the answer.               *)
Lookup ==
    /\ pc = "lookup"
    /\ \/ shared = Wild /\ pc' = "crashed"
          /\ UNCHANGED <<ai, outp, shared, name_len, name, port, intact>>
       \/ /\ shared \in Session
          /\ \E res \in {None, [name |-> name, port |-> port]} : ai' = [ai EXCEPT ![shared] = res]
          /\ outp' = Written(outp, <<shared>>, AnswerCap)
          /\ intact' = (intact /\ Fits(outp, <<shared>>, AnswerCap))
          /\ pc' = "ptr" /\ Fresh
    /\ UNCHANGED <<state, asked, requests, inp>>

resolver_th == ReadPointer \/ ReadLength \/ ReadName \/ ReadPort \/ Lookup

Next == (\E s \in Session : resolve(s) \/ Reused(s)) \/ resolve_ret \/ resolver_th

Spec == Init /\ [][Next]_vars

(* The thread runs, its reads do not wait, getaddrinfo returns; the loop     *)
(* serves the answer pipe.                                                   *)
FairSpec == Spec /\ WF_vars(resolver_th) /\ WF_vars(resolve_ret)
-----------------------------------------------------------------------------
Queued(s) == {i \in DOMAIN inp : inp[i] = Plain(s, 1)}
Taken(s) == {shared} \cap {s}
Answered(s) == {i \in DOMAIN outp : outp[i] = s}
Outstanding(s) == Cardinality(Queued(s)) + Cardinality(Taken(s)) + Cardinality(Answered(s))

(* The bare pointer that travels through both pipes and the thread exists at *)
(* most once, and only while its session waits for it: resolve_ret never     *)
(* resumes a session that has gone on, or the next owner of its memory,      *)
(* wherever requests are cut on the way.  A pointer made of the bytes of a   *)
(* name is Wild, never by chance the address of a record.                    *)
OneOutstanding ==
    \A s \in Session : Outstanding(s) <= IF state[s] = "ASYNC_DNS" THEN 1 ELSE 0

(* docs/state_machine.md on STATE_ASYNC_DNS, "socksprox is doing an          *)
(* asynchronous DNS query": a session in that state has its request or its   *)
(* answer somewhere on the way, as long as no write found a pipe full and    *)
(* the byte nobody sets was always the length.                               *)
QueryUnderWay ==
    intact => \A s \in Session : state[s] = "ASYNC_DNS" => Outstanding(s) > 0

(* include/resolver.h on the input of resolve, "The len,name,port from the   *)
(* SOCKS req": the name and port looked up are those of the request.         *)
LooksUpWhatWasAsked == \A s \in Session : ai[s] # None => ai[s] = asked[s]

(* A request that was cut short or misread does not leave the thread waiting *)
(* in the middle of it: it always comes back to poll with nothing unread,    *)
(* unless a misread pointer ended it.                                        *)
PipeDrains == []<>((pc = "ptr" /\ inp = <<>>) \/ pc \in {"ended", "crashed"})

(* On the same condition the wait of STATE_ASYNC_DNS ends: requests of other *)
(* sessions in front of it, and answers in front of its own, do not hold it  *)
(* up for ever.                                                              *)
RequestAnswered ==
    \A s \in Session : state[s] = "ASYNC_DNS" ~> state[s] = "ANSWERED" \/ ~ intact
=============================================================================
