------------------------------- MODULE Logger -------------------------------
(* The logger of logger.c: the main thread writes each entry to a pipe with  *)
(* one write, the logger thread takes it out read by read and appends it to  *)
(* a file.  Before the program exits, one more byte tells the thread to      *)
(* end, and pthread_join waits for it.                                       *)
(*                                                                           *)
(* A unit is a field of a message: its type, its code, or one of the two     *)
(* socket addresses of an access entry.  The sizes of the fields do not      *)
(* matter as long as every write is taken whole, which module Pipe is about. *)
EXTENDS Naturals, Sequences, Pipe

CONSTANTS Code,      \* values of the code of an entry
          LogCap,    \* units the pipe holds
          MaxLogs,   \* bound on the calls made
          Opens      \* outcomes of open_files: a subset of BOOLEAN

ASSUME LoggerAssumption == {LogCap, MaxLogs} \subseteq Nat /\ Opens \subseteq BOOLEAN

VARIABLES main,      \* "running", "joining" in pthread_join, "joined" after it
          pipe,      \* logger.w_pipe to logger.r_pipe
          pc,        \* where logger_th is
          opened,    \* open_files returned 0
          entry,     \* the part of a message it has read so far
          files,     \* what both files hold, in the order of writing
          logged,    \* every entry handed to log_error or log_access
          accepted   \* those the pipe took
vars == <<main, pipe, pc, opened, entry, files, logged, accepted>>

Kind == {"LOG_ERROR", "LOG_ACCESS"}
Unit == Kind \cup {"LOG_SIG_JOIN", "client", "server"} \cup Code

Messages == {<<"LOG_ERROR", c>> : c \in Code} \cup
            {<<"LOG_ACCESS", c, "client", "server">> : c \in Code}
Join == <<"LOG_SIG_JOIN">>
-----------------------------------------------------------------------------
(* A write of which nobody has the other end open fails as well: SIGPIPE is  *)
(* ignored.                                                                  *)
Readable == pc # "ended" \/ opened

Init ==
    /\ main = "running" /\ pipe = <<>>
    /\ pc = "start" /\ opened = FALSE /\ entry = <<>>
    /\ files = <<>> /\ logged = <<>> /\ accepted = <<>>

log_split(e) ==
    /\ main = "running" /\ Len(logged) < MaxLogs
    /\ logged' = Append(logged, e)
    /\ pipe' = Written(Written(pipe, <<Head(e)>>, LogCap), Tail(e), LogCap)
    /\ accepted' = IF Fits(pipe, e, LogCap) THEN Append(accepted, e) ELSE accepted
    /\ UNCHANGED <<main, pc, opened, entry, files>>

(* log_error and log_access.                                                 *)
log(e) ==
    /\ main = "running" /\ Len(logged) < MaxLogs
    /\ logged' = Append(logged, e)
    /\ \/ /\ Readable /\ Fits(pipe, e, LogCap)
          /\ pipe' = Written(pipe, e, LogCap)
          /\ accepted' = Append(accepted, e)
       \/ /\ ~ (Readable /\ Fits(pipe, e, LogCap))
          /\ UNCHANGED <<pipe, accepted>>
    /\ UNCHANGED <<main, pc, opened, entry, files>>

log_sig_join ==
    /\ main = "running"
    /\ pipe' = IF Readable THEN Written(pipe, Join, LogCap) ELSE pipe
    /\ main' = "joining"
    /\ UNCHANGED <<pc, opened, entry, files, logged, accepted>>

pthread_detach ==
    /\ main = "joining" /\ main' = "joined"
    /\ UNCHANGED <<pipe, pc, opened, entry, files, logged, accepted>>

(* pthread_join returns.                                                     *)
pthread_join ==
    /\ main = "joining" /\ pc = "ended"
    /\ main' = "joined"
    /\ UNCHANGED <<pipe, pc, opened, entry, files, logged, accepted>>
-----------------------------------------------------------------------------
caller == <<main, logged, accepted>>

(* Without its files the thread closes the read end and ends.                *)
OpenFiles ==
    /\ pc = "start"
    /\ opened' \in Opens
    /\ IF opened' THEN pc' = "poll" /\ UNCHANGED pipe ELSE pc' = "ended" /\ pipe' = <<>>
    /\ UNCHANGED <<caller, entry, files>>

Poll ==
    /\ pc = "poll" /\ pipe # <<>>
    /\ pc' = "type"
    /\ UNCHANGED <<caller, pipe, opened, entry, files>>

(* A read of one field: nothing when the pipe is empty.                      *)
Field == ReadOf(pipe, 1)
Reads == pipe' = RestOf(pipe, 1)

TypeOf(field) == IF field # <<>> /\ Head(field) \in Kind THEN field ELSE <<>>

ReadType_no_exit ==
    /\ pc = "type" /\ Reads
    /\ pc' = IF Field = <<>> THEN "poll" ELSE IF Head(Field) \in Kind THEN "code" ELSE "type"
    /\ entry' = TypeOf(Field)
    /\ UNCHANGED <<caller, opened, files>>

ReadType_ends_dry ==
    /\ pc = "type" /\ Reads
    /\ pc' = IF Field = <<>> \/ Field = Join THEN "ended" ELSE "code"
    /\ entry' = TypeOf(Field)
    /\ UNCHANGED <<caller, opened, files>>

(* The inner loop ends at an empty pipe, the thread at the byte of the join; *)
(* a byte that is no type is passed over.                                    *)
ReadType ==
    /\ pc = "type" /\ Reads
    /\ pc' = IF Field = <<>> THEN "poll"
             ELSE IF Head(Field) \in Kind THEN "code"
             ELSE IF Field = Join THEN "ended" ELSE "type"
    /\ entry' = TypeOf(Field)
    /\ UNCHANGED <<caller, opened, files>>

Writes(e) == files' = Append(files, e) /\ pc' = "type" /\ entry' = <<>>

(* The code of an error.  The -1 of a read that finds nothing is compared    *)
(* with a sizeof, is not less than it, and the entry is written all the same *)
(* with what code was before.                                                *)
ReadCode ==
    /\ pc = "code" /\ entry = <<"LOG_ERROR">> /\ Reads
    /\ Writes(entry \o Field)
    /\ UNCHANGED <<caller, opened>>

(* The fields of an access entry, written with whatever the three reads left *)
(* as well.                                                                  *)
ReadAccess ==
    /\ pc \in {"code", "client", "server"} /\ Head(entry) = "LOG_ACCESS" /\ Reads
    /\ IF pc = "server" THEN Writes(entry \o Field)
       ELSE /\ entry' = entry \o Field
            /\ pc' = IF pc = "code" THEN "client" ELSE "server"
            /\ UNCHANGED files
    /\ UNCHANGED <<caller, opened>>

logger_th == OpenFiles \/ Poll \/ ReadType \/ ReadCode \/ ReadAccess

Next == (\E e \in Messages : log(e)) \/ log_sig_join \/ pthread_join \/ logger_th

Spec == Init /\ [][Next]_vars

(* The thread runs, and what it writes to returns.                           *)
FairSpec == Spec /\ WF_vars(logger_th) /\ WF_vars(pthread_join)
-----------------------------------------------------------------------------
(* Between two messages the thread is at a type, inside of one at the field  *)
(* it is about to read: nothing but the unit of writing keeps the two sides  *)
(* in step, and the thread trusts that the fields it reads are there.        *)
Framed ==
    /\ pc \in {"poll", "type"} /\ pipe # <<>> => Head(pipe) \in Kind \cup {"LOG_SIG_JOIN"}
    /\ pc = "code" => pipe # <<>> /\ Head(pipe) \in Code
    /\ pc \in {"client", "server"} => pipe # <<>> /\ Head(pipe) = pc

(* Framed, and the ranges: whatever logger_th writes to the files is a whole *)
(* message, never fields of two of them.                                     *)
TypeOK ==
    /\ Framed
    /\ main \in {"running", "joining", "joined"}
    /\ pipe \in Seq(Unit) /\ Len(pipe) <= LogCap
    /\ pc \in {"start", "poll", "type", "code", "client", "server", "ended"}
    /\ opened \in BOOLEAN /\ (opened => pc # "start") /\ (main = "joined" => pc = "ended")
    /\ files \in Seq(Messages) /\ logged \in Seq(Messages) /\ accepted \in Seq(Messages)
    /\ entry \in Seq(Unit) /\ Len(entry) <= 3

(* The files hold what was accepted, in its order, with nothing missing in   *)
(* between and nothing twice, whatever was dropped around it.                *)
InOrder == Len(files) <= Len(accepted) /\ files = SubSeq(accepted, 1, Len(files))

(* What main logged before it joined the thread is in the files once         *)
(* pthread_join has returned: the thread comes to the last byte last.        *)
JoinedMeansWritten == main = "joined" /\ opened => files = accepted

(* socksprox.c:113, "Ensures pending logs are written", of everything that   *)
(* was logged.                                                               *)
EnsuresPendingLogs == main = "joined" => files = logged

(* An accepted entry is written in the end, although main may do nothing     *)
(* further that could wake the thread.                                       *)
AcceptedIsWritten ==
    \A n \in 1..MaxLogs :
        Len(accepted) >= n ~> Len(files) >= n \/ (pc = "ended" /\ ~ opened)

(* The program ends if the byte that says so was taken: the thread is never  *)
(* left in a poll or a read with that byte unread.                           *)
JoinTakesEffect == main = "joining" /\ pipe # <<>> /\ pipe[Len(pipe)] = "LOG_SIG_JOIN" ~> main = "joined"
=============================================================================
