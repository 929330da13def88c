------------------------------ MODULE MCServer ------------------------------
(* Values of the constants of Server for TLC.                                *)
EXTENDS Server

AllFaults == {"configs", "logger", "epoll", "listen", "bind", "pipe", "pthread",
              "wait", "listener", "session"}
=============================================================================
