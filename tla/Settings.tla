------------------------------ MODULE Settings ------------------------------
(* What config.c makes of the settings ConfigFile reads: store_config puts   *)
(* each into Configs, conf_error_check judges the whole.  A setting is a     *)
(* record with its key and what the code tells apart of its value.           *)
EXTENDS Integers, Sequences, FiniteSets, SequencesExt

CONSTANTS Addresses,  \* the texts getaddrinfo has an address for, one
          Values,     \* texts that occur in place of an address
          Counts,     \* what atoi gives for the max-connections that occur
          Files       \* files, each a sequence of settings

Command == {"connect", "bind", "udp-associate"}
AllowKey == {"domains"} \cup Command
Role == {"bind-advertise", "bind-listen", "udp-advertise", "udp-listen"}
LogFile == {"access", "error"}
Method == {"no-auth", "gssapi", "username-password"}

(* A "listen" and a "block" have two parts; delim is FALSE for a value       *)
(* without the delimiter between them: delim_ind gives 0 for it, so that the *)
(* address is the empty text, written "empty".                               *)
Setting ==
    [key : {"log"}, of : LogFile]
    \cup [key : {"max-connections"}, val : Counts]
    \cup [key : {"allow"}, of : AllowKey, val : {"yes", "no", "other"}]
    \cup [key : {"method"}, val : Method \cup {"other"}]
    \cup [key : {"address"}, of : Role, val : Values]
    \cup [key : {"listen", "block"}, delim : BOOLEAN, val : Values]

ASSUME SettingsAssumption ==
    /\ Addresses \subseteq Values \ {"empty"} /\ Counts \subseteq Int
    /\ Files \subseteq Seq(Setting)

VARIABLES file,     \* the settings
          next,     \* the one to store next
          configs,
          status    \* "storing", "failed", "rejected", "accepted"
vars == <<file, next, configs, status>>

-----------------------------------------------------------------------------
(* delim_ind and what is in front of the delimiter.                          *)
BeforeDelim(s) == IF s.delim THEN s.val ELSE "empty"

(* One result when the hints name a kind of socket, else one for each of the *)
(* three kinds.                                                              *)
getaddrinfo(text, results) ==
    IF text \in Addresses THEN [i \in 1..results |-> text] ELSE <<>>

Linked(found, head) == Reverse(found) \o head
link_addr(s, head) == Linked(getaddrinfo(BeforeDelim(s), 1), head)
link_addrs_from_gai(s, addrs) ==
    [addrs EXCEPT ![s.of] = Linked(getaddrinfo(s.val, 3), @)]
link_blocks(s, head) == <<BeforeDelim(s)>> \o head

(* An address nobody can parse ends the start.                               *)
Fails(s) ==
    \/ s.key = "address" /\ s.val \notin Addresses
    \/ s.key \in {"listen", "block"} /\ BeforeDelim(s) \notin Addresses

yes_check_keeps(allow, s) == IF s.val = "yes" THEN allow \cup {s.of} ELSE allow
yes_check(allow, s) == IF s.val = "yes" THEN allow \cup {s.of} ELSE allow \ {s.of}

method_parse(s) == {s.val} \cap Method
-----------------------------------------------------------------------------
Init ==
    /\ file \in Files /\ next = 1 /\ status = "storing"
    /\ configs = [listen_head |-> <<>>, logs |-> {}, max_conns |-> 0, allow |-> {},
                  methods |-> {}, addrs |-> [r \in Role |-> <<>>], block_head |-> <<>>]

Stored(s) ==
    [configs EXCEPT
        !.logs        = IF s.key = "log" THEN @ \cup {s.of} ELSE @,
        !.max_conns   = IF s.key = "max-connections" THEN s.val ELSE @,
        !.allow       = IF s.key = "allow" THEN yes_check(@, s) ELSE @,
        !.methods     = IF s.key = "method" THEN @ \cup method_parse(s) ELSE @,
        !.addrs       = IF s.key = "address" THEN link_addrs_from_gai(s, @) ELSE @,
        !.listen_head = IF s.key = "listen" THEN link_addr(s, @) ELSE @,
        !.block_head  = IF s.key = "block" THEN link_blocks(s, @) ELSE @]

store_config ==
    /\ status = "storing" /\ next <= Len(file)
    /\ LET s == file[next] IN
       /\ status' = IF Fails(s) THEN "failed" ELSE "storing"
       /\ configs' = IF Fails(s) THEN configs ELSE Stored(s)
    /\ next' = next + 1
    /\ UNCHANGED file

Needs(command) ==
    CASE command = "bind" -> {"bind-advertise", "bind-listen"}
      [] command = "udp-associate" -> {"udp-advertise", "udp-listen"}
      [] OTHER -> {}

Errors(c) ==
    \/ c.listen_head = <<>> \/ c.logs # LogFile \/ c.max_conns < 1
    \/ c.allow \cap Command = {} \/ c.methods = {}
    \/ \E k \in c.allow \cap Command : \E r \in Needs(k) : c.addrs[r] = <<>>

conf_error_check ==
    /\ status = "storing" /\ next = Len(file) + 1
    /\ status' = IF Errors(configs) THEN "rejected" ELSE "accepted"
    /\ UNCHANGED <<file, next, configs>>

Next == store_config \/ conf_error_check
Spec == Init /\ [][Next]_vars
-----------------------------------------------------------------------------
(* The settings of a file, read without the code: the last line of a key     *)
(* that takes one value counts, and every line of a key that takes several.  *)
Lines(key) == {i \in DOMAIN file : file[i].key = key}
LastOf(S) == CHOOSE i \in S : \A j \in S : j <= i
Says(key, k) == {i \in Lines(key) : file[i].of = k}

(* A server that starts does what its file says.  A later "no" takes an      *)
(* earlier "yes" back, no address that is listed is left out and none is     *)
(* there that was not listed; every block line has become a rule, for one    *)
(* that is dropped opens the network it names.                               *)
AcceptedAsWritten ==
    status = "accepted" =>
        /\ configs.allow = {k \in AllowKey : /\ Says("allow", k) # {}
                                             /\ file[LastOf(Says("allow", k))].val = "yes"}
        /\ configs.max_conns = file[LastOf(Lines("max-connections"))].val
        /\ configs.methods = {file[i].val : i \in Lines("method")} \ {"other"}
        /\ Range(configs.listen_head) = {file[i].val : i \in Lines("listen")}
        /\ \A r \in Role : Range(configs.addrs[r]) = {file[i].val : i \in Says("address", r)}
        /\ Reverse(configs.block_head) = [n \in 1..Cardinality(Lines("block")) |->
             file[CHOOSE i \in Lines("block") : Cardinality(Lines("block") \cap 1..i) = n].val]

(* install-script.sh writes a default configuration when it finds none; the  *)
(* server it installs starts with it.                                        *)
DefaultsAccepted == status \notin {"failed", "rejected"}
=============================================================================
