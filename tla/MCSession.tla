---------------------------- MODULE MCSession ------------------------------
(* Values of the constants of Session for TLC.                              *)
EXTENDS SessionProps

Request(command, type) == [ver |-> TRUE, cmd |-> command, atyp |-> type, blocked |-> FALSE]
Greeting == [ver |-> TRUE, methods |-> <<"OTHER", "NOAUTH">>]

\* Every way a greeting can go.
AllOffers == {Greeting, [ver |-> FALSE, methods |-> <<"NOAUTH">>],
              [ver |-> TRUE, methods |-> <<"USERPW", "NOAUTH">>]}
OneOffer == {Greeting}

ConnectLiteral == {Request("CONN", "IPV4")}
ConnectDomain == {Request("CONN", "DOMN")}
BindLiteral == {Request("BIND", "IPV4")}
UdpaLiteral == {Request("UDPA", "IPV4")}

\* Connect to a literal address: granted, blocked, wrong version, bad type.
ConnectRequests ==
  ConnectLiteral \cup
  {[ver |-> TRUE, cmd |-> "CONN", atyp |-> "IPV4", blocked |-> TRUE],
   [ver |-> FALSE, cmd |-> "CONN", atyp |-> "IPV6", blocked |-> FALSE],
   Request("CONN", "BAD")}

\* Every command by address and by name, granted and not.
AllRequests == ConnectRequests \cup
  {Request(c, t) : c \in {"CONN", "BIND", "UDPA", "OTHER"}, t \in {"IPV4", "DOMN"}} \cup
  {Request("BIND", "IPV6"), Request("UDPA", "IPV6"),
   [ver |-> TRUE, cmd |-> "BIND", atyp |-> "IPV4", blocked |-> TRUE]}

\* A request of each command that relays.
LiveRequests == ConnectLiteral \cup BindLiteral

OneAddress == {<<"IPV4">>}
TwoAddresses == {<<"IPV4">>, <<"IPV6", "IPV4">>}
============================================================================
