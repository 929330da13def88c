----------------------------- MODULE MCSettings -----------------------------
(* Values of the constants of Settings for TLC.                              *)
EXTENDS Settings

Log(f) == [key |-> "log", of |-> f]
Allow(k, v) == [key |-> "allow", of |-> k, val |-> v]
Address(r, v) == [key |-> "address", of |-> r, val |-> v]
Listen(d, v) == [key |-> "listen", delim |-> d, val |-> v]
Block(d, v) == [key |-> "block", delim |-> d, val |-> v]
Maximum(n) == [key |-> "max-connections", val |-> n]
Use(m) == [key |-> "method", val |-> m]

\* Settings that together start a server with every command.
Base == <<Log("access"), Log("error"), Listen(TRUE, "v4"), Maximum(2), Use("no-auth"),
          Allow("bind", "yes"), Address("bind-listen", "v4"), Address("bind-advertise", "v6"),
          Allow("udp-associate", "yes"), Address("udp-listen", "v6"),
          Address("udp-advertise", "v4"), Block(TRUE, "v6")>>

\* Settings that come on top of them, in front of or behind them.
More == [key : {"allow"}, of : {"domains", "connect", "bind"}, val : {"yes", "no"}]
        \cup {Use("gssapi"), Use("other"), Maximum(0), Maximum(1), Log("error")}
        \cup [key : {"address"}, of : {"bind-listen"}, val : {"v4", "v6", "name"}]
        \cup [key : {"listen", "block"}, delim : BOOLEAN, val : {"v4", "v6"}]

\* One of the settings of Base may be missing.
Variants == {Base} \cup {RemoveAt(Base, i) : i \in DOMAIN Base}
FilesAround == {<<m>> \o b \o <<n>> : m, n \in More, b \in Variants}

\* The file install-script.sh writes (its listen-port is no key of the code).
Installer ==
    {<<Log("access"), Log("error"), Listen(FALSE, "v4"), Listen(FALSE, "v6"),
       Allow("domains", "yes"), Allow("connect", "yes"), Allow("bind", "no"),
       Allow("udp-associate", "yes"), Maximum(2), Use("no-auth")>>}
=============================================================================
