---------------------------- MODULE MCConfigFile ----------------------------
(* Values of the constants of ConfigFile for TLC.                            *)
EXTENDS ConfigFile

Text1 == Letter \cup {"sp", "eq", "cm"}
Words(lo, hi) == UNION {[1..n -> Text1] : n \in lo..hi}

\* Lines that fit into the buffer with their newline, and files of two lines,
\* the second of which may end with the file.
Lines == {w \in Words(0, LineSize - 2) : Described(w)}
Short == {w \in Lines : Len(w) < LineSize - 2}
Described2 ==
    {f \in {l \o <<"nl">> \o m : l \in Lines, m \in Short \cup {n \o <<"nl">> : n \in Short}} :
        Described(f)}

\* A comment that is longer than the buffer.
LongComment == {<<"cm", "a", "a", "a">> \o l \o <<"nl">> : l \in {<<"a", "eq", "b">>, <<"b", "sp", "a">>}}

\* A last line that is a key without a value, after a longer line.
LastKey == {<<"b", "a", "eq", "b", "nl", "a">>}

\* Every file of up to six characters, lines the README does not describe and
\* lines longer than the buffer among them.
AnyFile == UNION {[1..n -> {"b", "sp", "eq", "cm", "nl", "nul"}] : n \in 0..6}
EveryFile == Described2 \cup AnyFile

\* A setting nobody knows, with a key of any length up to that of the buffer.
UnknownKeys ==
  {key \o <<"eq", "a", "nl">> : key \in UNION {[1..n -> {"b"}] : n \in 1..KeySize}}

KnownKeys == {<<"a">>, <<"b">>, <<"b", "a">>}
=============================================================================
