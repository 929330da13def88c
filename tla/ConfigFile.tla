----------------------------- MODULE ConfigFile -----------------------------
(* The reader of the configuration file in config.c: fgets fills one buffer  *)
(* again and again, and a pointer into it is moved over blanks, the key, the *)
(* separators and the value.  The buffer is never cleared.  Characters are   *)
(* the classes the code tells apart: blank and tab, = , the end of a line    *)
(* (the newline, with a carriage return before it or not), the comment       *)
(* signs, NUL, and letters.                                                  *)
EXTENDS Naturals, Sequences, FiniteSets

CONSTANTS Letter,    \* characters of keys and values
          LineSize,  \* sizeof(line), and of val
          KeySize,   \* sizeof(key)
          Keys,      \* the keys store_config knows, as sequences of letters
          Files,     \* contents the file may have
          Garbage    \* what fills the buffer before the first line

Character == Letter \cup {"sp", "eq", "cm", "nl", "nul"}

ASSUME ConfigFileAssumption ==
    /\ LineSize \in Nat \ {0, 1} /\ KeySize \in Nat \ {0}
    /\ Letter \cap {"sp", "eq", "nl", "cm", "nul", "beyond"} = {}
    /\ Keys \subseteq Seq(Letter) \ {<<>>}
    /\ Files \subseteq Seq(Character)

VARIABLES source,  \* the file
          file,    \* the part of it not yet read
          line,    \* the buffer
          stored,  \* what store_config was given under a key it knows
          status   \* "reading", "done", "overrun" after an access beyond a buffer
vars == <<source, file, line, stored, status>>

Separator == {"sp", "eq"}
End == {"nl", "nul"}
-----------------------------------------------------------------------------
(* fgets: up to LineSize - 1 characters, not past the end of a line; the     *)
(* buffer keeps what it holds after the NUL.                                 *)
Taken(f) == CHOOSE n \in 1..LineSize - 1 :
              /\ n = LineSize - 1 \/ n = Len(f) \/ f[n] = "nl"
              /\ n <= Len(f) /\ \A m \in 1..n - 1 : f[m] # "nl"
Filled(old, f) ==
    [i \in 0..LineSize - 1 |->
        IF i < Taken(f) THEN f[i + 1] ELSE IF i = Taken(f) THEN "nul" ELSE old[i]]

At(buf, i) == IF i < LineSize THEN buf[i] ELSE "beyond"

(* The first position from c on that is not in S.                            *)
Past(buf, c, S) ==
    CHOOSE i \in c..c + LineSize : /\ At(buf, i) \notin S
                                   /\ \A j \in c..i - 1 : At(buf, j) \in S
skip_whitespace(buf, c) == Past(buf, c, {"sp"})
to_value(buf, c) == Past(buf, c, Separator)

line_comment(ch) == ch \in End \cup {"cm"}
new_line(ch) == ch \in End

(* The first position after c that is in S, at most size further.            *)
Stop(buf, c, size, S) ==
    CHOOSE i \in c + 1..c + size :
        /\ i = c + size \/ At(buf, i) \in S
        /\ \A j \in c + 1..i - 1 : At(buf, j) \notin S
Copied(buf, c, e) == [i \in 1..e - c |-> At(buf, c + i - 1)]

(* A C string ends at its NUL.                                               *)
Text(s) == LET n == CHOOSE n \in 0..Len(s) : /\ n = Len(s) \/ s[n + 1] = "nul"
                                             /\ \A m \in 1..n : s[m] # "nul"
           IN  SubSeq(s, 1, n)

get_key(buf, c) == Stop(buf, c, KeySize, Separator)
get_val_past_nul(buf, c) == Stop(buf, c, LineSize, {"nl", "sp"})
get_val_to_end(buf, c) == Stop(buf, c, LineSize, End)
get_val(buf, c) == Stop(buf, c, LineSize, End \cup {"sp"})

(* A separator found at KeySize puts the NUL one past the key; a key or a    *)
(* value whose end is not in the buffer is read past it.                     *)
KeyOverrun(buf, c, e) == e >= LineSize \/ (e = c + KeySize /\ At(buf, e) \in Separator)
ValOverrun(e) == e >= LineSize
-----------------------------------------------------------------------------
Init ==
    /\ source \in Files /\ file = source
    /\ line \in [0..LineSize - 1 -> Garbage] /\ \A i, j \in DOMAIN line : line[i] = line[j]
    /\ stored = <<>> /\ status = "reading"

(* store_config compares the key with the names it knows.                    *)
Known(key) == key \in Keys

(* One round of the loop of parse_configs.                                   *)
parse_line ==
    /\ status = "reading" /\ file # <<>>
    /\ LET buf == Filled(line, file)
           k   == skip_whitespace(buf, 0)
           ke  == get_key(buf, k)
           v   == to_value(buf, ke)
           ve  == get_val(buf, v)
           key == Text(Copied(buf, k, ke))
           val == Text(Copied(buf, v, ve))
           Overrun == \/ KeyOverrun(buf, k, ke)
                      \/ At(buf, v) = "beyond"
                      \/ ~ new_line(At(buf, v)) /\ ValOverrun(ve)
       IN  /\ line' = buf
           /\ \/ /\ line_comment(At(buf, k))
                 /\ UNCHANGED <<stored, status>>
              \/ /\ ~ line_comment(At(buf, k)) /\ Overrun
                 /\ status' = "overrun" /\ UNCHANGED stored
              \/ /\ ~ line_comment(At(buf, k)) /\ ~ Overrun
                 /\ stored' = IF ~ new_line(At(buf, v)) /\ Known(key)
                              THEN Append(stored, <<key, val>>) ELSE stored
                 /\ UNCHANGED status
    /\ file' = SubSeq(file, Taken(file) + 1, Len(file))
    /\ UNCHANGED source

(* fgets returns NULL.                                                       *)
parse_end ==
    /\ status = "reading" /\ file = <<>>
    /\ status' = "done"
    /\ UNCHANGED <<source, file, line, stored>>

Next == parse_line \/ parse_end
Spec == Init /\ [][Next]_vars
-----------------------------------------------------------------------------
(* README.md:29 read as a definition: a line is what stands between two      *)
(* newlines; "Comments are lines whose first non-whitespace character is"    *)
(* a comment sign; "All leading and trailing whitespace is ignored.  Keys    *)
(* and values are separated by either white space or an equals sign".        *)
Starts(f) == {i \in 1..Len(f) : i = 1 \/ f[i - 1] = "nl"}
LineEnd(f, i) == CHOOSE e \in i..Len(f) + 1 :
                   /\ e = Len(f) + 1 \/ f[e] = "nl"
                   /\ \A j \in i..e - 1 : f[j] # "nl"
Word(f, i, S) == \* from the first character not in Separator to the next in S
    LET e == LineEnd(f, i)
        b == CHOOSE b \in i..e : (b = e \/ f[b] \notin Separator) /\ \A j \in i..b - 1 : f[j] \in Separator
        z == CHOOSE z \in b..e : (z = e \/ f[z] \in S) /\ \A j \in b..z - 1 : f[j] \notin S
    IN  <<b, z>>
Entry(f, i) ==
    LET k == Word(f, i, Separator)
        v == Word(f, k[2], {"sp"})
    IN  <<SubSeq(f, k[1], k[2] - 1), SubSeq(f, v[1], v[2] - 1)>>
Told(f) == {i \in Starts(f) : Entry(f, i)[1] \in Keys /\ Entry(f, i)[2] # <<>>}
Expected(f) ==
    [n \in 1..Cardinality(Told(f)) |->
        Entry(f, CHOOSE i \in Told(f) : Cardinality(Told(f) \cap 1..i) = n)]

(* A file README.md describes: every line is blank, a comment, or a key of   *)
(* letters, a separator and what follows it; and the key and the line with   *)
(* its newline fit into their buffers, of which README.md says nothing.      *)
Described(f) ==
    /\ f \in Seq(Letter \cup {"sp", "eq", "cm", "nl"})
    /\ \A i \in Starts(f) :
         /\ LineEnd(f, i) - i + 1 < LineSize
         /\ \/ \A j \in i..LineEnd(f, i) - 1 : f[j] = "sp"
            \/ \E k \in i..LineEnd(f, i) - 1 :
                 /\ \A j \in i..k - 1 : f[j] = "sp"
                 /\ \/ f[k] = "cm"
                    \/ \E z \in k + 1..LineEnd(f, i) - 1 :
                         /\ z - k < KeySize /\ f[z] \in Separator
                         /\ \A j \in k..z - 1 : f[j] \in Letter

(* What the server is configured with is what the file says, line by line,   *)
(* whatever the buffer held before.                                          *)
ReadsAsDocumented == status = "done" => stored = Expected(source)

(* That, and that no buffer is left, of every file README.md describes.      *)
DescribedIsRead == Described(source) => status # "overrun" /\ ReadsAsDocumented

(* No read goes past the buffer and no NUL past the key: README.md:29 sets   *)
(* no limit to a key.                                                        *)
StaysInBuffers == status # "overrun"

(* Whatever the file and the buffer hold, only a key leads out of a buffer:  *)
(* one that no separator ends, within its buffer and in front of the NUL.    *)
(* Blanks, values, comments, long lines and old contents never do.           *)
KeyEnds(buf, k) ==
    \E z \in k + 1..k + KeySize - 1 :
        At(buf, z) \in Separator /\ \A j \in k..z : At(buf, j) # "nul"
OverrunIsTheKeys == status = "overrun" => ~ KeyEnds(line, skip_whitespace(line, 0))
=============================================================================
