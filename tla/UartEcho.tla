------------------------------- MODULE UartEcho -------------------------------
(***************************************************************************)
(* examples/02_uart_jtag: echo_task collects characters into a line buffer *)
(* and echoes the line at a line end; heartbeat_task logs every two        *)
(* seconds, at a level that depends on the second, which is left out.      *)
(* getchar does not block: it returns EOF when nothing has been typed, and *)
(* only then does echo_task sleep and let the lower heartbeat_task run.    *)
(***************************************************************************)
EXTENDS Integers, Sequences, FiniteSetsExt, FiniteSets

CONSTANTS
    Chars,    \* characters that are not a line end; "NUL" may be one
    BufSize,  \* sizeof(buf): 64
    MaxTyped  \* bound: characters typed

LineEnds == {"\n", "\r"}

VARIABLES
    typed,      \* all that has been typed (history)
    read,       \* how many of it getchar has returned
    epc,        \* "getchar" or the 10 ms "delay"
    buf, idx,   \* the line buffer: cells 0 to BufSize - 1
    echoed,     \* the lines printed
    hpc         \* heartbeat_task: "beat" or the 2 s "delay"

echoVs  == <<read, epc, buf, idx, echoed>>
vars    == <<typed, echoVs, hpc>>

Type ==
    /\ Len(typed) < MaxTyped
    /\ \E c \in Chars \cup LineEnds : typed' = Append(typed, c)
    /\ UNCHANGED <<echoVs, hpc>>

-----------------------------------------------------------------------------
(* echo_task *)

\* A string is printed up to its first NUL, which may have been typed.
CString(b) ==
    [k \in 1..(CHOOSE n \in 0..idx : b[n] = "NUL" /\ \A m \in 0..(n - 1) : b[m] # "NUL")
        |-> b[k - 1]]

\* Faulty: no room is kept for the NUL.
FaultyHasRoom == idx < BufSize

HasRoom == idx < BufSize - 1

\* Faulty: the LF of a CR LF is echoed as a line of its own.
FaultyEndLine(c) ==
    /\ c \in LineEnds
    /\ buf' = [buf EXCEPT ![idx] = "NUL"]
    /\ echoed' = Append(echoed, CString(buf'))
    /\ idx' = 0

EndLine(c) ==
    /\ c \in LineEnds
    /\ IF idx > 0 THEN /\ buf' = [buf EXCEPT ![idx] = "NUL"]
                       /\ echoed' = Append(echoed, CString(buf'))
                       /\ idx' = 0
                  ELSE UNCHANGED <<buf, idx, echoed>>

KeepChar(c) ==
    /\ c \in Chars
    /\ IF HasRoom THEN buf' = [buf EXCEPT ![idx] = c] /\ idx' = idx + 1
                  ELSE UNCHANGED <<buf, idx>>
    /\ UNCHANGED echoed

GetChar ==
    /\ epc = "getchar" /\ read < Len(typed)
    /\ EndLine(typed[read + 1]) \/ KeepChar(typed[read + 1])
    /\ read' = read + 1
    /\ UNCHANGED <<typed, epc, hpc>>

GetEof ==
    /\ epc = "getchar" /\ read = Len(typed)
    /\ epc' = "delay"
    /\ UNCHANGED <<typed, read, buf, idx, echoed, hpc>>

EchoWakes ==
    /\ epc = "delay"
    /\ epc' = "getchar"
    /\ UNCHANGED <<typed, read, buf, idx, echoed, hpc>>

-----------------------------------------------------------------------------
(* heartbeat_task, of lower priority *)

Beat ==
    /\ epc = "delay" /\ hpc = "beat"
    /\ hpc' = "delay"
    /\ UNCHANGED <<typed, echoVs>>

BeatDelayEnds ==
    /\ hpc = "delay"
    /\ hpc' = "beat"
    /\ UNCHANGED <<typed, echoVs>>

Init ==
    /\ typed = <<>> /\ read = 0 /\ epc = "getchar"
    /\ buf = [k \in 0..(BufSize - 1) |-> "?"] /\ idx = 0 /\ echoed = <<>>
    /\ hpc = "beat"

Next == Type \/ GetChar \/ GetEof \/ EchoWakes \/ Beat \/ BeatDelayEnds

-----------------------------------------------------------------------------
(* Properties *)

\* Every variable stays in its domain; the cell after the line exists.
TypeOK ==
    /\ typed \in Seq(Chars \cup LineEnds) /\ read \in 0..Len(typed)
    /\ epc \in {"getchar", "delay"} /\ hpc \in {"beat", "delay"}
    /\ DOMAIN buf = 0..(BufSize - 1) /\ idx \in DOMAIN buf

\* A line is a pair: where its first character is, and its line end.  Empty
\* lines are none (the second half of a CR LF ends one).
IsLine(from, end) ==
    /\ from < end
    /\ from = 1 \/ typed[from - 1] \in LineEnds
    /\ typed[end] \in LineEnds
    /\ \A k \in from..(end - 1) : typed[k] \notin LineEnds
Lines == {l \in (1..read) \X (1..read) : IsLine(l[1], l[2])}

\* What should be echoed of a line: it is cut to what the buffer holds, and to
\* what comes before a NUL that was typed.
Cut(text) == SubSeq(text, 1, IF Len(text) < BufSize THEN Len(text) ELSE BufSize - 1)
BeforeNul(text) ==
    LET nuls == {k \in 1..Len(text) : text[k] = "NUL"}
    IN  IF nuls = {} THEN text ELSE SubSeq(text, 1, Min(nuls) - 1)

\* echo_task prints each line that was typed once and in order, whatever ends
\* it; a line of more than 63 characters loses its tail and nothing else, and
\* so does one in which a NUL was typed.
LinesEchoed ==
    /\ Len(echoed) = Cardinality(Lines)
    /\ \A l \in Lines :
          echoed[Cardinality({m \in Lines : m[2] <= l[2]})]
             = BeforeNul(Cut(SubSeq(typed, l[1], l[2] - 1)))

=============================================================================
