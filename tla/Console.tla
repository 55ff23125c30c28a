------------------------------ MODULE Console ------------------------------
(***************************************************************************)
(* Reading secrets from standard input: DisableEcho, read_from_console and *)
(* CinClear of utils/console.hpp, and getline of types/string.hpp, against *)
(* a user (or another program) that types whenever it likes.               *)
(*                                                                         *)
(* A character is known by its position in what was typed, so that a line  *)
(* is a sequence of positions.  A terminal or a Windows console hands over *)
(* whole lines; a pipe and a buffered stream what there is.  The program   *)
(* is one thread that creates and destroys DisableEcho objects in the      *)
(* order of its scopes.                                                    *)
(***************************************************************************)
EXTENDS Naturals, Sequences, FiniteSets

CONSTANTS
    Letters,    \* characters that end no line of their own accord
    Delims,     \* delimiters getline is called with
    Reserve,    \* characters a String takes before it has to grow
    MaxInput,   \* bound: characters typed
    MaxGuards   \* bound: DisableEcho objects of the program, nested

ASSUME BoundAssumption == MaxInput \in Nat /\ MaxGuards \in Nat /\ Reserve \in Nat
ASSUME CharAssumption == Letters \cap {"NL", "CR"} = {} /\ Delims \subseteq Letters \cup {"NL"}

VARIABLES
    source,     \* what standard input is: a "terminal" (POSIX), a "console"
                \* (Windows), a "pipe", or a buffered "stream"
    echo,       \* the terminal's ECHO flag
    original,   \* what it was before the program started
    guards,     \* the DisableEcho objects alive, innermost last
    input,      \* everything typed: letters, "NL", "CR" (history)
    typed,      \* positions that wait in the system's queue
    buf,        \* positions read ahead by the stream's buffer
    eof,        \* the other end is closed
    pc,         \* where the call in progress is
    call,       \* which call it is or was: "read", "getline" or "clear", "none"
                \* before the first and after one that threw
    delim,      \* the delimiter of getline
    str,        \* the String being filled, then what it was left with
    queue,      \* what the call has or had before it: the positions that waited
                \* when it began and were typed since, but for what was
                \* discarded (history)
    stranded    \* a destructor could not restore the mode, and no object around
                \* it had saved an earlier one (history)

terminal == <<echo, guards>>
channel == <<input, typed, eof>>
control == <<pc, call, delim>>
vars == <<source, original, terminal, channel, buf, control, str, queue, stranded>>

Interactive == {"terminal", "console"}
Sources == Interactive \cup {"pipe", "stream"}
Chars == Letters \cup {"NL", "CR"}
Ascending(s) == \A i, j \in 1..Len(s) : i < j => s[i] < s[j]
Elements(s) == {s[i] : i \in 1..Len(s)}

TypeOK ==
    /\ source \in Sources
    /\ echo \in BOOLEAN /\ original \in BOOLEAN /\ eof \in BOOLEAN
    /\ Len(guards) <= MaxGuards + 1
    /\ \A i \in 1..Len(guards) : guards[i] \in [old : BOOLEAN, success : BOOLEAN]
    /\ Len(input) <= MaxInput /\ Elements(input) \subseteq Chars
    /\ \A s \in {typed, buf, str, queue} : Elements(s) \subseteq 1..Len(input) /\ Ascending(s)
    /\ stranded \in BOOLEAN
    /\ pc \in {"idle", "prompted", "peeking", "skipping", "reading", "terminated"}
    /\ call \in {"none", "read", "getline", "clear"} /\ delim \in Delims

Init ==
    /\ source \in Sources
    /\ original \in BOOLEAN
    /\ echo = original
    /\ guards = <<>>
    /\ input = <<>> /\ typed = <<>> /\ eof = FALSE
    /\ buf = <<>>
    /\ pc = "idle" /\ call = "none" /\ delim \in Delims
    /\ str = <<>>
    /\ queue = <<>> /\ stranded = FALSE

-----------------------------------------------------------------------------
\* The user.  A terminal turns CR into NL on input, as does a console.
Type(c) ==
    /\ ~eof
    /\ Len(input) < MaxInput
    /\ c = "CR" => source \notin Interactive
    /\ input' = Append(input, c)
    /\ typed' = Append(typed, Len(input) + 1)
    /\ queue' = Append(queue, Len(input) + 1)
    /\ UNCHANGED <<source, original, terminal, eof, buf, control, str, stranded>>

Close ==
    /\ ~eof
    /\ eof' = TRUE
    /\ UNCHANGED <<source, original, terminal, input, typed, buf, control, str, queue, stranded>>

\* How much one read of the system's queue yields, 0 while it blocks.
Ready ==
    LET ends == {i \in 1..Len(typed) : input[typed[i]] = "NL"}
    IN  IF source \notin Interactive \/ (eof /\ ends = {}) THEN Len(typed)
        ELSE IF ends = {} THEN 0
        ELSE CHOOSE i \in ends : \A j \in ends : i <= j

Fill ==
    /\ pc \in {"peeking", "skipping", "reading"}
    /\ buf = <<>>
    /\ Ready > 0
    /\ buf' = SubSeq(typed, 1, Ready)
    /\ typed' = SubSeq(typed, Ready + 1, Len(typed))
    /\ UNCHANGED <<source, original, terminal, input, eof, control, str, queue, stranded>>

AtEnd == buf = <<>> /\ typed = <<>> /\ eof
Next1 == input[Head(buf)]

-----------------------------------------------------------------------------
\* Mutant: a constructor that saves the mode after it has changed it.
DisableSavesLate ==
    \E success \in (IF source \in Interactive THEN BOOLEAN ELSE {FALSE}) :
        /\ guards' = Append(guards, [old |-> echo /\ ~success, success |-> success])
        /\ echo' = (echo /\ ~success)

\* DisableEcho(): nothing happens to what is neither a terminal nor a console,
\* and tcsetattr or SetConsoleMode may fail on one.
Disable ==
    \E success \in (IF source \in Interactive THEN BOOLEAN ELSE {FALSE}) :
        /\ guards' = Append(guards, [old |-> echo, success |-> success])
        /\ echo' = (echo /\ ~success)

\* tcsetattr with TCSAFLUSH discards what waits in the queue; SetConsoleMode
\* leaves it there, and the FOCUS_EVENT written after it is not input.
Flush ==
    /\ typed' = IF source = "terminal" THEN <<>> ELSE typed
    /\ queue' = IF source = "terminal" THEN SubSeq(queue, 1, Len(queue) - Len(typed)) ELSE queue

\* Mutant: a destructor that turns the echo on, whatever was saved.
RestoreAlwaysOn ==
    LET g == guards[Len(guards)]
    IN  /\ guards' = SubSeq(guards, 1, Len(guards) - 1)
        /\ IF g.success THEN echo' = TRUE /\ Flush ELSE UNCHANGED <<echo, typed, queue>>
        /\ UNCHANGED stranded

\* ~DisableEcho() puts back what the constructor saved.  Nobody looks at what
\* tcsetattr and SetConsoleMode return: when they fail the mode stays.
Restore ==
    LET g == guards[Len(guards)]
    IN  /\ guards' = SubSeq(guards, 1, Len(guards) - 1)
        /\ \/ g.success /\ echo' = g.old /\ Flush /\ UNCHANGED stranded
           \/ ~g.success /\ UNCHANGED <<echo, typed, queue, stranded>>
           \/ /\ g.success
              /\ stranded' = (stranded \/ \A i \in 1..(Len(guards) - 1) : ~guards[i].success)
              /\ UNCHANGED <<echo, typed, queue>>

\* The program's own DisableEcho objects.
EnterScope ==
    /\ pc = "idle"
    /\ Len(guards) < MaxGuards
    /\ Disable
    /\ UNCHANGED <<source, original, channel, buf, control, str, queue, stranded>>

LeaveScope ==
    /\ pc = "idle"
    /\ guards # <<>>
    /\ Restore
    /\ UNCHANGED <<source, original, input, eof, buf, control, str>>

-----------------------------------------------------------------------------
\* read_from_console prints the prompt, and only then turns the echo off: what
\* is typed in between is shown.
Prompt ==
    /\ pc = "idle"
    /\ pc' = "prompted" /\ call' = "read"
    /\ queue' = buf \o typed
    /\ str' = <<>>
    /\ UNCHANGED <<source, original, terminal, channel, buf, delim, stranded>>

StartReading ==
    /\ pc = "prompted"
    /\ pc' = "reading"
    /\ Disable
    /\ UNCHANGED <<source, original, channel, buf, call, delim, str, queue, stranded>>

Ends(c) == IF call = "read" THEN c \in {"NL", "CR"} ELSE c = delim

\* Mutant: a loop that looks at the character and leaves it where it is.
TakeAgain ==
    /\ pc = "reading"
    /\ buf # <<>> /\ ~Ends(Next1)
    /\ Len(str) < MaxInput
    /\ str' = Append(str, Head(buf))
    /\ UNCHANGED <<source, original, terminal, channel, buf, control, queue, stranded>>

\* One character, not a terminator, goes into the String.
Take ==
    /\ pc = "reading"
    /\ buf # <<>> /\ ~Ends(Next1)
    /\ str' = Append(str, Head(buf))
    /\ buf' = Tail(buf)
    /\ UNCHANGED <<source, original, terminal, channel, control, queue, stranded>>

\* Memory runs out: for the String of read_from_console, which is noexcept, or
\* for a character.  Whether its DisableEcho is destroyed before the program
\* terminates is the implementation's choice.
Terminate ==
    /\ pc = "reading" /\ call = "read"
    /\ str = <<>> \/ (Len(str) >= Reserve /\ buf # <<>> /\ ~Ends(Next1))
    /\ pc' = "terminated"
    /\ Restore \/ UNCHANGED <<terminal, typed, queue, stranded>>
    /\ UNCHANGED <<source, original, input, eof, buf, call, delim, str>>

\* The same in getline, whose caller gets the exception; the character is gone.
GetlineThrows ==
    /\ pc = "reading" /\ call = "getline"
    /\ Len(str) >= Reserve /\ buf # <<>> /\ ~Ends(Next1)
    /\ buf' = Tail(buf)
    /\ pc' = "idle" /\ call' = "none"
    /\ UNCHANGED <<source, original, terminal, channel, delim, str, queue, stranded>>

\* Mutant: a loop that only a terminator ends.
ReturnAtTerminator ==
    /\ pc = "reading"
    /\ buf # <<>> /\ Ends(Next1) /\ buf' = Tail(buf)
    /\ pc' = "idle"
    /\ IF call = "read" THEN Restore ELSE UNCHANGED <<terminal, typed, queue, stranded>>
    /\ UNCHANGED <<source, original, input, eof, call, delim, str>>

\* The terminator, or the end of the input, ends the loop.
Return ==
    /\ pc = "reading"
    /\ \/ buf # <<>> /\ Ends(Next1) /\ buf' = Tail(buf)
       \/ AtEnd /\ UNCHANGED buf
    /\ pc' = "idle"
    /\ IF call = "read" THEN Restore ELSE UNCHANGED <<terminal, typed, queue, stranded>>
    /\ UNCHANGED <<source, original, input, eof, call, delim, str>>

-----------------------------------------------------------------------------
Getline(d) ==
    /\ pc = "idle"
    /\ pc' = "peeking" /\ call' = "getline" /\ delim' = d
    /\ queue' = buf \o typed
    /\ str' = <<>>
    /\ UNCHANGED <<source, original, terminal, channel, buf, stranded>>

CinClear(d) ==
    /\ pc = "idle"
    /\ pc' = "skipping" /\ call' = "clear" /\ delim' = d
    /\ queue' = buf \o typed
    /\ UNCHANGED <<source, original, terminal, channel, buf, str, stranded>>

\* What getline skips a line for, whatever the delimiter.  A stream that is not
\* buffered, as std::cin, has in_avail() = 0.
Blank(c) == c = "NL" \/ (source = "stream" /\ c = "CR")
StartsBlank == Blank(Next1)

\* Mutant: get() in place of peek().
PeekConsumes ==
    /\ pc = "peeking"
    /\ buf # <<>> \/ AtEnd
    /\ pc' = IF buf # <<>> /\ StartsBlank THEN "skipping" ELSE "reading"
    /\ buf' = IF buf # <<>> /\ ~StartsBlank THEN Tail(buf) ELSE buf
    /\ UNCHANGED <<source, original, terminal, channel, call, delim, str, queue, stranded>>

Peek ==
    /\ pc = "peeking"
    /\ buf # <<>> \/ AtEnd
    /\ pc' = IF buf # <<>> /\ StartsBlank THEN "skipping" ELSE "reading"
    /\ UNCHANGED <<source, original, terminal, channel, buf, call, delim, str, queue, stranded>>

\* Mutant: a CinClear that does not pass its delimiter on.
SkipsToNewline == "NL"

\* ignore: up to and including the next NL of getline or the delimiter CinClear
\* was given, or to the end.
SkipsTo == IF call = "getline" THEN "NL" ELSE delim

Skip ==
    /\ pc = "skipping"
    /\ IF buf # <<>> THEN buf' = Tail(buf) ELSE AtEnd /\ UNCHANGED buf
    /\ pc' = IF buf # <<>> /\ Next1 # SkipsTo THEN "skipping"
             ELSE IF call = "getline" THEN "reading" ELSE "idle"
    /\ UNCHANGED <<source, original, terminal, channel, call, delim, str, queue, stranded>>

User == (\E c \in Chars : Type(c)) \/ Close
Call == EnterScope \/ LeaveScope \/ Prompt \/ \E d \in Delims : CinClear(d) \/ Getline(d)
Step == Fill \/ StartReading \/ Take \/ Return \/ Peek \/ Skip
Fault == Terminate \/ GetlineThrows

Next == User \/ Call \/ Step \/ Fault

Spec == Init /\ [][Next]_vars

\* A call in progress goes on when it can, and the other end closes at last if
\* it does nothing else: the program may call, and memory run out, or not.
FairSpec == Spec /\ WF_vars(Step) /\ WF_vars(Close)

-----------------------------------------------------------------------------
(***************************************************************************)
(* Properties                                                              *)
(***************************************************************************)

\* With no DisableEcho left the terminal is as the program found it, however
\* the objects nested, whichever could not change the mode, and whichever could
\* not restore it as long as one that had changed it was around it.
EchoRestored == guards = <<>> /\ ~stranded => echo = original

\* As long as one DisableEcho that succeeded is alive the echo is off, those
\* that nested in it and have gone again notwithstanding.
EchoOffWhileGuarded == (\E i \in 1..Len(guards) : guards[i].success) => ~echo

\* How many characters a call has taken of those it had before it, and whether
\* n of them are all up to and including the first c, or all there will be.
Taken == Len(queue) - Len(buf) - Len(typed)
Reaches(n, c) ==
    /\ \A i \in 1..(n - 1) : input[queue[i]] # c
    /\ (n > 0 /\ input[queue[n]] = c) \/ (eof /\ n = Len(queue))

\* The characters a call leaves out in front of its line.
Leads(n) ==
    IF call = "getline" /\ queue # <<>> /\ Blank(input[queue[1]]) THEN Reaches(n, "NL") ELSE n = 0

\* What a call returns is decided by the characters it had before it, not by
\* how they came in.  read_from_console stores all up to the first NL or CR.
\* getline stores all up to the delimiter, but for one NL in front, or, where
\* a stream is buffered, everything from a CR in front to the next NL.  The
\* terminator is taken and not stored, and what waits is the rest, for the
\* next call.
LineExact ==
    pc \in {"reading", "idle"} /\ call \in {"read", "getline"} =>
        /\ buf \o typed = SubSeq(queue, Taken + 1, Len(queue))
        /\ \E n \in 0..Taken :
              /\ Leads(n)
              /\ str = SubSeq(queue, n + 1, n + Len(str))
              /\ \A i \in 1..Len(str) : ~Ends(input[str[i]])
              /\ \/ pc = "reading" /\ Taken = n + Len(str)
                 \/ pc = "idle" /\ Taken = n + Len(str) + 1 /\ Ends(input[queue[Taken]])
                 \/ pc = "idle" /\ Taken = n + Len(str) /\ AtEnd

\* CinClear takes everything up to the delimiter, that included, and no more.
ClearExact ==
    pc = "idle" /\ call = "clear" =>
        /\ buf \o typed = SubSeq(queue, Taken + 1, Len(queue))
        /\ Reaches(Taken, delim)

\* Every call comes back, or the program has run out of memory and terminated,
\* even when the input ends in the middle of what the call waits for.
CallReturns == pc # "idle" ~> pc \in {"idle", "terminated"}

=============================================================================
