---------------------------- MODULE ConsoleProofs ----------------------------
(***************************************************************************)
(* Theorems about Console for input of any length and any nesting of       *)
(* DisableEcho objects.                                                    *)
(*                                                                         *)
(* Every DisableEcho object has saved the mode the objects around it left, *)
(* and a read in progress has one of its own.  What waits to be read is    *)
(* the end of the queue of the call in progress, and what that call has    *)
(* made of the beginning is decided by the characters there.               *)
(***************************************************************************)
EXTENDS Console, SequenceTheorems, WellFoundedInduction, TLAPS

\* Types that include the domains.
Shape ==
    /\ source \in Sources
    /\ echo \in BOOLEAN /\ original \in BOOLEAN /\ eof \in BOOLEAN
    /\ guards \in Seq([old : BOOLEAN, success : BOOLEAN])
    /\ input \in Seq(Chars) /\ Len(input) <= MaxInput
    /\ typed \in Seq(Nat) /\ buf \in Seq(Nat) /\ str \in Seq(Nat) /\ queue \in Seq(Nat)
    /\ stranded \in BOOLEAN
    /\ pc \in {"idle", "prompted", "peeking", "skipping", "reading", "terminated"}
    /\ call \in {"none", "read", "getline", "clear"} /\ delim \in Delims

\* The echo the first n of some objects leave of an echo o.
EchoAfter(o, objects, n) == o /\ \A j \in 1..n : ~objects[j].success

\* The mode the objects started from: the program's own, or off for good.
Base == original /\ ~stranded

\* The echo is what some objects leave of o, and those that changed it will
\* put back what the objects around them leave.
Saved(o, e, objects) ==
    /\ e <=> EchoAfter(o, objects, Len(objects))
    /\ \A i \in 1..Len(objects) :
          objects[i].success => (objects[i].old <=> EchoAfter(o, objects, i - 1))

Stacked == Saved(Base, echo, guards)

\* read_from_console has one object more than the program while it reads.
Guarded == pc = "reading" /\ call = "read"

Scoped ==
    /\ Guarded => guards # <<>>
    /\ pc = "terminated" \/ Guarded => Len(guards) <= MaxGuards + 1
    /\ pc # "terminated" /\ ~Guarded => Len(guards) <= MaxGuards
    /\ pc = "prompted" => call = "read"
    /\ pc = "peeking" => call = "getline"
    /\ pc = "skipping" => call # "read"

Before(s, t) == \A x \in Elements(s), y \in Elements(t) : x < y

Ordered ==
    /\ Elements(str) \cup Elements(buf) \cup Elements(typed) \subseteq 1..Len(input)
    /\ Ascending(str) /\ Ascending(buf) /\ Ascending(typed)
    /\ Before(str, buf) /\ Before(str, typed) /\ Before(buf, typed)
    /\ Elements(queue) \subseteq 1..Len(input) /\ Ascending(queue)

\* A queue ends with what the stream has read ahead and what still waits.
Suffix(q, b, w) ==
    /\ Len(b) + Len(w) <= Len(q)
    /\ \A i \in 1..Len(b) : b[i] = q[Len(q) - Len(b) - Len(w) + i]
    /\ \A i \in 1..Len(w) : w[i] = q[Len(q) - Len(w) + i]

\* The String holds what comes after the first n characters of the queue.
Stored(n) ==
    /\ Leads(n)
    /\ n + Len(str) <= Taken
    /\ \A i \in 1..Len(str) : str[i] = queue[n + i] /\ ~Ends(input[str[i]])

Returned(n) ==
    /\ Stored(n)
    /\ \/ Taken = n + Len(str) + 1 /\ Ends(input[queue[Taken]])
       \/ Taken = n + Len(str) /\ AtEnd

InLine ==
    /\ pc \in {"prompted", "peeking"} => Taken = 0 /\ str = <<>>
    /\ pc = "skipping" =>
          /\ \A i \in 1..Taken : input[queue[i]] # SkipsTo
          /\ call = "getline" => str = <<>> /\ queue # <<>> /\ Blank(input[queue[1]])
    /\ pc = "reading" => \E n \in 0..Taken : Stored(n) /\ Taken = n + Len(str)
    /\ pc = "reading" => call \in {"read", "getline"}
    /\ pc = "idle" /\ call \in {"read", "getline"} => \E n \in 0..Taken : Returned(n)
    /\ pc = "idle" /\ call = "clear" => Reaches(Taken, delim)
    /\ pc \in {"reading", "idle"} /\ call = "getline" => queue # <<>> \/ eof

IInv == Shape /\ Stacked /\ Scoped /\ Ordered /\ Suffix(queue, buf, typed) /\ InLine

-----------------------------------------------------------------------------
(***************************************************************************)
(* Sequences of positions.                                                 *)
(***************************************************************************)
LEMMA EmptyPositions == <<>> \in Seq(Nat) /\ Elements(<<>>) = {} /\ Ascending(<<>>)
BY DEF Elements, Ascending

LEMMA InSequence == ASSUME NEW S, NEW s \in Seq(S) PROVE \A i \in 1..Len(s) : s[i] \in S
OBVIOUS

LEMMA TailPositions ==
  ASSUME NEW s \in Seq(Nat), s # <<>>
  PROVE  /\ Head(s) \in Nat /\ Tail(s) \in Seq(Nat)
         /\ Elements(s) = {Head(s)} \cup Elements(Tail(s))
         /\ Ascending(s) => Ascending(Tail(s)) /\ \A y \in Elements(Tail(s)) : Head(s) < y
<1>1. /\ Len(s) \in Nat /\ Len(s) >= 1 /\ Head(s) = s[1] /\ s[1] \in Nat
      /\ Tail(s) \in Seq(Nat) /\ Len(Tail(s)) = Len(s) - 1
      /\ \A i \in 1..(Len(s) - 1) : Tail(s)[i] = s[i + 1]
  OBVIOUS
<1>2. Elements(s) \subseteq {Head(s)} \cup Elements(Tail(s))
  <2> SUFFICES ASSUME NEW i \in 1..Len(s), i # 1 PROVE s[i] \in Elements(Tail(s))
    BY <1>1 DEF Elements
  <2>1. i - 1 \in 1..Len(Tail(s)) /\ Tail(s)[i - 1] = s[i]
    BY <1>1
  <2> QED BY <2>1 DEF Elements
<1>3. {Head(s)} \cup Elements(Tail(s)) \subseteq Elements(s)
  <2>1. Head(s) \in Elements(s)
    BY <1>1 DEF Elements
  <2>2. ASSUME NEW i \in 1..Len(Tail(s)) PROVE Tail(s)[i] \in Elements(s)
    <3>1. i + 1 \in 1..Len(s) /\ Tail(s)[i] = s[i + 1]
      BY <1>1
    <3> QED BY <3>1 DEF Elements
  <2> QED BY <2>1, <2>2 DEF Elements
<1>4. ASSUME Ascending(s) PROVE Ascending(Tail(s)) /\ \A y \in Elements(Tail(s)) : Head(s) < y
  BY <1>1, <1>4 DEF Ascending, Elements
<1> QED BY <1>1, <1>2, <1>3, <1>4

LEMMA AppendPosition ==
  ASSUME NEW s \in Seq(Nat), NEW x \in Nat
  PROVE  /\ Append(s, x) \in Seq(Nat) /\ Append(s, x) # <<>>
         /\ Len(Append(s, x)) = Len(s) + 1 /\ Append(s, x)[Len(s) + 1] = x
         /\ \A i \in 1..Len(s) : Append(s, x)[i] = s[i]
         /\ Elements(Append(s, x)) = Elements(s) \cup {x}
         /\ Ascending(s) /\ (\A y \in Elements(s) : y < x) => Ascending(Append(s, x))
<1>1. /\ Append(s, x) \in Seq(Nat) /\ Len(s) \in Nat /\ Append(s, x) # <<>>
      /\ Len(Append(s, x)) = Len(s) + 1 /\ Append(s, x)[Len(s) + 1] = x
      /\ \A i \in 1..Len(s) : Append(s, x)[i] = s[i]
  OBVIOUS
<1>2. Elements(Append(s, x)) = Elements(s) \cup {x}
  BY <1>1 DEF Elements
<1>3. ASSUME Ascending(s), \A y \in Elements(s) : y < x PROVE Ascending(Append(s, x))
  BY <1>1, <1>3 DEF Ascending, Elements
<1> QED BY <1>1, <1>2, <1>3

LEMMA SplitPositions ==
  ASSUME NEW s \in Seq(Nat), NEW n \in 1..Len(s)
  PROVE  LET a == SubSeq(s, 1, n)
             b == SubSeq(s, n + 1, Len(s))
         IN  /\ a \in Seq(Nat) /\ b \in Seq(Nat)
             /\ Elements(s) = Elements(a) \cup Elements(b)
             /\ Ascending(s) => Ascending(a) /\ Ascending(b) /\ Before(a, b)
<1> DEFINE a == SubSeq(s, 1, n)
           b == SubSeq(s, n + 1, Len(s))
<1>1. Len(s) \in Nat /\ n \in Nat /\ n <= Len(s) /\ \A i \in 1..Len(s) : s[i] \in Nat
  OBVIOUS
<1>2. a \in Seq(Nat) /\ Len(a) = n /\ \A i \in 1..n : a[i] = s[i]
  BY <1>1
<1>3. b \in Seq(Nat) /\ Len(b) = Len(s) - n /\ \A i \in 1..(Len(s) - n) : b[i] = s[n + i]
  BY <1>1
<1> HIDE DEF a, b
<1>4. Elements(s) \subseteq Elements(a) \cup Elements(b)
  <2> SUFFICES ASSUME NEW i \in 1..Len(s) PROVE s[i] \in Elements(a) \cup Elements(b)
    BY DEF Elements
  <2>1. CASE i <= n
    BY <1>1, <1>2, <2>1 DEF Elements
  <2>2. CASE i > n
    <3>1. i - n \in 1..Len(b) /\ b[i - n] = s[i]
      BY <1>1, <1>3, <2>2
    <3> QED BY <3>1 DEF Elements
  <2> QED BY <1>1, <2>1, <2>2
<1>5. Elements(a) \cup Elements(b) \subseteq Elements(s)
  <2>1. \A i \in 1..Len(a) : i \in 1..Len(s) /\ a[i] = s[i]
    BY <1>1, <1>2
  <2>2. \A i \in 1..Len(b) : n + i \in 1..Len(s) /\ b[i] = s[n + i]
    BY <1>1, <1>3
  <2> QED BY <2>1, <2>2 DEF Elements
<1>6. ASSUME Ascending(s) PROVE Ascending(a) /\ Ascending(b) /\ Before(a, b)
  <2>1. Ascending(a)
    <3> SUFFICES ASSUME NEW i \in 1..Len(a), NEW j \in 1..Len(a), i < j PROVE a[i] < a[j]
      BY DEF Ascending
    <3>1. i \in 1..Len(s) /\ j \in 1..Len(s) /\ a[i] = s[i] /\ a[j] = s[j]
      BY <1>1, <1>2
    <3> QED BY <1>6, <3>1 DEF Ascending
  <2>2. Ascending(b)
    <3> SUFFICES ASSUME NEW i \in 1..Len(b), NEW j \in 1..Len(b), i < j PROVE b[i] < b[j]
      BY DEF Ascending
    <3>1. n + i \in 1..Len(s) /\ n + j \in 1..Len(s) /\ n + i < n + j
      BY <1>1, <1>3
    <3> QED BY <1>3, <1>6, <3>1 DEF Ascending
  <2>3. Before(a, b)
    <3> SUFFICES ASSUME NEW i \in 1..Len(a), NEW j \in 1..Len(b) PROVE a[i] < b[j]
      BY DEF Before, Elements
    <3>1. i \in 1..Len(s) /\ n + j \in 1..Len(s) /\ i < n + j
      BY <1>1, <1>2, <1>3
    <3> QED BY <1>2, <1>3, <1>6, <3>1 DEF Ascending
  <2> QED BY <2>1, <2>2, <2>3
<1> QED BY <1>2, <1>3, <1>4, <1>5, <1>6 DEF a, b

\* Of positions in a sequence there is a first one.
LEMMA FirstPosition ==
  ASSUME NEW n \in Nat, NEW S \in SUBSET (1..n), S # {}
  PROVE  \E i \in S : \A j \in S : i <= j
<1> DEFINE R == OpToRel(<, Nat)
<1>1. S \subseteq Nat
  OBVIOUS
<1>2. IsWellFoundedOn(R, Nat)
  BY NatLessThanWellFounded
<1>3. \A j, i \in Nat : j < i => <<j, i>> \in R
  BY DEF OpToRel
<1> HIDE DEF R
<1>4. PICK i \in S : \A j \in S : ~ (<<j, i>> \in R)
  BY <1>1, <1>2, WFMin
<1>5. \A j \in S : ~ (j < i)
  BY <1>1, <1>3, <1>4
<1> QED BY <1>1, <1>5

LEMMA ReadyBound == ASSUME typed \in Seq(Nat) PROVE Ready \in 0..Len(typed)
<1> DEFINE ends == {i \in 1..Len(typed) : input[typed[i]] = "NL"}
           first == CHOOSE i \in ends : \A j \in ends : i <= j
<1>1. Len(typed) \in Nat /\ ends \in SUBSET (1..Len(typed))
  OBVIOUS
<1>2. ends # {} => first \in ends
  BY <1>1, FirstPosition
<1>3. Ready = IF source \notin Interactive \/ (eof /\ ends = {}) THEN Len(typed)
              ELSE IF ends = {} THEN 0 ELSE first
  BY DEF Ready
<1> QED BY <1>1, <1>2, <1>3

-----------------------------------------------------------------------------
(***************************************************************************)
(* Types.                                                                  *)
(***************************************************************************)
Records == [old : BOOLEAN, success : BOOLEAN]

LEMMA ShapeInit == Init => Shape
<1> SUFFICES ASSUME Init PROVE Shape
  OBVIOUS
<1>1. /\ guards \in Seq([old : BOOLEAN, success : BOOLEAN]) /\ input \in Seq(Chars)
      /\ typed \in Seq(Nat) /\ buf \in Seq(Nat) /\ str \in Seq(Nat) /\ queue \in Seq(Nat)
  BY DEF Init
<1>2. Len(input) <= MaxInput
  BY BoundAssumption DEF Init
<1>3. /\ source \in Sources /\ original \in BOOLEAN /\ echo \in BOOLEAN /\ eof \in BOOLEAN
  BY DEF Init
<1>4. /\ pc \in {"idle", "prompted", "peeking", "skipping", "reading", "terminated"}
      /\ call \in {"none", "read", "getline", "clear"} /\ delim \in Delims /\ stranded \in BOOLEAN
  BY DEF Init
<1> QED BY <1>1, <1>2, <1>3, <1>4 DEF Shape

LEMMA DisableShape ==
  ASSUME Shape, Disable
  PROVE  /\ guards' \in Seq(Records) /\ echo' \in BOOLEAN /\ Len(guards') = Len(guards) + 1
         /\ \E g \in Records : /\ guards' = Append(guards, g) /\ g.old = echo
                               /\ echo' = (echo /\ ~g.success)
<1>1. PICK success \in BOOLEAN : /\ guards' = Append(guards, [old |-> echo, success |-> success])
                                 /\ echo' = (echo /\ ~success)
  BY DEF Disable
<1> DEFINE g == [old |-> echo, success |-> success]
<1>2. g \in Records /\ g.old = echo /\ g.success = success
  BY DEF Shape, Records
<1>3. guards \in Seq(Records)
  BY DEF Shape, Records
<1> HIDE DEF g
<1>4. guards' = Append(guards, g) /\ echo' = (echo /\ ~g.success)
  BY <1>1, <1>2 DEF g
<1>5. guards' \in Seq(Records) /\ Len(guards') = Len(guards) + 1
  BY <1>2, <1>3, <1>4
<1>6. echo' \in BOOLEAN
  BY <1>1
<1> QED BY <1>2, <1>4, <1>5, <1>6

\* A destructor may have discarded what was typed.
Flushes ==
    \/ UNCHANGED <<typed, queue>>
    \/ typed' = <<>> /\ queue' = SubSeq(queue, 1, Len(queue) - Len(typed))

LEMMA RestoreShape ==
  ASSUME Shape, guards # <<>>, Restore
  PROVE  /\ guards' \in Seq(Records) /\ echo' \in BOOLEAN /\ Len(guards') = Len(guards) - 1
         /\ \A i \in 1..Len(guards') : guards'[i] = guards[i]
         /\ stranded' \in BOOLEAN /\ Flushes
<1>1. guards \in Seq(Records) /\ typed \in Seq(Nat) /\ echo \in BOOLEAN
  BY DEF Shape, Records
<1>2. Len(guards) \in Nat /\ Len(guards) >= 1 /\ guards[Len(guards)] \in Records
  BY <1>1
<1>3. guards' = SubSeq(guards, 1, Len(guards) - 1)
  BY DEF Restore
<1>4. /\ guards' \in Seq(Records) /\ Len(guards') = Len(guards) - 1
      /\ \A i \in 1..Len(guards') : guards'[i] = guards[i]
  <2> DEFINE n == Len(guards)
  <2>1. n \in Int /\ n >= 1 /\ \A i \in 1..(n - 1) : guards[i] \in Records
    BY <1>1, <1>2
  <2>2. SubSeq(guards, 1, n - 1) \in Seq(Records)
        /\ Len(SubSeq(guards, 1, n - 1)) = n - 1
        /\ \A i \in 1..(n - 1) : SubSeq(guards, 1, n - 1)[i] = guards[i]
    <3> HIDE DEF n
    <3>1. /\ SubSeq(guards, 1, n - 1) \in Seq(Records)
          /\ Len(SubSeq(guards, 1, n - 1)) = IF 1 <= n - 1 THEN n - 1 - 1 + 1 ELSE 0
          /\ \A i \in 1..(n - 1 - 1 + 1) : SubSeq(guards, 1, n - 1)[i] = guards[1 + i - 1]
      BY <2>1, SubSeqProperties, 1 \in Int, n - 1 \in Int
    <3> QED BY <2>1, <3>1
  <2> QED BY <1>3, <2>1, <2>2
<1>5. guards[Len(guards)].old \in BOOLEAN
  BY <1>2 DEF Records
<1>6. echo' \in BOOLEAN
  BY <1>1, <1>5 DEF Restore
<1>7. Flushes
  BY DEF Restore, Flush, Flushes
<1>8. stranded' \in BOOLEAN
  BY DEF Restore, Shape
<1> QED BY <1>1, <1>4, <1>6, <1>7, <1>8

LEMMA FlushedTypes ==
  ASSUME Shape, Suffix(queue, buf, typed), Flushes
  PROVE  typed' \in Seq(Nat) /\ queue' \in Seq(Nat)
<1>1. CASE UNCHANGED <<typed, queue>>
  BY <1>1 DEF Shape
<1>2. CASE typed' = <<>> /\ queue' = SubSeq(queue, 1, Len(queue) - Len(typed))
  <2>1. /\ queue \in Seq(Nat) /\ Len(queue) - Len(typed) \in 0..Len(queue)
    BY DEF Shape, Suffix
  <2>2. SubSeq(queue, 1, Len(queue) - Len(typed)) \in Seq(Nat)
    BY <2>1
  <2> QED BY <1>2, <2>2, EmptyPositions
<1> QED BY <1>1, <1>2 DEF Flushes

LEMMA ShapeStep == Shape /\ Scoped /\ Suffix(queue, buf, typed) /\ [Next]_vars => Shape'
<1> SUFFICES ASSUME Shape, Scoped, Suffix(queue, buf, typed), [Next]_vars PROVE Shape'
  OBVIOUS
<1> USE DEF terminal, channel, control
<1>1. ASSUME NEW c \in Chars, Type(c) PROVE Shape'
  <2>1. Append(input, c) \in Seq(Chars) /\ Len(input) \in Nat /\ Len(Append(input, c)) = Len(input) + 1
    BY DEF Shape
  <2>2. Append(typed, Len(input) + 1) \in Seq(Nat) /\ Append(queue, Len(input) + 1) \in Seq(Nat)
    BY <2>1 DEF Shape
  <2>3. Len(input) < MaxInput
    BY <1>1 DEF Type
  <2> QED BY <1>1, <2>1, <2>2, <2>3, BoundAssumption DEF Type, Shape
<1>2. CASE Close
  BY <1>2 DEF Close, Shape
<1>3. CASE EnterScope
  <2>1. guards' \in Seq([old : BOOLEAN, success : BOOLEAN]) /\ echo' \in BOOLEAN
    BY <1>3, DisableShape DEF EnterScope, Records
  <2> QED BY <1>3, <2>1 DEF EnterScope, Shape
<1>waits. buf \o typed \in Seq(Nat)
  BY DEF Shape
<1>restored. (guards # <<>> /\ Restore) \/ UNCHANGED <<echo, guards, typed, queue, stranded>>
        => /\ guards' \in Seq([old : BOOLEAN, success : BOOLEAN]) /\ echo' \in BOOLEAN
           /\ typed' \in Seq(Nat) /\ queue' \in Seq(Nat) /\ stranded' \in BOOLEAN
  BY RestoreShape, FlushedTypes DEF Shape, Records
<1>4. CASE LeaveScope
  <2>1. guards # <<>> /\ Restore
    BY <1>4 DEF LeaveScope
  <2> QED BY <1>4, <2>1, <1>restored DEF LeaveScope, Shape
<1>5. CASE Prompt
  BY <1>5, <1>waits, EmptyPositions DEF Prompt, Shape
<1>6. ASSUME NEW d \in Delims, CinClear(d) PROVE Shape'
  BY <1>6, <1>waits DEF CinClear, Shape
<1>7. ASSUME NEW d \in Delims, Getline(d) PROVE Shape'
  BY <1>7, <1>waits, EmptyPositions DEF Getline, Shape
<1>8. CASE Fill
  <2>1. Ready \in 1..Len(typed)
    BY <1>8, ReadyBound DEF Fill, Shape
  <2>2. typed' \in Seq(Nat) /\ buf' \in Seq(Nat)
    BY <1>8, <2>1, SplitPositions DEF Fill, Shape
  <2> QED BY <1>8, <2>2 DEF Fill, Shape
<1>9. CASE StartReading
  <2>1. guards' \in Seq([old : BOOLEAN, success : BOOLEAN]) /\ echo' \in BOOLEAN
    BY <1>9, DisableShape DEF StartReading, Records
  <2> QED BY <1>9, <2>1 DEF StartReading, Shape
<1>head. buf # <<>> => Head(buf) \in Nat /\ Tail(buf) \in Seq(Nat)
  BY TailPositions DEF Shape
<1>10. CASE Take
  <2>1. str' \in Seq(Nat) /\ buf' \in Seq(Nat)
    BY <1>10, <1>head, AppendPosition DEF Take, Shape
  <2> QED BY <1>10, <2>1 DEF Take, Shape
<1>13. CASE Return
  <2>1. buf' \in Seq(Nat)
    BY <1>13, <1>head DEF Return, Shape
  <2>2. (guards # <<>> /\ Restore) \/ UNCHANGED <<echo, guards, typed, queue, stranded>>
    BY <1>13 DEF Return, Scoped, Guarded
  <2> QED BY <1>restored, <1>13, <2>1, <2>2 DEF Return, Shape
<1>14. CASE Terminate
  <2>1. (guards # <<>> /\ Restore) \/ UNCHANGED <<echo, guards, typed, queue, stranded>>
    BY <1>14 DEF Terminate, Scoped, Guarded
  <2> QED BY <1>restored, <1>14, <2>1 DEF Terminate, Shape
<1>15. CASE GetlineThrows
  BY <1>head, <1>15 DEF GetlineThrows, Shape
<1>16. CASE Peek
  BY <1>16 DEF Peek, Shape
<1>17. CASE Skip
  <2>1. buf' \in Seq(Nat)
    BY <1>head, <1>17 DEF Skip, Shape
  <2>2. pc' \in {"skipping", "reading", "idle"}
    BY <1>17 DEF Skip
  <2> QED BY <1>17, <2>1, <2>2 DEF Skip, Shape
<1>18. CASE UNCHANGED vars
  BY <1>18 DEF vars, Shape
<1> QED BY <1>1, <1>2, <1>3, <1>4, <1>5, <1>6, <1>7, <1>8, <1>9, <1>10, <1>13, <1>14, <1>15, <1>16,
           <1>17, <1>18 DEF Next, User, Call, Step, Fault

-----------------------------------------------------------------------------
(***************************************************************************)
(* The echo.                                                               *)
(***************************************************************************)
LEMMA StackedInit == Init => Stacked
BY DEF Init, Stacked, Saved, EchoAfter, Base

\* One object more, which saves the echo as it is.
LEMMA PushGuard ==
  ASSUME NEW gs \in Seq(Records), NEW g \in Records, NEW o \in BOOLEAN, NEW e \in BOOLEAN,
         Saved(o, e, gs),
         g.old <=> e,
         NEW hs \in Seq(Records), hs = Append(gs, g)
  PROVE  Saved(o, e /\ ~g.success, hs)
<1> USE DEF Saved
<1>1. PICK n \in Nat : n = Len(gs)
  OBVIOUS
<1>2. Len(hs) = n + 1 /\ hs[n + 1] = g /\ \A i \in 1..n : hs[i] = gs[i]
  BY <1>1
<1>3. \A k \in 0..n : EchoAfter(o, hs, k) <=> EchoAfter(o, gs, k)
  BY <1>1, <1>2 DEF EchoAfter
<1>4. \A j : j \in 1..(n + 1) <=> j \in 1..n \/ j = n + 1
  BY <1>1
<1>5. EchoAfter(o, hs, n + 1) <=> EchoAfter(o, gs, n) /\ ~g.success
  BY <1>2, <1>4 DEF EchoAfter
<1>6. ASSUME NEW i \in 1..(n + 1), hs[i].success PROVE hs[i].old <=> EchoAfter(o, hs, i - 1)
  <2>1. i - 1 \in 0..n
    BY <1>1
  <2>2. CASE i \in 1..n
    BY <1>1, <1>2, <1>3, <1>6, <2>1, <2>2
  <2>3. CASE i = n + 1
    <3>1. i - 1 = n /\ hs[i] = g
      BY <1>1, <1>2, <2>3
    <3> QED BY <1>1, <1>3, <2>1, <3>1
  <2> QED BY <1>4, <2>2, <2>3
<1> QED BY <1>1, <1>2, <1>5, <1>6

\* One object less, which restores the mode if it had changed it.
LEMMA PopGuard ==
  ASSUME NEW gs \in Seq(Records), gs # <<>>, NEW o \in BOOLEAN, NEW e \in BOOLEAN,
         Saved(o, e, gs),
         NEW hs \in Seq(Records), Len(hs) = Len(gs) - 1, \A i \in 1..Len(hs) : hs[i] = gs[i]
  PROVE  Saved(o, IF gs[Len(gs)].success THEN gs[Len(gs)].old ELSE e, hs)
<1> USE DEF Saved
<1>1. PICK n \in Nat : n + 1 = Len(gs) /\ n = Len(hs)
  OBVIOUS
<1>2. \A i \in 1..n : hs[i] = gs[i]
  BY <1>1
<1>3. \A k \in 0..n : EchoAfter(o, hs, k) <=> EchoAfter(o, gs, k)
  <2> SUFFICES ASSUME NEW k \in 0..n PROVE EchoAfter(o, hs, k) <=> EchoAfter(o, gs, k)
    OBVIOUS
  <2>1. \A j \in 1..k : hs[j] = gs[j]
    BY <1>1, <1>2
  <2> QED BY <2>1 DEF EchoAfter
<1>4. \A j : j \in 1..(n + 1) <=> j \in 1..n \/ j = n + 1
  BY <1>1
<1>5. ~gs[n + 1].success => (EchoAfter(o, gs, n + 1) <=> EchoAfter(o, gs, n))
  BY <1>4 DEF EchoAfter
<1>6. n + 1 \in 1..(n + 1) /\ n \in 0..n /\ n + 1 - 1 = n
  BY <1>1
<1>7. gs[n + 1].success => (gs[n + 1].old <=> EchoAfter(o, gs, n))
  BY <1>1, <1>6
<1>8. (IF gs[n + 1].success THEN gs[n + 1].old ELSE e) <=> EchoAfter(o, hs, n)
  BY <1>1, <1>3, <1>5, <1>6, <1>7
<1>9. ASSUME NEW i \in 1..n, hs[i].success PROVE hs[i].old <=> EchoAfter(o, hs, i - 1)
  <2>1. i \in 1..(n + 1) /\ i - 1 \in 0..n
    BY <1>1
  <2> QED BY <1>1, <1>2, <1>3, <1>9, <2>1
<1> QED BY <1>1, <1>8, <1>9

\* One object less, which could not restore the mode.  If another that had
\* changed it is left, that one will; if none is, the echo stays off.
LEMMA StrandGuard ==
  ASSUME NEW gs \in Seq(Records), gs # <<>>, NEW o \in BOOLEAN, NEW e \in BOOLEAN, NEW p \in BOOLEAN,
         Saved(o, e, gs),
         gs[Len(gs)].success,
         p <=> o /\ ~(\A i \in 1..(Len(gs) - 1) : ~gs[i].success),
         NEW hs \in Seq(Records), Len(hs) = Len(gs) - 1, \A i \in 1..Len(hs) : hs[i] = gs[i]
  PROVE  Saved(p, e, hs)
<1> USE DEF Saved
<1>1. PICK n \in Nat : n + 1 = Len(gs) /\ n = Len(hs)
  OBVIOUS
<1>2. \A i \in 1..n : hs[i] = gs[i]
  BY <1>1
<1>3. n + 1 \in 1..(n + 1)
  BY <1>1
<1>4. ~e
  BY <1>1, <1>3 DEF EchoAfter
<1>5. CASE \A i \in 1..n : ~gs[i].success
  <2>1. ~p
    BY <1>1, <1>5
  <2>2. \A i \in 1..n : ~hs[i].success
    BY <1>2, <1>5
  <2> QED BY <1>1, <1>4, <2>1, <2>2 DEF EchoAfter
<1>6. CASE ~(\A i \in 1..n : ~gs[i].success)
  <2>1. p <=> o
    BY <1>1, <1>6
  <2>2. ~EchoAfter(p, hs, n)
    BY <1>2, <1>6 DEF EchoAfter
  <2>3. ASSUME NEW i \in 1..n, hs[i].success PROVE hs[i].old <=> EchoAfter(p, hs, i - 1)
    <3>1. i \in 1..(n + 1) /\ \A j \in 1..(i - 1) : hs[j] = gs[j]
      BY <1>1, <1>2
    <3>2. EchoAfter(p, hs, i - 1) <=> EchoAfter(o, gs, i - 1)
      BY <2>1, <3>1 DEF EchoAfter
    <3>3. gs[i].success => (gs[i].old <=> EchoAfter(o, gs, i - 1))
      BY <1>1, <3>1
    <3> QED BY <1>2, <2>3, <3>2, <3>3
  <2> QED BY <1>1, <1>4, <2>2, <2>3
<1> QED BY <1>5, <1>6

LEMMA DisableStacked ==
  ASSUME Shape, Stacked, Disable, UNCHANGED <<original, stranded>> PROVE Stacked'
<1>1. PICK g \in Records : /\ guards' = Append(guards, g) /\ g.old = echo
                           /\ echo' = (echo /\ ~g.success)
  BY DisableShape
<1>2. /\ guards \in Seq(Records) /\ guards' \in Seq(Records) /\ echo \in BOOLEAN
      /\ Base \in BOOLEAN /\ Base' = Base
  BY DisableShape DEF Shape, Records, Base
<1>3. Saved(Base, echo, guards)
  BY DEF Stacked
<1>4. Saved(Base, echo /\ ~g.success, guards')
  BY <1>1, <1>2, <1>3, PushGuard
<1> QED BY <1>1, <1>2, <1>4 DEF Stacked, Saved, EchoAfter

LEMMA RestoreStacked ==
  ASSUME Shape, Stacked, guards # <<>>, Restore, original' = original PROVE Stacked'
<1>1. /\ guards' \in Seq(Records) /\ Len(guards') = Len(guards) - 1
      /\ \A i \in 1..Len(guards') : guards'[i] = guards[i]
  BY RestoreShape
<1>2. guards \in Seq(Records) /\ echo \in BOOLEAN /\ Base \in BOOLEAN /\ Base' \in BOOLEAN
  BY RestoreShape DEF Shape, Records, Base
<1>3. CASE echo' = (IF guards[Len(guards)].success THEN guards[Len(guards)].old ELSE echo)
           /\ UNCHANGED stranded
  <2>1. Base' = Base
    BY <1>3 DEF Base
  <2>2. Saved(Base, IF guards[Len(guards)].success THEN guards[Len(guards)].old ELSE echo, guards')
    BY <1>1, <1>2, PopGuard DEF Stacked
  <2> QED BY <1>3, <2>1, <2>2 DEF Stacked, Saved, EchoAfter
<1>4. CASE /\ guards[Len(guards)].success /\ echo' = echo
           /\ stranded' = (stranded \/ \A i \in 1..(Len(guards) - 1) : ~guards[i].success)
  <2>1. Base' <=> Base /\ ~(\A i \in 1..(Len(guards) - 1) : ~guards[i].success)
    BY <1>4 DEF Base
  <2>2. Saved(Base', echo, guards')
    BY <1>1, <1>2, <1>4, <2>1, StrandGuard DEF Stacked
  <2> QED BY <1>4, <2>2 DEF Stacked, Saved, EchoAfter
<1> QED BY <1>3, <1>4 DEF Restore

LEMMA StackedStep == Shape /\ Stacked /\ Scoped /\ [Next]_vars => Stacked'
<1> SUFFICES ASSUME Shape, Stacked, Scoped, [Next]_vars PROVE Stacked'
  OBVIOUS
<1>1. ASSUME UNCHANGED <<echo, guards, original, stranded>> PROVE Stacked'
  BY <1>1 DEF Stacked, Saved, EchoAfter, Base
<1> USE DEF terminal
<1>2. CASE EnterScope \/ StartReading
  BY <1>2, DisableStacked DEF EnterScope, StartReading
<1>3. CASE LeaveScope
  BY <1>3, RestoreStacked DEF LeaveScope
<1>4. CASE Return
  BY <1>1, <1>4, RestoreStacked DEF Return, Scoped, Guarded
<1>5. CASE Terminate
  BY <1>1, <1>5, RestoreStacked DEF Terminate, Scoped, Guarded
<1>6. CASE User
  BY <1>1, <1>6 DEF User, Type, Close
<1>7. CASE Prompt \/ \E d \in Delims : CinClear(d) \/ Getline(d)
  BY <1>1, <1>7 DEF Prompt, CinClear, Getline
<1>8. CASE Fill \/ Take \/ Peek \/ Skip \/ GetlineThrows
  BY <1>1, <1>8 DEF Fill, Take, Peek, Skip, GetlineThrows
<1>9. CASE UNCHANGED vars
  BY <1>1, <1>9 DEF vars
<1> QED BY <1>2, <1>3, <1>4, <1>5, <1>6, <1>7, <1>8, <1>9 DEF Next, Call, Step, Fault

LEMMA ScopedInit == Init => Scoped
BY BoundAssumption DEF Init, Scoped, Guarded

LEMMA ScopedStep == Shape /\ Scoped /\ [Next]_vars => Scoped'
<1> SUFFICES ASSUME Shape, Scoped, [Next]_vars PROVE Scoped'
  OBVIOUS
<1> USE DEF terminal, control
<1>1. MaxGuards \in Nat /\ Len(guards) \in Nat /\ (guards # <<>> => Len(guards) >= 1)
  BY BoundAssumption DEF Shape
<1>2. ASSUME UNCHANGED <<guards, pc, call>> PROVE Scoped'
  BY <1>2 DEF Scoped, Guarded
<1>3. CASE EnterScope
  BY <1>1, <1>3, DisableShape DEF EnterScope, Scoped, Guarded
<1>4. CASE StartReading
  <2>1. Len(guards') = Len(guards) + 1
    BY <1>4, DisableShape DEF StartReading
  <2>2. pc' = "reading" /\ call' = call /\ pc = "prompted"
    BY <1>4 DEF StartReading
  <2>3. Len(guards) <= MaxGuards
    BY <2>2 DEF Scoped, Guarded
  <2>4. guards' # <<>> /\ Len(guards') <= MaxGuards + 1
    BY <1>1, <2>1, <2>3
  <2>5. call = "read"
    BY <2>2 DEF Scoped
  <2> QED BY <2>2, <2>4, <2>5 DEF Scoped, Guarded
<1>5. CASE LeaveScope
  <2>1. Len(guards') = Len(guards) - 1
    BY <1>5, RestoreShape DEF LeaveScope
  <2> QED BY <1>1, <1>5, <2>1 DEF LeaveScope, Scoped, Guarded
<1>6. CASE Return
  BY <1>1, <1>6, RestoreShape DEF Return, Scoped, Guarded
<1>7. CASE Terminate
  BY <1>1, <1>7, RestoreShape DEF Terminate, Scoped, Guarded
<1>8. CASE User
  BY <1>2, <1>8 DEF User, Type, Close
<1>9. CASE Prompt \/ \E d \in Delims : CinClear(d) \/ Getline(d)
  BY <1>9 DEF Prompt, CinClear, Getline, Scoped, Guarded
<1>10. CASE Fill \/ Take
  BY <1>2, <1>10 DEF Fill, Take
<1>11. CASE Peek \/ GetlineThrows
  BY <1>11 DEF Peek, GetlineThrows, Scoped, Guarded
<1>12. CASE Skip
  <2>1. call # "read" /\ call' = call /\ guards' = guards
    BY <1>12 DEF Skip, Scoped
  <2>2. pc' \in {"skipping", "reading", "idle"} /\ pc = "skipping"
    BY <1>12 DEF Skip
  <2> QED BY <2>1, <2>2 DEF Scoped, Guarded
<1>13. CASE UNCHANGED vars
  BY <1>2, <1>13 DEF vars
<1> QED BY <1>3, <1>4, <1>5, <1>6, <1>7, <1>8, <1>9, <1>10, <1>11, <1>12, <1>13 DEF Next, Call, Step, Fault

-----------------------------------------------------------------------------
(***************************************************************************)
(* The order of the characters.                                            *)
(***************************************************************************)
LEMMA JoinPositions ==
  ASSUME NEW a \in Seq(Nat), NEW b \in Seq(Nat)
  PROVE  /\ a \o b \in Seq(Nat) /\ Len(a \o b) = Len(a) + Len(b)
         /\ \A i \in 1..Len(a) : (a \o b)[i] = a[i]
         /\ \A i \in 1..Len(b) : (a \o b)[Len(a) + i] = b[i]
         /\ Elements(a \o b) = Elements(a) \cup Elements(b)
         /\ Ascending(a) /\ Ascending(b) /\ Before(a, b) => Ascending(a \o b)
<1>1. /\ a \o b \in Seq(Nat) /\ Len(a) \in Nat /\ Len(b) \in Nat /\ Len(a \o b) = Len(a) + Len(b)
      /\ \A i \in 1..Len(a) : (a \o b)[i] = a[i]
  OBVIOUS
<1>2. \A i \in 1..Len(b) : (a \o b)[Len(a) + i] = b[i]
  <2> SUFFICES ASSUME NEW i \in 1..Len(b) PROVE (a \o b)[Len(a) + i] = b[i]
    OBVIOUS
  <2>1. Len(a) + i \in 1..(Len(a) + Len(b)) /\ ~(Len(a) + i <= Len(a)) /\ Len(a) + i - Len(a) = i
    BY <1>1
  <2> QED BY <2>1, ConcatProperties
<1> DEFINE c == a \o b
<1>3. \A i \in 1..Len(c) : i \in 1..Len(a) \/ i - Len(a) \in 1..Len(b)
  BY <1>1
<1>4. \A i \in 1..Len(c) : i - Len(a) \in 1..Len(b) => c[i] = b[i - Len(a)]
  <2> SUFFICES ASSUME NEW i \in 1..Len(c), i - Len(a) \in 1..Len(b) PROVE c[i] = b[i - Len(a)]
    OBVIOUS
  <2>1. Len(a) + (i - Len(a)) = i
    BY <1>1
  <2> QED BY <1>2, <2>1
<1>5. \A i \in 1..Len(a) : i \in 1..Len(c) /\ c[i] = a[i]
  BY <1>1
<1>6. \A i \in 1..Len(b) : Len(a) + i \in 1..Len(c) /\ c[Len(a) + i] = b[i]
  BY <1>1, <1>2
<1> HIDE DEF c
<1>7. Elements(c) = Elements(a) \cup Elements(b)
  <2>1. Elements(c) \subseteq Elements(a) \cup Elements(b)
    BY <1>3, <1>4, <1>5 DEF Elements
  <2>2. Elements(a) \subseteq Elements(c)
    BY <1>5 DEF Elements
  <2>3. Elements(b) \subseteq Elements(c)
    BY <1>6 DEF Elements
  <2> QED BY <2>1, <2>2, <2>3
<1>8. ASSUME Ascending(a), Ascending(b), Before(a, b) PROVE Ascending(c)
  <2> SUFFICES ASSUME NEW i \in 1..Len(c), NEW j \in 1..Len(c), i < j PROVE c[i] < c[j]
    BY DEF Ascending
  <2>1. CASE j \in 1..Len(a)
    <3>1. i \in 1..Len(a)
      BY <1>1, <2>1
    <3> QED BY <1>5, <1>8, <2>1, <3>1 DEF Ascending
  <2>2. CASE i \in 1..Len(a) /\ j - Len(a) \in 1..Len(b)
    <3>1. c[i] \in Elements(a) /\ c[j] \in Elements(b)
      BY <1>4, <1>5, <2>2 DEF Elements
    <3> QED BY <1>8, <3>1 DEF Before
  <2>3. CASE i - Len(a) \in 1..Len(b) /\ j - Len(a) \in 1..Len(b)
    <3>1. i - Len(a) < j - Len(a)
      BY <1>1
    <3> QED BY <1>4, <1>8, <2>3, <3>1 DEF Ascending
  <2> QED BY <1>3, <2>1, <2>2, <2>3
<1> QED BY <1>1, <1>2, <1>7, <1>8 DEF c

LEMMA PrefixPositions ==
  ASSUME NEW s \in Seq(Nat), NEW n \in 0..Len(s)
  PROVE  LET a == SubSeq(s, 1, n)
         IN  /\ a \in Seq(Nat) /\ Len(a) = n /\ \A i \in 1..n : a[i] = s[i]
             /\ Elements(a) \subseteq Elements(s)
             /\ Ascending(s) => Ascending(a)
<1> DEFINE a == SubSeq(s, 1, n)
<1>1. a \in Seq(Nat) /\ Len(a) = n /\ \A i \in 1..n : a[i] = s[i]
  OBVIOUS
<1>2. \A i \in 1..n : i \in 1..Len(s)
  OBVIOUS
<1> HIDE DEF a
<1>3. Elements(a) \subseteq Elements(s)
  BY <1>1, <1>2 DEF Elements
<1>4. Ascending(s) => Ascending(a)
  BY <1>1, <1>2 DEF Ascending
<1> QED BY <1>1, <1>3, <1>4 DEF a

LEMMA OrderedInit == Init => Ordered
<1> SUFFICES ASSUME Init PROVE Ordered
  OBVIOUS
<1>1. input = <<>> /\ typed = <<>> /\ buf = <<>> /\ str = <<>> /\ queue = <<>>
  BY DEF Init
<1> QED BY <1>1, EmptyPositions DEF Ordered, Before

LEMMA TypeOrdered == ASSUME Shape, Ordered, NEW c \in Chars, Type(c) PROVE Ordered'
<1> USE DEF terminal, channel, control
<1> DEFINE p == Len(input) + 1
<1>1. /\ typed' = Append(typed, p) /\ queue' = Append(queue, p) /\ Len(input') = Len(input) + 1
      /\ UNCHANGED <<buf, str>>
  BY DEF Type, Shape
<1>2. typed \in Seq(Nat) /\ queue \in Seq(Nat) /\ p \in Nat /\ Len(input) \in Nat /\ p = Len(input) + 1
  BY DEF Shape
<1> HIDE DEF p
<1>3. \A x \in Elements(str) \cup Elements(buf) \cup Elements(typed) \cup Elements(queue) :
          x < p /\ x \in 1..Len(input)
  BY <1>2 DEF Ordered
<1>4. /\ Elements(typed') = Elements(typed) \cup {p} /\ Ascending(typed')
      /\ Elements(queue') = Elements(queue) \cup {p} /\ Ascending(queue')
  BY <1>1, <1>2, <1>3, AppendPosition DEF Ordered
<1>5. Elements(str') = Elements(str) /\ Elements(buf') = Elements(buf)
  BY <1>1 DEF Elements
<1>6. /\ Elements(str)' \cup Elements(buf)' \cup Elements(typed)' \subseteq 1..Len(input)'
      /\ Elements(queue)' \subseteq 1..Len(input)'
  BY <1>1, <1>2, <1>3, <1>4, <1>5
<1>7. Ascending(str)' /\ Ascending(buf)' /\ Ascending(typed)' /\ Ascending(queue)'
  BY <1>1, <1>4 DEF Ordered, Ascending
<1>8. Before(str, buf)' /\ Before(str, typed)' /\ Before(buf, typed)'
  BY <1>3, <1>4, <1>5 DEF Ordered, Before
<1> QED BY <1>6, <1>7, <1>8 DEF Ordered

LEMMA FillOrdered == ASSUME Shape, Ordered, Fill PROVE Ordered'
<1> USE DEF terminal, channel, control
<1>1. /\ UNCHANGED <<input, str, queue>> /\ buf = <<>>
      /\ buf' = SubSeq(typed, 1, Ready) /\ typed' = SubSeq(typed, Ready + 1, Len(typed))
  BY DEF Fill
<1>2. typed \in Seq(Nat) /\ Ready \in 1..Len(typed)
  BY ReadyBound DEF Fill, Shape
<1>3. /\ Elements(typed) = Elements(buf') \cup Elements(typed')
      /\ Ascending(buf') /\ Ascending(typed') /\ Before(buf', typed')
  BY <1>1, <1>2, SplitPositions DEF Ordered
<1>4. Elements(buf) = {} /\ Elements(str') = Elements(str) /\ Elements(queue') = Elements(queue)
  BY <1>1, EmptyPositions
<1> QED BY <1>1, <1>3, <1>4 DEF Ordered, Before, Ascending

\* A call begins: its queue is what waits.
LEMMA StartOrdered ==
  ASSUME Shape, Ordered, UNCHANGED <<input, typed, buf>>, str' \in {str, <<>>}, queue' = buf \o typed
  PROVE  Ordered'
<1>1. Elements(str') \subseteq Elements(str) /\ Ascending(str')
  BY EmptyPositions DEF Ordered
<1>2. Elements(queue') = Elements(buf) \cup Elements(typed) /\ Ascending(queue')
  BY JoinPositions DEF Shape, Ordered
<1> QED BY <1>1, <1>2 DEF Ordered, Before, Ascending, Elements

LEMMA TakeOrdered == ASSUME Shape, Ordered, Take PROVE Ordered'
<1> USE DEF terminal, channel, control
<1> DEFINE x == Head(buf)
<1>1. /\ UNCHANGED <<input, typed, queue>>
      /\ buf # <<>> /\ buf' = Tail(buf) /\ str' = Append(str, x)
  BY DEF Take
<1>2. buf \in Seq(Nat) /\ str \in Seq(Nat)
  BY DEF Shape
<1>3. /\ x \in Nat /\ Elements(buf) = {x} \cup Elements(buf')
      /\ Ascending(buf') /\ \A y \in Elements(buf') : x < y
  BY <1>1, <1>2, TailPositions DEF Ordered
<1> HIDE DEF x
<1>4. \A y \in Elements(typed) : x < y
  BY <1>3 DEF Ordered, Before
<1>5. Elements(str') = Elements(str) \cup {x} /\ ((\A y \in Elements(str) : y < x) => Ascending(str'))
  BY <1>1, <1>2, <1>3, AppendPosition DEF Ordered
<1>6. /\ Elements(typed') = Elements(typed) /\ Ascending(typed')
      /\ Elements(queue') = Elements(queue) /\ Ascending(queue')
  BY <1>1 DEF Ordered
<1>7. /\ Elements(str)' \cup Elements(buf)' \cup Elements(typed)' \subseteq 1..Len(input)'
      /\ Elements(queue)' \subseteq 1..Len(input)'
  BY <1>1, <1>3, <1>5, <1>6 DEF Ordered
<1>8. Ascending(str)' /\ Ascending(buf)' /\ Ascending(typed)' /\ Ascending(queue)'
  BY <1>3, <1>5, <1>6 DEF Ordered, Before
<1>9. Before(str, buf)' /\ Before(str, typed)' /\ Before(buf, typed)'
  BY <1>3, <1>4, <1>5, <1>6 DEF Ordered, Before
<1> QED BY <1>7, <1>8, <1>9 DEF Ordered

\* A character is read and not stored, or none is; a destructor may discard.
LEMMA DropOrdered ==
  ASSUME Shape, Ordered, Suffix(queue, buf, typed), Flushes, UNCHANGED <<input, str>>,
         buf' = buf \/ (buf # <<>> /\ buf' = Tail(buf))
  PROVE  Ordered'
<1>1. Elements(buf') \subseteq Elements(buf) /\ Ascending(buf')
  <2>1. CASE buf' = buf
    BY <2>1 DEF Ordered
  <2>2. CASE buf # <<>> /\ buf' = Tail(buf)
    BY <2>2, TailPositions DEF Shape, Ordered
  <2> QED BY <2>1, <2>2
<1>2. Elements(typed') \subseteq Elements(typed) /\ Ascending(typed')
  BY EmptyPositions DEF Flushes, Ordered
<1>3. Elements(queue') \subseteq Elements(queue) /\ Ascending(queue')
  <2>1. queue \in Seq(Nat) /\ Len(queue) - Len(typed) \in 0..Len(queue)
    BY DEF Shape, Suffix
  <2> QED BY <2>1, PrefixPositions DEF Flushes, Ordered
<1>4. Elements(str') = Elements(str)
  BY DEF Elements
<1> QED BY <1>1, <1>2, <1>3, <1>4 DEF Ordered, Before, Ascending

LEMMA OrderedStep == Shape /\ Ordered /\ Suffix(queue, buf, typed) /\ [Next]_vars => Ordered'
<1> SUFFICES ASSUME Shape, Ordered, Suffix(queue, buf, typed), [Next]_vars PROVE Ordered'
  OBVIOUS
<1> USE DEF terminal, channel, control
<1>1. ASSUME UNCHANGED <<input, typed, buf, str, queue>> PROVE Ordered'
  BY <1>1 DEF Ordered, Before, Ascending, Elements
<1>2. CASE User
  BY <1>1, <1>2, TypeOrdered DEF User, Close
<1>3. CASE EnterScope \/ StartReading \/ Peek
  BY <1>1, <1>3 DEF EnterScope, StartReading, Peek
<1>4. CASE LeaveScope
  <2>1. Flushes
    BY <1>4, RestoreShape DEF LeaveScope
  <2> QED BY <1>4, <2>1, DropOrdered DEF LeaveScope
<1>5. CASE Prompt \/ \E d \in Delims : CinClear(d) \/ Getline(d)
  BY <1>5, StartOrdered DEF Prompt, CinClear, Getline
<1>6. CASE Fill
  BY <1>6, FillOrdered
<1>7. CASE Take
  BY <1>7, TakeOrdered
<1>8. Restore => Flushes
  BY DEF Restore, Flush, Flushes
<1>9. CASE Return \/ Terminate
  <2>1. Flushes
    BY <1>8, <1>9 DEF Return, Terminate, Flushes
  <2> QED BY <1>9, <2>1, DropOrdered DEF Return, Terminate
<1>10. CASE Skip \/ GetlineThrows
  <2>1. Flushes
    BY <1>10 DEF Skip, GetlineThrows, Flushes
  <2> QED BY <1>10, <2>1, DropOrdered DEF Skip, GetlineThrows
<1>11. CASE UNCHANGED vars
  BY <1>1, <1>11 DEF vars
<1> QED BY <1>2, <1>3, <1>4, <1>5, <1>6, <1>7, <1>9, <1>10, <1>11 DEF Next, Call, Step, Fault

-----------------------------------------------------------------------------
(***************************************************************************)
(* The queue of a call and what is left of it.                             *)
(***************************************************************************)
LEMMA StartSuffix ==
  ASSUME NEW b \in Seq(Nat), NEW w \in Seq(Nat) PROVE Suffix(b \o w, b, w)
<1>1. Len(b) \in Nat /\ Len(w) \in Nat /\ Len(b \o w) = Len(b) + Len(w)
  OBVIOUS
<1>2. /\ \A i \in 1..Len(b) : (b \o w)[i] = b[i]
      /\ \A i \in 1..Len(w) : (b \o w)[Len(b) + i] = w[i]
  BY JoinPositions
<1>3. /\ Len(b \o w) - Len(b) - Len(w) = 0 /\ Len(b \o w) - Len(w) = Len(b)
      /\ \A i \in 1..Len(b) : 0 + i = i
  BY <1>1
<1> QED BY <1>1, <1>2, <1>3 DEF Suffix

LEMMA TypeSuffix ==
  ASSUME NEW q \in Seq(Nat), NEW b \in Seq(Nat), NEW w \in Seq(Nat), NEW x \in Nat, Suffix(q, b, w)
  PROVE  Suffix(Append(q, x), b, Append(w, x))
<1>1. Len(q) \in Nat /\ Len(b) \in Nat /\ Len(w) \in Nat /\ Len(b) + Len(w) <= Len(q)
  BY DEF Suffix
<1> DEFINE r == Append(q, x)
           v == Append(w, x)
<1>2. /\ Len(r) = Len(q) + 1 /\ r[Len(q) + 1] = x /\ \A i \in 1..Len(q) : r[i] = q[i]
      /\ Len(v) = Len(w) + 1 /\ v[Len(w) + 1] = x /\ \A i \in 1..Len(w) : v[i] = w[i]
  BY AppendPosition
<1> HIDE DEF r, v
<1>3. /\ Len(r) - Len(b) - Len(v) = Len(q) - Len(b) - Len(w)
      /\ Len(r) - Len(v) = Len(q) - Len(w)
  BY <1>1, <1>2
<1>4. ASSUME NEW i \in 1..Len(b) PROVE b[i] = r[Len(q) - Len(b) - Len(w) + i]
  <2>1. Len(q) - Len(b) - Len(w) + i \in 1..Len(q)
    BY <1>1
  <2> QED BY <1>2, <2>1 DEF Suffix
<1>5. ASSUME NEW i \in 1..Len(v) PROVE v[i] = r[Len(q) - Len(w) + i]
  <2>1. CASE i \in 1..Len(w)
    <3>1. Len(q) - Len(w) + i \in 1..Len(q)
      BY <1>1, <2>1
    <3> QED BY <1>2, <2>1, <3>1 DEF Suffix
  <2>2. CASE i = Len(w) + 1
    <3>1. Len(q) - Len(w) + i = Len(q) + 1
      BY <1>1, <2>2
    <3> QED BY <1>2, <2>2, <3>1
  <2> QED BY <1>1, <1>2, <2>1, <2>2
<1>6. Len(b) + Len(v) <= Len(r)
  BY <1>1, <1>2
<1>7. Suffix(r, b, v)
  BY <1>3, <1>4, <1>5, <1>6 DEF Suffix
<1> QED BY <1>7 DEF r, v

LEMMA FillSuffix ==
  ASSUME NEW q \in Seq(Nat), NEW w \in Seq(Nat), NEW n \in 1..Len(w), Suffix(q, <<>>, w)
  PROVE  LET a == SubSeq(w, 1, n)
             b == SubSeq(w, n + 1, Len(w))
         IN  Suffix(q, a, b) /\ Len(a) + Len(b) = Len(w)
<1> DEFINE a == SubSeq(w, 1, n)
           b == SubSeq(w, n + 1, Len(w))
<1>1. /\ Len(q) \in Nat /\ Len(w) \in Nat /\ n \in Nat /\ n <= Len(w) /\ Len(w) <= Len(q)
      /\ \A i \in 1..Len(w) : w[i] \in Nat
  BY EmptyPositions DEF Suffix
<1>2. Len(a) = n /\ \A i \in 1..n : a[i] = w[i]
  BY <1>1
<1>3. Len(b) = Len(w) - n /\ \A i \in 1..(Len(w) - n) : b[i] = w[n + i]
  BY <1>1
<1> HIDE DEF a, b
<1>4. \A i \in 1..Len(w) : w[i] = q[Len(q) - Len(w) + i]
  BY DEF Suffix
<1>5. ASSUME NEW i \in 1..Len(a) PROVE a[i] = q[Len(q) - Len(a) - Len(b) + i]
  <2>1. i \in 1..Len(w) /\ Len(q) - Len(a) - Len(b) + i = Len(q) - Len(w) + i
    BY <1>1, <1>2, <1>3
  <2> QED BY <1>2, <1>4, <2>1
<1>6. ASSUME NEW i \in 1..Len(b) PROVE b[i] = q[Len(q) - Len(b) + i]
  <2>1. n + i \in 1..Len(w) /\ Len(q) - Len(w) + (n + i) = Len(q) - Len(b) + i
    BY <1>1, <1>3
  <2> QED BY <1>3, <1>4, <2>1
<1>7. Len(a) + Len(b) = Len(w)
  BY <1>1, <1>2, <1>3
<1> QED BY <1>1, <1>5, <1>6, <1>7 DEF Suffix, a, b

LEMMA TailSuffix ==
  ASSUME NEW q \in Seq(Nat), NEW b \in Seq(Nat), NEW w \in Seq(Nat), Suffix(q, b, w), b # <<>>
  PROVE  /\ Suffix(q, Tail(b), w) /\ Len(Tail(b)) = Len(b) - 1
         /\ Head(b) = q[Len(q) - Len(b) - Len(w) + 1]
<1>1. /\ Len(q) \in Nat /\ Len(b) \in Nat /\ Len(b) >= 1 /\ Len(w) \in Nat
      /\ Len(b) + Len(w) <= Len(q) /\ Len(Tail(b)) = Len(b) - 1 /\ Head(b) = b[1]
      /\ \A i \in 1..(Len(b) - 1) : Tail(b)[i] = b[i + 1]
  BY DEF Suffix
<1>2. Head(b) = q[Len(q) - Len(b) - Len(w) + 1]
  BY <1>1 DEF Suffix
<1>3. ASSUME NEW i \in 1..Len(Tail(b)) PROVE Tail(b)[i] = q[Len(q) - Len(Tail(b)) - Len(w) + i]
  <2>1. /\ i + 1 \in 1..Len(b) /\ Tail(b)[i] = b[i + 1]
        /\ Len(q) - Len(Tail(b)) - Len(w) + i = Len(q) - Len(b) - Len(w) + (i + 1)
    BY <1>1
  <2> QED BY <2>1 DEF Suffix
<1>4. Len(Tail(b)) + Len(w) <= Len(q)
  BY <1>1
<1> QED BY <1>1, <1>2, <1>3, <1>4 DEF Suffix

LEMMA FlushSuffix ==
  ASSUME NEW q \in Seq(Nat), NEW b \in Seq(Nat), NEW w \in Seq(Nat), Suffix(q, b, w)
  PROVE  LET p == SubSeq(q, 1, Len(q) - Len(w))
         IN  /\ Suffix(p, b, <<>>)
             /\ Len(p) = Len(q) - Len(w) /\ \A i \in 1..Len(p) : p[i] = q[i]
<1> DEFINE p == SubSeq(q, 1, Len(q) - Len(w))
<1>1. Len(q) \in Nat /\ Len(b) \in Nat /\ Len(w) \in Nat /\ Len(b) + Len(w) <= Len(q)
  BY DEF Suffix
<1>2. Len(q) - Len(w) \in 0..Len(q)
  BY <1>1
<1>3. Len(p) = Len(q) - Len(w) /\ \A i \in 1..Len(p) : p[i] = q[i]
  BY <1>2, PrefixPositions
<1> HIDE DEF p
<1>4. ASSUME NEW i \in 1..Len(b) PROVE b[i] = p[Len(p) - Len(b) - 0 + i]
  <2>1. /\ Len(p) - Len(b) - 0 + i \in 1..Len(p)
        /\ Len(p) - Len(b) - 0 + i = Len(q) - Len(b) - Len(w) + i
    BY <1>1, <1>3
  <2> QED BY <1>3, <2>1 DEF Suffix
<1>5. Len(b) + 0 <= Len(p)
  BY <1>1, <1>3
<1>6. Len(<<>>) = 0
  OBVIOUS
<1>7. Suffix(p, b, <<>>)
  BY <1>4, <1>5, <1>6 DEF Suffix
<1> QED BY <1>3, <1>7 DEF p

LEMMA SuffixEqual ==
  ASSUME NEW q \in Seq(Nat), NEW b \in Seq(Nat), NEW w \in Seq(Nat), Suffix(q, b, w)
  PROVE  b \o w = SubSeq(q, Len(q) - Len(b) - Len(w) + 1, Len(q))
<1> DEFINE k == Len(q) - Len(b) - Len(w)
           s == SubSeq(q, k + 1, Len(q))
<1>1. /\ Len(q) \in Nat /\ Len(b) \in Nat /\ Len(w) \in Nat /\ k \in Nat /\ k <= Len(q)
      /\ Len(b) + Len(w) = Len(q) - k
  BY DEF Suffix
<1>2. b \o w \in Seq(Nat) /\ Len(b \o w) = Len(b) + Len(w)
  BY JoinPositions
<1>6. k = Len(q) - Len(b) - Len(w)
  OBVIOUS
<1> HIDE DEF k
<1>3. s \in Seq(Nat) /\ Len(s) = Len(q) - k /\ \A i \in 1..(Len(q) - k) : s[i] = q[k + i]
  BY <1>1
<1> HIDE DEF s
<1>4. ASSUME NEW i \in 1..Len(b \o w) PROVE (b \o w)[i] = s[i]
  <2>1. CASE i \in 1..Len(b)
    <3>1. (b \o w)[i] = b[i]
      BY <2>1, JoinPositions
    <3>2. b[i] = q[k + i]
      BY <2>1 DEF Suffix, k
    <3>3. i \in 1..(Len(q) - k)
      BY <1>1, <1>2
    <3> QED BY <1>3, <3>1, <3>2, <3>3
  <2>2. CASE i - Len(b) \in 1..Len(w)
    <3>1. (b \o w)[Len(b) + (i - Len(b))] = w[i - Len(b)]
      BY <2>2, JoinPositions
    <3>2. w[i - Len(b)] = q[Len(q) - Len(w) + (i - Len(b))]
      BY <2>2 DEF Suffix
    <3>3. Len(b) + (i - Len(b)) = i /\ Len(q) - Len(w) + (i - Len(b)) = k + i /\ i \in 1..(Len(q) - k)
      BY <1>1, <1>2, <1>6
    <3>4. s[i] = q[k + i]
      BY <1>3, <3>3
    <3> QED BY <3>1, <3>2, <3>3, <3>4
  <2> QED BY <1>1, <1>2, <2>1, <2>2
<1>5. b \o w = s
  BY <1>1, <1>2, <1>3, <1>4, SeqEqual
<1> QED BY <1>5 DEF s, k

\* How the queue, what is left of it and what was taken change together.
Longer ==
    /\ Suffix(queue, buf, typed)'
    /\ Taken' = Taken
    /\ \A i \in 1..Len(queue) : i \in 1..Len(queue') => queue'[i] = queue[i]
    /\ AtEnd => Len(queue') = Len(queue) /\ buf' = <<>> /\ typed' = <<>>

LEMMA TakenBound ==
  ASSUME Shape, Suffix(queue, buf, typed)
  PROVE  /\ Taken \in Nat /\ Taken <= Len(queue) /\ Len(queue) \in Nat
         /\ AtEnd => Taken = Len(queue)
         /\ Taken = Len(queue) => buf = <<>> /\ typed = <<>>
         /\ buf # <<>> => Taken < Len(queue) /\ Head(buf) = queue[Taken + 1]
<1>1. /\ queue \in Seq(Nat) /\ buf \in Seq(Nat) /\ typed \in Seq(Nat)
      /\ Len(queue) \in Nat /\ Len(buf) \in Nat /\ Len(typed) \in Nat
      /\ (buf # <<>> => Len(buf) >= 1) /\ (typed # <<>> => Len(typed) >= 1)
  BY DEF Shape
<1>2. Taken \in Nat /\ Taken <= Len(queue)
  BY <1>1 DEF Suffix, Taken
<1>3. AtEnd => Taken = Len(queue)
  BY <1>1 DEF AtEnd, Taken
<1>4. Taken = Len(queue) => buf = <<>> /\ typed = <<>>
  BY <1>1 DEF Taken
<1>5. buf # <<>> => Taken < Len(queue) /\ Head(buf) = queue[Taken + 1]
  BY <1>1, TailSuffix DEF Taken
<1> QED BY <1>1, <1>2, <1>3, <1>4, <1>5

LEMMA TypeLonger ==
  ASSUME Shape, Suffix(queue, buf, typed), NEW c \in Chars, Type(c)
  PROVE  Longer /\ Len(queue') = Len(queue) + 1 /\ \A i \in 1..Len(input) : input'[i] = input[i]
<1> USE DEF channel
<1> DEFINE p == Len(input) + 1
<1>1. /\ queue' = Append(queue, p) /\ typed' = Append(typed, p) /\ buf' = buf /\ ~eof
      /\ queue \in Seq(Nat) /\ typed \in Seq(Nat) /\ buf \in Seq(Nat) /\ p \in Nat
  BY DEF Type, Shape
<1>2. \A i \in 1..Len(input) : input'[i] = input[i]
  BY DEF Type, Shape
<1> HIDE DEF p
<1>3. Suffix(queue, buf, typed)'
  BY <1>1, TypeSuffix
<1>4. /\ Len(queue') = Len(queue) + 1 /\ Len(typed') = Len(typed) + 1
      /\ \A i \in 1..Len(queue) : queue'[i] = queue[i]
  BY <1>1, AppendPosition
<1>5. Taken' = Taken
  BY <1>1, <1>4 DEF Taken
<1> QED BY <1>1, <1>2, <1>3, <1>4, <1>5 DEF Longer, AtEnd

LEMMA FillLonger ==
  ASSUME Shape, Suffix(queue, buf, typed), Fill PROVE Longer
<1> USE DEF channel
<1>1. /\ queue' = queue /\ buf = <<>>
      /\ buf' = SubSeq(typed, 1, Ready) /\ typed' = SubSeq(typed, Ready + 1, Len(typed))
  BY DEF Fill
<1>2. queue \in Seq(Nat) /\ typed \in Seq(Nat) /\ Ready \in 1..Len(typed)
  BY ReadyBound DEF Fill, Shape
<1>3. Suffix(queue, buf', typed') /\ Len(buf') + Len(typed') = Len(typed)
  BY <1>1, <1>2, FillSuffix
<1>4. Len(buf') \in Nat /\ Len(typed') \in Nat /\ Len(buf) = 0
  <2>1. buf' \in Seq(Nat) /\ typed' \in Seq(Nat)
    BY <1>1, <1>2, SplitPositions
  <2> QED BY <1>1, <2>1
<1>5. Taken' = Taken
  <2>1. Taken = Len(queue) - 0 - Len(typed) /\ Taken' = Len(queue) - Len(buf') - Len(typed')
    BY <1>1, <1>4 DEF Taken
  <2>2. Len(queue) \in Nat /\ Len(typed) \in Nat
    BY <1>2
  <2> QED BY <1>3, <1>4, <2>1, <2>2
<1>6. ~AtEnd
  BY <1>2 DEF AtEnd
<1> QED BY <1>1, <1>3, <1>5, <1>6 DEF Longer

\* Discarding is what waits, and nothing that was taken.
LEMMA FlushLonger ==
  ASSUME Shape, Suffix(queue, buf, typed), Flushes, buf' = buf
  PROVE  Longer /\ Len(queue') >= Taken
<1>1. queue \in Seq(Nat) /\ buf \in Seq(Nat) /\ typed \in Seq(Nat)
  BY DEF Shape
<1>2. CASE UNCHANGED <<typed, queue>>
  BY <1>1, <1>2, TakenBound DEF Longer, Taken, Suffix, AtEnd
<1>3. CASE typed' = <<>> /\ queue' = SubSeq(queue, 1, Len(queue) - Len(typed))
  <2>1. /\ Suffix(queue', buf, <<>>)
        /\ Len(queue') = Len(queue) - Len(typed) /\ \A i \in 1..Len(queue') : queue'[i] = queue[i]
    BY <1>1, <1>3, FlushSuffix
  <2>2. Len(queue) \in Nat /\ Len(buf) \in Nat /\ Len(typed) \in Nat /\ Len(typed') = 0
    BY <1>1, <1>3
  <2>3. Taken' = Taken /\ Len(queue') >= Taken
    BY <2>1, <2>2 DEF Taken
  <2>4. AtEnd => Len(queue') = Len(queue) /\ buf' = <<>> /\ typed' = <<>>
    BY <1>3, <2>1, <2>2 DEF AtEnd
  <2> QED BY <1>3, <2>1, <2>3, <2>4 DEF Longer
<1> QED BY <1>2, <1>3 DEF Flushes

\* A character is taken; a destructor may discard others at once.
LEMMA TailTaken ==
  ASSUME Shape, Suffix(queue, buf, typed), Flushes, buf # <<>>, buf' = Tail(buf)
  PROVE  /\ Suffix(queue, buf, typed)' /\ Taken' = Taken + 1 /\ Len(queue') >= Taken'
         /\ \A i \in 1..Len(queue') : i \in 1..Len(queue) /\ queue'[i] = queue[i]
<1>1. /\ queue \in Seq(Nat) /\ buf \in Seq(Nat) /\ typed \in Seq(Nat)
      /\ Tail(buf) \in Seq(Nat) /\ Len(queue) \in Nat /\ Len(buf) \in Nat /\ Len(typed) \in Nat
  BY TailPositions DEF Shape
<1>2. Suffix(queue, Tail(buf), typed) /\ Len(Tail(buf)) = Len(buf) - 1
  BY <1>1, TailSuffix
<1>3. CASE UNCHANGED <<typed, queue>>
  BY <1>1, <1>2, <1>3 DEF Taken, Suffix
<1>4. CASE typed' = <<>> /\ queue' = SubSeq(queue, 1, Len(queue) - Len(typed))
  <2>1. /\ Suffix(queue', Tail(buf), <<>>)
        /\ Len(queue') = Len(queue) - Len(typed) /\ \A i \in 1..Len(queue') : queue'[i] = queue[i]
    BY <1>1, <1>2, <1>4, FlushSuffix
  <2>2. Len(typed') = 0 /\ Len(buf') = Len(buf) - 1
    BY <1>2, <1>4
  <2>3. Taken' = Taken + 1 /\ Len(queue') >= Taken'
    BY <1>1, <1>2, <2>1, <2>2 DEF Taken, Suffix
  <2> QED BY <1>1, <1>4, <2>1, <2>3
<1> QED BY <1>3, <1>4 DEF Flushes

LEMMA StartTaken ==
  ASSUME Shape, UNCHANGED <<buf, typed>>, queue' = buf \o typed
  PROVE  Suffix(queue, buf, typed)' /\ Taken' = 0
<1>1. buf \in Seq(Nat) /\ typed \in Seq(Nat)
  BY DEF Shape
<1>2. Len(queue') = Len(buf) + Len(typed) /\ Len(buf) \in Nat /\ Len(typed) \in Nat
  BY <1>1, JoinPositions
<1> QED BY <1>1, <1>2, StartSuffix DEF Taken

LEMMA RestoreFlushes == Restore => Flushes
BY DEF Restore, Flush, Flushes

LEMMA SuffixInit == Init => Suffix(queue, buf, typed)
BY DEF Init, Suffix

LEMMA SuffixStep ==
  Shape /\ Suffix(queue, buf, typed) /\ [Next]_vars => Suffix(queue, buf, typed)'
<1> SUFFICES ASSUME Shape, Suffix(queue, buf, typed), [Next]_vars PROVE Suffix(queue, buf, typed)'
  OBVIOUS
<1> USE DEF terminal, channel, control
<1>1. ASSUME UNCHANGED <<typed, buf, queue>> PROVE Suffix(queue, buf, typed)'
  BY <1>1 DEF Suffix
<1>2. CASE User
  BY <1>1, <1>2, TypeLonger DEF User, Close, Longer
<1>3. CASE EnterScope \/ StartReading \/ Peek
  BY <1>1, <1>3 DEF EnterScope, StartReading, Peek
<1>4. CASE LeaveScope
  BY <1>4, RestoreFlushes, FlushLonger DEF LeaveScope, Longer
<1>5. CASE Prompt \/ \E d \in Delims : CinClear(d) \/ Getline(d)
  BY <1>5, StartTaken DEF Prompt, CinClear, Getline
<1>6. CASE Fill
  BY <1>6, FillLonger DEF Longer
<1>7. CASE Take \/ GetlineThrows
  BY <1>7, TailTaken DEF Take, GetlineThrows, Flushes
<1>8. CASE Return \/ Terminate
  <2>1. Flushes
    BY <1>8, RestoreFlushes DEF Return, Terminate, Flushes
  <2>2. buf' = buf \/ (buf # <<>> /\ buf' = Tail(buf))
    BY <1>8 DEF Return, Terminate
  <2> QED BY <2>1, <2>2, FlushLonger, TailTaken DEF Longer
<1>9. CASE Skip
  <2>1. Flushes
    BY <1>9 DEF Skip, Flushes
  <2>2. buf' = buf \/ (buf # <<>> /\ buf' = Tail(buf))
    BY <1>9 DEF Skip
  <2> QED BY <2>1, <2>2, FlushLonger, TailTaken DEF Longer
<1>10. CASE UNCHANGED vars
  BY <1>1, <1>10 DEF vars
<1> QED BY <1>2, <1>3, <1>4, <1>5, <1>6, <1>7, <1>8, <1>9, <1>10 DEF Next, Call, Step, Fault

\* The characters a call has looked at stay what they are, and once the input
\* has ended there will be no more.
Kept ==
    /\ UNCHANGED <<source, delim, call>>
    /\ Len(queue') >= Taken
    /\ \A i \in 1..Len(queue) : /\ i \in 1..Len(queue') => queue'[i] = queue[i]
                                /\ input'[queue[i]] = input[queue[i]]
    /\ eof => eof'
    /\ eof /\ Taken = Len(queue) => Len(queue') = Len(queue)
    /\ call = "getline" => (queue = <<>> <=> queue' = <<>>)

LEMMA SameKept ==
  ASSUME Shape, Suffix(queue, buf, typed), UNCHANGED <<source, delim, call, queue, input, eof>> PROVE Kept
BY TakenBound DEF Kept

LEMMA ReachesKept ==
  ASSUME Shape, Suffix(queue, buf, typed), Kept, NEW n \in 0..Taken, NEW c, Reaches(n, c)
  PROVE  Reaches(n, c)'
<1>1. Taken \in Nat /\ Taken <= Len(queue) /\ Len(queue) \in Nat /\ Len(queue') >= Taken
  BY TakenBound DEF Kept
<1>2. queue \in Seq(Nat)
  BY DEF Shape
<1>3. \A i \in 1..n : input'[queue'[i]] = input[queue[i]]
  <2> SUFFICES ASSUME NEW i \in 1..n PROVE input'[queue'[i]] = input[queue[i]]
    OBVIOUS
  <2>1. i \in 1..Len(queue)
    BY <1>1
  <2>2. i \in 1..Len(queue')
    <3>1. Len(queue') \in Nat \/ i \in 1..Len(queue')
      BY <1>1 DEF Kept
    <3> QED BY <1>1, <3>1
  <2> QED BY <2>1, <2>2 DEF Kept
<1>4. n > 0 => n \in 1..n
  BY <1>1
<1>5. \A i \in 1..(n - 1) : i \in 1..n
  BY <1>1
<1>6. eof /\ n = Len(queue) => eof' /\ n = Len(queue')
  BY <1>1 DEF Kept
<1> QED BY <1>3, <1>4, <1>5, <1>6 DEF Reaches

LEMMA BlankKept ==
  ASSUME Shape, Shape', Kept, call = "getline", queue # <<>>
  PROVE  queue' # <<>> /\ (Blank(input[queue[1]])' <=> Blank(input[queue[1]]))
<1>1. queue' # <<>>
  BY DEF Kept
<1>2. 1 \in 1..Len(queue) /\ 1 \in 1..Len(queue')
  BY <1>1 DEF Shape
<1> QED BY <1>1, <1>2 DEF Kept, Blank

LEMMA LeadsKept ==
  ASSUME Shape, Shape', Suffix(queue, buf, typed), Kept, NEW n \in 0..Taken, Leads(n)
  PROVE  Leads(n)'
<1>1. CASE call = "getline" /\ queue # <<>>
  <2>1. Reaches(n, "NL") => Reaches(n, "NL")'
    BY ReachesKept
  <2> QED BY <1>1, <2>1, BlankKept DEF Leads, Kept
<1>2. CASE ~(call = "getline" /\ queue # <<>>)
  BY <1>2 DEF Leads, Kept
<1> QED BY <1>1, <1>2

\* The String stays what it is as well, however much more is taken.
LEMMA StoredKept ==
  ASSUME Shape, Shape', Suffix(queue, buf, typed), Kept, str' = str, NEW n \in 0..Taken, Stored(n),
         Taken' \in Nat, Taken' >= Taken
  PROVE  Stored(n)'
<1>1. /\ Taken \in Nat /\ Len(str) \in Nat /\ n + Len(str) <= Taken /\ Taken <= Len(queue)
      /\ Len(queue) \in Nat /\ Len(queue') \in Nat /\ Len(queue') >= Taken
  <2>1. Len(str) \in Nat /\ Len(queue') \in Nat
    BY DEF Shape
  <2>2. n + Len(str) <= Taken
    BY DEF Stored
  <2>3. Len(queue') >= Taken
    BY DEF Kept
  <2>4. Taken \in Nat /\ Taken <= Len(queue) /\ Len(queue) \in Nat
    BY TakenBound
  <2> QED BY <2>1, <2>2, <2>3, <2>4
<1>2. n + Len(str) <= Taken'
  BY <1>1
<1>3. ASSUME NEW i \in 1..Len(str) PROVE str[i] = queue'[n + i] /\ ~Ends(input[str[i]])'
  <2>1. n + i \in 1..Len(queue) /\ n + i \in 1..Len(queue')
    BY <1>1
  <2>2. str[i] = queue[n + i] /\ ~Ends(input[str[i]])
    BY DEF Stored
  <2>3. queue'[n + i] = queue[n + i] /\ input'[str[i]] = input[str[i]]
    BY <2>1, <2>2 DEF Kept
  <2> QED BY <2>2, <2>3 DEF Ends, Kept
<1>4. Leads(n)'
  BY LeadsKept DEF Stored
<1> QED BY <1>2, <1>3, <1>4 DEF Stored

\* What leaves a call where it is leaves it what it has made of its characters.
LEMMA LineKept ==
  ASSUME Shape, Shape', Suffix(queue, buf, typed), InLine, Kept, UNCHANGED <<pc, str>>,
         Taken' = Taken, AtEnd => AtEnd'
  PROVE  InLine'
<1>1. Taken \in Nat /\ Taken <= Len(queue) /\ Len(queue) \in Nat /\ Len(queue') \in Nat
  BY TakenBound DEF Shape
<1>2. \A i \in 1..Taken : i \in 1..Len(queue) /\ i \in 1..Len(queue')
  BY <1>1 DEF Kept
<1>3. \A i \in 1..Taken : input'[queue'[i]] = input[queue[i]]
  BY <1>2 DEF Kept
<1>4. SkipsTo' = SkipsTo /\ call' = call /\ delim' = delim
  BY DEF Kept, SkipsTo
<1>5. ASSUME NEW n \in 0..Taken, Stored(n) PROVE Stored(n)' /\ n \in 0..Taken'
  BY <1>1, <1>5, StoredKept
<1>6. ASSUME NEW n \in 0..Taken, Returned(n) PROVE Returned(n)'
  <2>1. Stored(n)'
    BY <1>5, <1>6 DEF Returned
  <2>2. CASE Taken = n + Len(str) + 1 /\ Ends(input[queue[Taken]])
    <3>1. Len(str) \in Nat /\ n \in Nat
      BY <1>1 DEF Shape
    <3>2. Taken \in 1..Taken
      BY <1>1, <2>2, <3>1
    <3>3. Ends(input[queue[Taken]])'
      BY <1>3, <1>4, <2>2, <3>2 DEF Ends
    <3> QED BY <2>1, <2>2, <3>3 DEF Returned
  <2>3. CASE Taken = n + Len(str) /\ AtEnd
    BY <2>1, <2>3 DEF Returned
  <2> QED BY <1>6, <2>2, <2>3 DEF Returned
<1>7. (pc \in {"prompted", "peeking"} => Taken = 0 /\ str = <<>>)'
  BY DEF InLine
<1>8. (pc = "skipping" => /\ \A i \in 1..Taken : input[queue[i]] # SkipsTo
                          /\ call = "getline" => str = <<>> /\ queue # <<>> /\ Blank(input[queue[1]]))'
  BY <1>3, <1>4, BlankKept DEF InLine
<1>9. (pc = "reading" => \E n \in 0..Taken : Stored(n) /\ Taken = n + Len(str))'
  BY <1>5 DEF InLine
<1>10. (pc = "idle" /\ call \in {"read", "getline"} => \E n \in 0..Taken : Returned(n))'
  BY <1>4, <1>6 DEF InLine
<1>11. (pc = "idle" /\ call = "clear" => Reaches(Taken, delim))'
  <2>1. Taken \in 0..Taken
    BY <1>1
  <2> QED BY <1>4, <2>1, ReachesKept DEF InLine
<1>12. (pc \in {"reading", "idle"} /\ call = "getline" => queue # <<>> \/ eof)'
  BY DEF InLine, Kept
<1>13. (pc = "reading" => call \in {"read", "getline"})'
  BY <1>4 DEF InLine
<1> QED BY <1>7, <1>8, <1>9, <1>10, <1>11, <1>12, <1>13 DEF InLine

\* A getline that is looking at its characters or has returned has looked at
\* the first, if there is one.
LEMMA GetlineLooked ==
  ASSUME Shape, Suffix(queue, buf, typed), InLine, pc = "idle", call = "getline", queue # <<>>
  PROVE  Taken >= 1
<1>1. Taken \in Nat /\ Len(queue) >= 1 /\ Len(str) \in Nat
  BY TakenBound DEF Shape
<1>2. PICK n \in 0..Taken : Returned(n)
  BY DEF InLine
<1> QED BY <1>1, <1>2, TakenBound DEF Returned

LEMMA LineInit == Init => InLine
BY DEF Init, InLine

LEMMA StartReadingLine ==
  ASSUME Shape, Scoped, Suffix(queue, buf, typed), InLine, StartReading PROVE InLine'
<1> USE DEF channel
<1>1. /\ pc = "prompted" /\ pc' = "reading" /\ call = "read" /\ call' = call
      /\ UNCHANGED <<buf, typed, queue, str>>
  BY DEF StartReading, Scoped
<1>2. Taken = 0 /\ str = <<>> /\ Taken' = 0
  BY <1>1 DEF InLine, Taken
<1>3. Stored(0)' /\ Len(str') = 0
  BY <1>1, <1>2 DEF Stored, Leads
<1>4. (pc = "reading" => \E n \in 0..Taken : Stored(n) /\ Taken = n + Len(str))'
  BY <1>2, <1>3
<1> QED BY <1>1, <1>4 DEF InLine

LEMMA PeekLine ==
  ASSUME Shape, Scoped, Suffix(queue, buf, typed), InLine, Peek PROVE InLine'
<1> USE DEF channel
<1>1. /\ pc = "peeking" /\ call = "getline" /\ call' = call
      /\ UNCHANGED <<source, input, eof, delim, buf, typed, queue, str>>
  BY DEF Peek, Scoped
<1>2. Taken = 0 /\ str = <<>> /\ Taken' = 0
  BY <1>1 DEF InLine, Taken
<1>3. buf # <<>> => queue # <<>> /\ Head(buf) = queue[1]
  BY <1>2, TakenBound
<1>4. AtEnd => queue = <<>> /\ eof
  BY <1>2, TakenBound DEF AtEnd, Shape
<1>5. CASE buf # <<>> /\ StartsBlank
  <2>1. pc' = "skipping" /\ Blank(input[queue[1]])
    BY <1>3, <1>5 DEF Peek, StartsBlank, Next1
  <2> QED BY <1>1, <1>2, <1>3, <1>5, <2>1 DEF InLine, Blank
<1>6. CASE ~(buf # <<>> /\ StartsBlank)
  <2>1. pc' = "reading" /\ (buf # <<>> \/ AtEnd)
    BY <1>6 DEF Peek
  <2>2. queue # <<>> => ~Blank(input[queue[1]])
    BY <1>3, <1>4, <1>6, <2>1 DEF StartsBlank, Next1
  <2>3. Stored(0)' /\ Len(str') = 0
    BY <1>1, <1>2, <2>2 DEF Stored, Leads, Blank
  <2>4. (pc = "reading" => \E n \in 0..Taken : Stored(n) /\ Taken = n + Len(str))'
    BY <1>2, <2>3
  <2>5. (queue # <<>> \/ eof)'
    BY <1>1, <1>3, <1>4, <2>1
  <2> QED BY <1>1, <2>1, <2>4, <2>5 DEF InLine
<1> QED BY <1>5, <1>6

LEMMA TakeLine ==
  ASSUME Shape, Shape', Suffix(queue, buf, typed), InLine, Take PROVE InLine'
<1> USE DEF channel, control
<1>1. /\ pc = "reading" /\ UNCHANGED <<source, input, eof, pc, call, delim, typed, queue>>
      /\ buf # <<>> /\ buf' = Tail(buf) /\ str' = Append(str, Head(buf)) /\ ~Ends(input[Head(buf)])
  BY DEF Take, Next1
<1>2. PICK n \in 0..Taken : Stored(n) /\ Taken = n + Len(str)
  BY <1>1 DEF InLine
<1>3. Taken \in Nat /\ Taken' = Taken + 1 /\ Head(buf) = queue[Taken + 1]
  BY <1>1, TakenBound, TailTaken DEF Flushes
<1>4. /\ str \in Seq(Nat) /\ Head(buf) \in Nat /\ Len(str) \in Nat
      /\ Len(str') = Len(str) + 1 /\ str'[Len(str) + 1] = Head(buf)
      /\ \A i \in 1..Len(str) : str'[i] = str[i]
  BY <1>1, AppendPosition, TailPositions DEF Shape
<1>5. Leads(n)'
  BY <1>1, <1>2, SameKept, LeadsKept DEF Stored
<1>6. ASSUME NEW i \in 1..(Len(str) + 1) PROVE str'[i] = queue[n + i] /\ ~Ends(input[str'[i]])
  <2>1. CASE i \in 1..Len(str)
    BY <1>2, <1>4, <2>1 DEF Stored
  <2>2. CASE i = Len(str) + 1
    <3>1. n + i = Taken + 1
      BY <1>2, <1>3, <1>4, <2>2
    <3> QED BY <1>1, <1>3, <1>4, <2>2, <3>1
  <2> QED BY <1>4, <2>1, <2>2
<1>7. /\ n \in 0..(Taken + 1) /\ Taken' = n + Len(str')
      /\ n + Len(str') <= Taken'
  BY <1>2, <1>3, <1>4
<1>8. Stored(n)'
  BY <1>1, <1>4, <1>5, <1>6, <1>7 DEF Stored, Ends
<1>9. (\E m \in 0..Taken : Stored(m) /\ Taken = m + Len(str))'
  BY <1>3, <1>7, <1>8
<1> QED BY <1>1, <1>9 DEF InLine

LEMMA ReturnLine ==
  ASSUME Shape, Shape', Suffix(queue, buf, typed), Ordered, InLine, Return PROVE InLine'
<1> USE DEF terminal
<1>1. /\ pc = "reading" /\ pc' = "idle" /\ UNCHANGED <<source, input, eof, call, delim, str>>
      /\ call \in {"read", "getline"} /\ Flushes /\ (call = "getline" => queue' = queue)
  BY RestoreFlushes DEF Return, Flushes, InLine
<1>2. PICK n \in 0..Taken : Stored(n) /\ Taken = n + Len(str)
  BY <1>1 DEF InLine
<1>3. /\ Taken \in Nat /\ Taken <= Len(queue) /\ Len(queue) \in Nat /\ Len(str) \in Nat
  BY TakenBound DEF Shape
<1>4. CASE buf # <<>> /\ Ends(Next1) /\ buf' = Tail(buf)
  <2>1. /\ Taken' = Taken + 1 /\ Len(queue') >= Taken + 1
        /\ \A i \in 1..Len(queue') : i \in 1..Len(queue) /\ queue'[i] = queue[i]
        /\ Taken < Len(queue) /\ Head(buf) = queue[Taken + 1]
    BY <1>1, <1>4, TailTaken, TakenBound
  <2>2. Len(queue') \in Nat
    BY DEF Shape
  <2>3. Kept
    BY <1>1, <1>3, <2>1, <2>2 DEF Kept
  <2>4. Stored(n)'
    BY <1>1, <1>2, <1>3, <2>1, <2>3, StoredKept
  <2>5. Taken + 1 \in 1..Len(queue')
    BY <1>3, <2>1, <2>2
  <2>6. queue'[Taken'] = Head(buf)
    BY <2>1, <2>5
  <2>7. Ends(input[queue[Taken]])'
    BY <1>1, <1>4, <2>6 DEF Ends, Next1
  <2>8. n \in 0..Taken' /\ Taken' = n + Len(str') + 1
    BY <1>1, <1>2, <1>3, <2>1
  <2>9. (\E m \in 0..Taken : Returned(m))'
    BY <2>4, <2>7, <2>8 DEF Returned
  <2>10. (call = "getline" => queue # <<>> \/ eof)'
    BY <1>1 DEF InLine
  <2> QED BY <1>1, <2>9, <2>10 DEF InLine
<1>5. CASE AtEnd /\ UNCHANGED buf
  <2>1. /\ Taken' = Taken /\ Len(queue') >= Taken /\ Len(queue') = Len(queue) /\ AtEnd'
        /\ \A i \in 1..Len(queue) : i \in 1..Len(queue') => queue'[i] = queue[i]
    BY <1>1, <1>5, FlushLonger DEF Longer, AtEnd
  <2>2. Kept
    BY <1>1, <2>1 DEF Kept
  <2>3. Stored(n)'
    BY <1>1, <1>2, <1>3, <2>1, <2>2, StoredKept
  <2>4. (\E m \in 0..Taken : Returned(m))'
    BY <1>1, <1>2, <2>1, <2>3 DEF Returned
  <2>5. (call = "getline" => queue # <<>> \/ eof)'
    BY <1>1 DEF InLine
  <2> QED BY <1>1, <2>4, <2>5 DEF InLine
<1> QED BY <1>4, <1>5 DEF Return

LEMMA SkipLine ==
  ASSUME Shape, Scoped, Suffix(queue, buf, typed), InLine, Skip PROVE InLine'
<1> USE DEF channel
<1>1. /\ pc = "skipping" /\ UNCHANGED <<source, input, eof, call, delim, typed, queue, str>>
      /\ SkipsTo' = SkipsTo /\ call # "read" /\ Flushes
  BY DEF Skip, SkipsTo, Scoped, Flushes
<1>2. Taken \in Nat /\ Len(queue) \in Nat /\ Taken <= Len(queue)
  BY TakenBound
<1>3. /\ \A i \in 1..Taken : input[queue[i]] # SkipsTo
      /\ call = "getline" => str = <<>> /\ queue # <<>> /\ Blank(input[queue[1]])
  BY <1>1 DEF InLine
<1>4. ASSUME NEW n \in Nat, Taken' = n, Reaches(n, SkipsTo), pc' = (IF call = "getline" THEN "reading" ELSE "idle")
      PROVE  InLine'
  <2>1. CASE call = "getline"
    <3>1. SkipsTo = "NL" /\ Leads(n)' /\ Len(str') = 0
      BY <1>1, <1>3, <1>4, <2>1 DEF SkipsTo, Leads, Reaches, Blank
    <3>2. Stored(n)'
      BY <1>4, <3>1 DEF Stored
    <3>3. (\E m \in 0..Taken : Stored(m) /\ Taken = m + Len(str))'
      BY <1>4, <3>1, <3>2
    <3> QED BY <1>1, <1>3, <1>4, <2>1, <3>3 DEF InLine
  <2>2. CASE call # "getline"
    BY <1>1, <1>4, <2>2 DEF InLine, Reaches, SkipsTo
  <2> QED BY <2>1, <2>2
<1>5. CASE buf # <<>>
  <2>1. Taken' = Taken + 1 /\ Head(buf) = queue[Taken + 1]
    BY <1>1, <1>5, TailTaken, TakenBound DEF Skip
  <2>2. CASE Next1 # SkipsTo
    <3>1. pc' = "skipping"
      BY <1>5, <2>2 DEF Skip
    <3>2. \A i \in 1..(Taken + 1) : i \in 1..Taken \/ i = Taken + 1
      BY <1>2
    <3>3. \A i \in 1..(Taken + 1) : input[queue[i]] # SkipsTo
      BY <1>3, <2>1, <2>2, <3>2 DEF Next1
    <3> QED BY <1>1, <1>3, <2>1, <3>1, <3>3 DEF InLine, Blank
  <2>3. CASE Next1 = SkipsTo
    <3>1. Reaches(Taken + 1, SkipsTo) /\ Taken + 1 \in Nat
      BY <1>2, <1>3, <2>1, <2>3 DEF Reaches, Next1
    <3>2. pc' = IF call = "getline" THEN "reading" ELSE "idle"
      BY <2>3 DEF Skip
    <3> QED BY <1>4, <2>1, <3>1, <3>2
  <2> QED BY <2>2, <2>3
<1>6. CASE buf = <<>>
  <2>1. AtEnd /\ UNCHANGED buf /\ pc' = IF call = "getline" THEN "reading" ELSE "idle"
    BY <1>6 DEF Skip
  <2>2. Taken = Len(queue) /\ Taken' = Taken /\ eof
    BY <1>1, <2>1, TakenBound DEF AtEnd, Taken
  <2>3. Reaches(Taken, SkipsTo)
    BY <1>2, <1>3, <2>2 DEF Reaches
  <2> QED BY <1>2, <1>4, <2>1, <2>2, <2>3
<1> QED BY <1>5, <1>6

LEMMA LineStep == IInv /\ [Next]_vars => InLine'
<1> SUFFICES ASSUME IInv, [Next]_vars PROVE InLine'
  OBVIOUS
<1> USE DEF terminal, channel, control
<1>1. Shape /\ Scoped /\ Ordered /\ Suffix(queue, buf, typed) /\ InLine /\ Shape'
  BY ShapeStep DEF IInv
<1>2. ASSUME UNCHANGED <<source, call, delim, str, pc, typed, buf, queue, input>>, eof => eof'
      PROVE  InLine'
  <2>1. Taken' = Taken /\ (AtEnd => AtEnd')
    BY <1>2 DEF Taken, AtEnd
  <2>2. Kept
    BY <1>1, <1>2, TakenBound DEF Kept
  <2> QED BY <1>1, <1>2, <2>1, <2>2, LineKept
<1>3. ASSUME NEW c \in Chars, Type(c) PROVE InLine'
  <2>1. /\ Longer /\ Len(queue') = Len(queue) + 1
        /\ \A i \in 1..Len(input) : input'[i] = input[i]
    BY <1>1, <1>3, TypeLonger
  <2>2. UNCHANGED <<source, call, delim, str, pc, eof>> /\ ~eof
    BY <1>3 DEF Type
  <2>3. \A i \in 1..Len(queue) : queue[i] \in 1..Len(input)
    BY <1>1 DEF Ordered, Elements
  <2>4. queue' # <<>> /\ Len(queue) \in Nat /\ Taken \in Nat /\ Taken <= Len(queue)
    <3>1. Len(queue) \in Nat /\ Taken \in Nat /\ Taken <= Len(queue)
      BY <1>1, TakenBound
    <3>2. Len(queue') > 0
      BY <2>1, <3>1
    <3> QED BY <3>1, <3>2
  <2>5. CASE call = "getline" /\ queue = <<>>
    <3>1. pc \notin {"reading", "idle", "skipping"}
      BY <1>1, <2>2, <2>5 DEF InLine
    <3> QED BY <1>1, <2>1, <2>2, <3>1 DEF InLine, Longer
  <2>6. CASE ~(call = "getline" /\ queue = <<>>)
    <3>1. Kept
      BY <2>1, <2>2, <2>3, <2>4, <2>6 DEF Kept, Longer
    <3>2. ~AtEnd
      BY <2>2 DEF AtEnd
    <3> QED BY <1>1, <2>1, <2>2, <3>1, <3>2, LineKept DEF Longer
  <2> QED BY <2>5, <2>6
<1>4. CASE LeaveScope
  <2>1. /\ UNCHANGED <<source, input, eof, buf, call, delim, str, pc>> /\ pc = "idle" /\ Flushes
    BY <1>4, RestoreFlushes DEF LeaveScope
  <2>2. Longer /\ Len(queue') >= Taken
    BY <1>1, <2>1, FlushLonger
  <2>3. /\ Taken \in Nat /\ Taken <= Len(queue) /\ queue' \in Seq(Nat) /\ queue \in Seq(Nat)
        /\ (Taken = Len(queue) => buf = <<>> /\ typed = <<>>)
    BY <1>1, TakenBound DEF Shape
  <2>4. eof /\ Taken = Len(queue) => Len(queue') = Len(queue)
    BY <2>2, <2>3 DEF Longer, AtEnd
  <2>5. call = "getline" => (queue = <<>> <=> queue' = <<>>)
    <3>1. call = "getline" /\ queue # <<>> => Taken >= 1
      BY <1>1, <2>1, GetlineLooked
    <3>2. call = "getline" /\ queue = <<>> => eof
      BY <1>1, <2>1 DEF InLine
    <3>3. Len(queue') >= 1 => queue' # <<>>
      BY <2>3
    <3>4. call = "getline" /\ queue = <<>> => Len(queue') = 0
      BY <2>3, <2>4, <3>2
    <3> QED BY <2>2, <2>3, <3>1, <3>3, <3>4
  <2>6. Kept
    BY <2>1, <2>2, <2>4, <2>5 DEF Kept, Longer
  <2>7. AtEnd => AtEnd'
    BY <2>1, <2>2 DEF AtEnd, Longer
  <2> QED BY <1>1, <2>1, <2>2, <2>6, <2>7, LineKept DEF Longer
<1>5. CASE Fill
  <2>1. Longer /\ UNCHANGED <<source, call, delim, str, pc, queue, input, eof>>
    BY <1>1, <1>5, FillLonger DEF Fill
  <2>2. Kept
    BY <1>1, <2>1, TakenBound DEF Kept
  <2>3. AtEnd => AtEnd'
    BY <2>1 DEF AtEnd, Longer
  <2> QED BY <1>1, <2>1, <2>2, <2>3, LineKept DEF Longer
<1>6. CASE Prompt
  BY <1>1, <1>6, StartTaken DEF Prompt, InLine
<1>7. ASSUME NEW d \in Delims, Getline(d) PROVE InLine'
  BY <1>1, <1>7, StartTaken DEF Getline, InLine
<1>8. ASSUME NEW d \in Delims, CinClear(d) PROVE InLine'
  <2>1. Taken' = 0 /\ pc' = "skipping" /\ call' = "clear"
    BY <1>1, <1>8, StartTaken DEF CinClear
  <2> QED BY <2>1 DEF InLine
<1>9. CASE StartReading
  BY <1>1, <1>9, StartReadingLine
<1>10. CASE Peek
  BY <1>1, <1>10, PeekLine
<1>11. CASE Take
  BY <1>1, <1>11, TakeLine
<1>12. CASE Return
  BY <1>1, <1>12, ReturnLine
<1>13. CASE Skip
  BY <1>1, <1>13, SkipLine
<1>14. CASE GetlineThrows
  BY <1>14 DEF GetlineThrows, InLine
<1>15. CASE Terminate
  BY <1>15 DEF Terminate, InLine
<1>16. CASE EnterScope
  BY <1>2, <1>16 DEF EnterScope
<1>17. CASE Close
  BY <1>2, <1>17 DEF Close
<1>18. CASE UNCHANGED vars
  BY <1>2, <1>18 DEF vars
<1> QED BY <1>3, <1>4, <1>5, <1>6, <1>7, <1>8, <1>9, <1>10, <1>11, <1>12, <1>13, <1>14, <1>15, <1>16,
           <1>17, <1>18 DEF Next, User, Call, Step, Fault

-----------------------------------------------------------------------------
(***************************************************************************)
(* Theorems.                                                               *)
(***************************************************************************)
LEMMA Invariance == Spec => []IInv
<1>1. Init => IInv
  BY ShapeInit, StackedInit, ScopedInit, OrderedInit, SuffixInit, LineInit DEF IInv
<1>2. IInv /\ [Next]_vars => IInv'
  BY ShapeStep, StackedStep, ScopedStep, OrderedStep, SuffixStep, LineStep DEF IInv
<1> QED BY <1>1, <1>2, PTL DEF Spec

\* The characters of a line are positions that were typed, each once and in
\* order, and so are those that wait; no more DisableEcho objects than nest.
THEOREM ConsoleTypes == Spec => []TypeOK
<1>1. IInv => TypeOK
  <2> SUFFICES ASSUME IInv PROVE TypeOK
    OBVIOUS
  <2>1. Len(guards) <= MaxGuards + 1 /\ Len(input) <= MaxInput
    BY BoundAssumption DEF IInv, Shape, Scoped
  <2>2. \A i \in 1..Len(guards) : guards[i] \in [old : BOOLEAN, success : BOOLEAN]
    <3>1. guards \in Seq([old : BOOLEAN, success : BOOLEAN])
      BY DEF IInv, Shape
    <3> QED BY <3>1, InSequence
  <2>3. Elements(input) \subseteq Chars
    BY DEF IInv, Shape, Elements
  <2>4. \A s \in {typed, buf, str, queue} : Elements(s) \subseteq 1..Len(input) /\ Ascending(s)
    BY DEF IInv, Ordered
  <2> QED BY <2>1, <2>2, <2>3, <2>4 DEF IInv, Shape, TypeOK
<1> QED BY <1>1, Invariance, PTL

\* When the last DisableEcho is gone the terminal is as the program found it,
\* however deep they nested, whichever could not change the mode and whichever
\* could not restore it while another that had changed it was left.
THEOREM EchoComesBack == Spec => []EchoRestored
<1>1. IInv => EchoRestored
  <2> SUFFICES ASSUME IInv, guards = <<>>, ~stranded PROVE echo = original
    BY DEF EchoRestored
  <2>1. echo \in BOOLEAN /\ original \in BOOLEAN
    BY DEF IInv, Shape
  <2>2. Len(guards) = 0
    OBVIOUS
  <2>3. echo <=> original
    BY <2>2 DEF IInv, Stacked, Saved, EchoAfter, Base
  <2> QED BY <2>1, <2>3
<1> QED BY <1>1, Invariance, PTL

\* While one that succeeded is alive nothing is shown, whatever nested in it.
THEOREM EchoStaysOff == Spec => []EchoOffWhileGuarded
<1>1. IInv => EchoOffWhileGuarded
  BY DEF IInv, Stacked, Saved, EchoAfter, EchoOffWhileGuarded
<1> QED BY <1>1, Invariance, PTL

LEMMA MiddlePositions ==
  ASSUME NEW q \in Seq(Nat), NEW s \in Seq(Nat), NEW n \in Nat, n + Len(s) <= Len(q),
         \A i \in 1..Len(s) : s[i] = q[n + i]
  PROVE  s = SubSeq(q, n + 1, n + Len(s))
<1> DEFINE k == Len(s)
           m == SubSeq(q, n + 1, n + k)
<1>1. k \in Nat /\ n + k <= Len(q) /\ Len(q) \in Nat
  OBVIOUS
<1>2. m \in Seq(Nat) /\ Len(m) = k /\ \A i \in 1..k : m[i] = q[n + i]
  <2> HIDE DEF k
  <2>1. k = 0 \/ k > 0
    BY <1>1
  <2>2. CASE k = 0
    BY <1>1, <2>2
  <2>3. CASE k > 0
    BY <1>1, <2>3
  <2> QED BY <2>1, <2>2, <2>3
<1>3. s = m
  <2> HIDE DEF m
  <2> QED BY <1>2, SeqEqual
<1> QED BY <1>3

\* The line a call returns is the stretch of the characters it had before it
\* that ends at the first of its terminators, whatever read ahead, discarded
\* or closed the input meanwhile: getline and read_from_console.
THEOREM LineIsExact == Spec => []LineExact
<1>1. IInv => LineExact
  <2> SUFFICES ASSUME IInv, pc \in {"reading", "idle"}, call \in {"read", "getline"} PROVE LineExact
    BY DEF LineExact
  <2> DEFINE Part(n) ==
               \/ pc = "reading" /\ Taken = n + Len(str)
               \/ pc = "idle" /\ Taken = n + Len(str) + 1 /\ Ends(input[queue[Taken]])
               \/ pc = "idle" /\ Taken = n + Len(str) /\ AtEnd
  <2>1. /\ queue \in Seq(Nat) /\ buf \in Seq(Nat) /\ typed \in Seq(Nat) /\ str \in Seq(Nat)
        /\ Taken \in Nat /\ Taken <= Len(queue) /\ Len(queue) \in Nat
    BY TakenBound DEF IInv, Shape
  <2>2. buf \o typed = SubSeq(queue, Taken + 1, Len(queue))
    BY <2>1, SuffixEqual DEF IInv, Taken
  <2>3. PICK n \in 0..Taken : Stored(n) /\ Part(n)
    BY DEF IInv, InLine, Returned
  <2>4. n \in Nat /\ n + Len(str) <= Len(queue)
    BY <2>1, <2>3 DEF Stored
  <2>5. str = SubSeq(queue, n + 1, n + Len(str))
    BY <2>1, <2>3, <2>4, MiddlePositions DEF Stored
  <2>6. \A i \in 1..Len(str) : ~Ends(input[str[i]])
    BY <2>3 DEF Stored
  <2>7. Leads(n)
    BY <2>3 DEF Stored
  <2> QED BY <2>2, <2>3, <2>5, <2>6, <2>7 DEF LineExact
<1> QED BY <1>1, Invariance, PTL

\* CinClear has taken all up to its delimiter, and what waits is all the rest.
THEOREM ClearIsExact == Spec => []ClearExact
<1>1. IInv => ClearExact
  <2> SUFFICES ASSUME IInv, pc = "idle", call = "clear" PROVE ClearExact
    BY DEF ClearExact
  <2>1. queue \in Seq(Nat) /\ buf \in Seq(Nat) /\ typed \in Seq(Nat)
    BY DEF IInv, Shape
  <2>2. buf \o typed = SubSeq(queue, Taken + 1, Len(queue))
    BY <2>1, SuffixEqual DEF IInv, Taken
  <2> QED BY <2>2 DEF IInv, InLine, ClearExact
<1> QED BY <1>1, Invariance, PTL

=============================================================================
