--------------------------- MODULE StreamDelivery ---------------------------
(***************************************************************************)
(* What a secret stream promises its two ends, whatever happens to the     *)
(* chunks in between: a reader is handed the messages of one stream in the *)
(* order they were written, each once, none left out, and is told that the *)
(* stream is complete exactly when it has been handed all of it.           *)
(***************************************************************************)
EXTENDS Naturals, Sequences

CONSTANTS Streams, Readers, Messages, NoStream

VARIABLES
    written,    \* the messages written to each stream
    closed,     \* streams whose last message has been written
    source,     \* the stream each reader reads
    got,        \* the messages each reader was handed
    complete    \* readers told that there is no more to come

vars == <<written, closed, source, got, complete>>

Init ==
    /\ written = [s \in Streams |-> <<>>]
    /\ closed = {}
    /\ source = [r \in Readers |-> NoStream]
    /\ got = [r \in Readers |-> <<>>]
    /\ complete = {}

Write(s, m) ==
    /\ s \notin closed
    /\ written' = [written EXCEPT ![s] = Append(@, m)]
    /\ UNCHANGED <<closed, source, got, complete>>

Close(s, m) ==
    /\ s \notin closed
    /\ written' = [written EXCEPT ![s] = Append(@, m)]
    /\ closed' = closed \cup {s}
    /\ UNCHANGED <<source, got, complete>>

Attach(r, s) ==
    /\ source[r] = NoStream
    /\ source' = [source EXCEPT ![r] = s]
    /\ UNCHANGED <<written, closed, got, complete>>

Deliver(r) ==
    /\ source[r] # NoStream
    /\ LET all == written[source[r]]
           next == Len(got[r]) + 1
       IN  /\ next <= Len(all)
           /\ got' = [got EXCEPT ![r] = Append(@, all[next])]
           /\ complete' = IF source[r] \in closed /\ next = Len(all)
                          THEN complete \cup {r} ELSE complete
    /\ UNCHANGED <<written, closed, source>>

Next ==
    \/ \E s \in Streams, m \in Messages : Write(s, m) \/ Close(s, m)
    \/ \E r \in Readers, s \in Streams : Attach(r, s)
    \/ \E r \in Readers : Deliver(r)

Spec == Init /\ [][Next]_vars
=============================================================================
