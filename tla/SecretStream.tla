---------------------------- MODULE SecretStream ----------------------------
(***************************************************************************)
(* symmetric/stream.hpp: Encryptor and Decryptor objects, the libsodium    *)
(* secretstream state in them, and the chunks on their way from the one to *)
(* the other, which may be lost, repeated, reordered, or replaced by bytes *)
(* nobody encrypted.                                                       *)
(*                                                                         *)
(* A secretstream state is determined by the key, the header and the       *)
(* chunks pushed or pulled so far; a chunk authenticates under the state   *)
(* it was pushed under and no other.                                       *)
(***************************************************************************)
EXTENDS Naturals, Sequences

CONSTANTS
    Encs, Decs,     \* names of Encryptor and of Decryptor objects
    Sessions,       \* Decryptors constructed: one each, moves keep it
    Keys,           \* keys of 32 bytes; any other makes a constructor throw
    Headers,        \* headers init_push may generate
    Messages,       \* plaintexts
    None,           \* no object, no stream
    TouchMovedFrom, \* whether the program uses objects it has moved from
    MaxChunks       \* bound: longest stream

ASSUME NamesAssumption == Encs \cap Decs = {}
ASSUME NoneAssumption == None \notin Headers /\ None \notin Sessions
ASSUME TouchAssumption == TouchMovedFrom \in BOOLEAN
ASSUME BoundAssumption == MaxChunks \in Nat

VARIABLES
    enc, encFinal,  \* Encryptor: state_ and finalized_
    dec, decFinal,  \* Decryptor: state_ and finalized_
    session,        \* the session a Decryptor carries on
    generated,      \* headers init_push has generated
    moved,          \* objects whose content was moved elsewhere
    wire,           \* chunks produced, any of which may arrive, any number of times
    pushed,         \* per header, what was pushed (history)
    source,         \* per session, the header it was opened with (history)
    got             \* per session, what pull returned (history)

encryptors == <<enc, encFinal>>
decryptors == <<dec, decFinal, session>>
vars == <<enc, encFinal, dec, decFinal, session, generated, moved, wire, pushed, source, got>>

Tags == {"MESSAGE", "FINAL"}
Parts == [msg : Messages, tag : Tags]
States == [key : Keys, hdr : Headers, log : Seq(Parts)]
Chunks == [st : States, msg : Messages, tag : Tags]
Part(m, t) == [msg |-> m, tag |-> t]
Fresh(k, h) == [key |-> k, hdr |-> h, log |-> <<>>]
Advance(st, m, t) == [st EXCEPT !.log = Append(@, Part(m, t))]
Ended(log) == log # <<>> /\ log[Len(log)].tag = "FINAL"
Prefix(s, t) == Len(s) <= Len(t) /\ \A i \in 1..Len(s) : s[i] = t[i]

TypeOK ==
    /\ \A e \in Encs : enc[e] = None \/ enc[e] \in States
    /\ \A d \in Decs : dec[d] = None \/ (dec[d] \in States /\ session[d] \in Sessions)
    /\ encFinal \in [Encs -> BOOLEAN]
    /\ decFinal \in [Decs -> BOOLEAN]
    /\ generated \subseteq Headers
    /\ moved \subseteq Encs \cup Decs
    /\ wire \subseteq Chunks
    /\ pushed \in [Headers -> Seq(Parts)]
    /\ source \in [Sessions -> Headers \cup {None}]
    /\ got \in [Sessions -> Seq(Parts)]

Init ==
    /\ enc = [e \in Encs |-> None]
    /\ encFinal = [e \in Encs |-> FALSE]
    /\ dec = [d \in Decs |-> None]
    /\ decFinal = [d \in Decs |-> FALSE]
    /\ session = [d \in Decs |-> None]
    /\ generated = {}
    /\ moved = {}
    /\ wire = {}
    /\ pushed = [h \in Headers |-> <<>>]
    /\ source = [s \in Sessions |-> None]
    /\ got = [s \in Sessions |-> <<>>]

Usable(x) == TouchMovedFrom \/ x \notin moved

-----------------------------------------------------------------------------
\* Mutant: a constructor that leaves header_ unset.
NewEncryptorNoHeader(e, k, h) ==
    /\ enc[e] = None
    /\ h \notin generated
    /\ generated' = generated \cup {h}
    /\ enc' = [enc EXCEPT ![e] = Fresh(k, None)]
    /\ encFinal' = [encFinal EXCEPT ![e] = FALSE]
    /\ moved' = moved \ {e}
    /\ UNCHANGED <<decryptors, wire, pushed, source, got>>

\* Encryptor(key): init_push generates a header of 24 random bytes, never the
\* same one twice.
NewEncryptor(e, k, h) ==
    /\ enc[e] = None
    /\ h \notin generated
    /\ generated' = generated \cup {h}
    /\ enc' = [enc EXCEPT ![e] = Fresh(k, h)]
    /\ encFinal' = [encFinal EXCEPT ![e] = FALSE]
    /\ moved' = moved \ {e}
    /\ UNCHANGED <<decryptors, wire, pushed, source, got>>

\* secretstream_push: the chunk goes out and the state advances.  The memory
\* for the chunk is allocated before, so a throw changes nothing.
Push(e, m, t) ==
    /\ Len(enc[e].log) < MaxChunks
    /\ wire' = wire \cup {[st |-> enc[e], msg |-> m, tag |-> t]}
    /\ enc' = [enc EXCEPT ![e] = Advance(@, m, t)]
    /\ pushed' = [pushed EXCEPT ![enc[e].hdr] = Append(@, Part(m, t))]

\* Mutant: update that does not look at finalized_.
UpdateUnchecked(e, m) ==
    /\ enc[e] # None
    /\ Usable(e)
    /\ Push(e, m, "MESSAGE")
    /\ UNCHANGED <<generated, encFinal, decryptors, moved, source, got>>

Update(e, m) ==
    /\ enc[e] # None
    /\ Usable(e)
    /\ ~encFinal[e]
    /\ Push(e, m, "MESSAGE")
    /\ UNCHANGED <<generated, encFinal, decryptors, moved, source, got>>

\* Mutant: finalize that does not set finalized_.
FinalizeForgets(e, m) ==
    /\ enc[e] # None
    /\ Usable(e)
    /\ ~encFinal[e]
    /\ Push(e, m, "FINAL")
    /\ UNCHANGED <<generated, encFinal, decryptors, moved, source, got>>

Finalize(e, m) ==
    /\ enc[e] # None
    /\ Usable(e)
    /\ ~encFinal[e]
    /\ Push(e, m, "FINAL")
    /\ encFinal' = [encFinal EXCEPT ![e] = TRUE]
    /\ UNCHANGED <<generated, decryptors, moved, source, got>>

\* Mutant: an Encryptor that can be copied, and both go on.
MoveEncryptorCopies(dst, src) ==
    /\ dst # src
    /\ enc[src] # None
    /\ Usable(src)
    /\ enc' = [enc EXCEPT ![dst] = enc[src]]
    /\ encFinal' = [encFinal EXCEPT ![dst] = encFinal[src]]
    /\ moved' = moved \ {dst}
    /\ UNCHANGED <<generated, decryptors, wire, pushed, source, got>>

\* Move construction and assignment: state_ is plain memory, so the source
\* keeps what it had.
MoveEncryptor(dst, src) ==
    /\ dst # src
    /\ enc[src] # None
    /\ Usable(src)
    /\ enc' = [enc EXCEPT ![dst] = enc[src]]
    /\ encFinal' = [encFinal EXCEPT ![dst] = encFinal[src]]
    /\ moved' = (moved \ {dst}) \cup {src}
    /\ UNCHANGED <<generated, decryptors, wire, pushed, source, got>>

DestroyEncryptor(e) ==
    /\ enc[e] # None
    /\ enc' = [enc EXCEPT ![e] = None]
    /\ encFinal' = [encFinal EXCEPT ![e] = FALSE]
    /\ moved' = moved \ {e}
    /\ UNCHANGED <<generated, decryptors, wire, pushed, source, got>>

-----------------------------------------------------------------------------
\* Decryptor(key, header): init_pull accepts any of them.
NewDecryptor(d, s, k, h) ==
    /\ dec[d] = None
    /\ source[s] = None
    /\ dec' = [dec EXCEPT ![d] = Fresh(k, h)]
    /\ decFinal' = [decFinal EXCEPT ![d] = FALSE]
    /\ session' = [session EXCEPT ![d] = s]
    /\ source' = [source EXCEPT ![s] = h]
    /\ moved' = moved \ {d}
    /\ UNCHANGED <<generated, encryptors, wire, pushed, got>>

\* secretstream_pull: authenticates only under the state of the push.
Authentic(st, c) == c.st = st

\* Mutant: the state advances before the chunk has been authenticated.
PullAdvancesFirst(d, c) ==
    /\ dec[d] # None
    /\ Usable(d)
    /\ ~decFinal[d]
    /\ Len(dec[d].log) < MaxChunks
    /\ dec' = [dec EXCEPT ![d] = Advance(@, c.msg, c.tag)]
    /\ IF Authentic(dec[d], c)
       THEN /\ decFinal' = [decFinal EXCEPT ![d] = (c.tag = "FINAL")]
            /\ got' = [got EXCEPT ![session[d]] = Append(@, Part(c.msg, c.tag))]
       ELSE UNCHANGED <<decFinal, got>>
    /\ UNCHANGED <<generated, encryptors, session, moved, wire, pushed, source>>

\* pull of a chunk that authenticates.  Any other chunk (another stream's,
\* out of order, altered, shorter than 17 bytes), any chunk after TAG_FINAL
\* and a failed allocation make it throw, and nothing changes.
Pull(d, c) ==
    /\ dec[d] # None
    /\ Usable(d)
    /\ ~decFinal[d]
    /\ Authentic(dec[d], c)
    /\ dec' = [dec EXCEPT ![d] = Advance(@, c.msg, c.tag)]
    /\ decFinal' = [decFinal EXCEPT ![d] = (c.tag = "FINAL")]
    /\ got' = [got EXCEPT ![session[d]] = Append(@, Part(c.msg, c.tag))]
    /\ UNCHANGED <<generated, encryptors, session, moved, wire, pushed, source>>

\* Mutant: a Decryptor that can be copied, and both go on.
MoveDecryptorCopies(dst, src) ==
    /\ dst # src
    /\ dec[src] # None
    /\ Usable(src)
    /\ dec' = [dec EXCEPT ![dst] = dec[src]]
    /\ decFinal' = [decFinal EXCEPT ![dst] = decFinal[src]]
    /\ session' = [session EXCEPT ![dst] = session[src]]
    /\ moved' = moved \ {dst}
    /\ UNCHANGED <<generated, encryptors, wire, pushed, source, got>>

MoveDecryptor(dst, src) ==
    /\ dst # src
    /\ dec[src] # None
    /\ Usable(src)
    /\ dec' = [dec EXCEPT ![dst] = dec[src]]
    /\ decFinal' = [decFinal EXCEPT ![dst] = decFinal[src]]
    /\ session' = [session EXCEPT ![dst] = session[src]]
    /\ moved' = (moved \ {dst}) \cup {src}
    /\ UNCHANGED <<generated, encryptors, wire, pushed, source, got>>

DestroyDecryptor(d) ==
    /\ dec[d] # None
    /\ dec' = [dec EXCEPT ![d] = None]
    /\ decFinal' = [decFinal EXCEPT ![d] = FALSE]
    /\ session' = [session EXCEPT ![d] = None]
    /\ moved' = moved \ {d}
    /\ UNCHANGED <<generated, encryptors, wire, pushed, source, got>>

Next ==
    \/ \E e \in Encs, k \in Keys, h \in Headers : NewEncryptor(e, k, h)
    \/ \E e \in Encs, m \in Messages : Update(e, m) \/ Finalize(e, m)
    \/ \E e, f \in Encs : MoveEncryptor(e, f)
    \/ \E e \in Encs : DestroyEncryptor(e)
    \/ \E d \in Decs, s \in Sessions, k \in Keys, h \in Headers : NewDecryptor(d, s, k, h)
    \/ \E d \in Decs, c \in wire : Pull(d, c)
    \/ \E d, f \in Decs : MoveDecryptor(d, f)
    \/ \E d \in Decs : DestroyDecryptor(d)

Spec == Init /\ [][Next]_vars

\* A receiver keeps pulling and a sender, or the file read again, brings a
\* chunk that is missing sooner or later.
Arrival == \A d \in Decs : WF_vars(\E c \in wire : Pull(d, c))
FairSpec == Spec /\ Arrival

-----------------------------------------------------------------------------
(***************************************************************************)
(* Properties                                                              *)
(***************************************************************************)

\* No two chunks are pushed under one state, that is under one nonce
\* (stream.hpp:50, "never reused"), whatever is moved and destroyed.
NoStateReuse == \A b, c \in wire : b.st = c.st => b = c

\* What a session has handed to its caller is a prefix of what was pushed with
\* its header: nothing reordered, left out, repeated or altered.
DeliveredIsPrefix ==
    \A s \in Sessions : source[s] # None => Prefix(got[s], pushed[source[s]])

\* A Decryptor says finalized() only when its session has been handed the
\* whole stream, last chunk included: a truncated one never is.
FinalMeansComplete ==
    \A d \in Decs : dec[d] # None /\ decFinal[d] =>
        LET s == session[d] IN Ended(got[s]) /\ got[s] = pushed[source[s]]

\* The promise of StreamDelivery, each session a reader of its header's stream.
Texts(log) == [i \in 1..Len(log) |-> log[i].msg]

Delivery == INSTANCE StreamDelivery WITH
    Streams <- Headers, Readers <- Sessions, NoStream <- None,
    written <- [h \in Headers |-> Texts(pushed[h])],
    closed <- {h \in Headers : Ended(pushed[h])},
    got <- [s \in Sessions |-> Texts(got[s])],
    complete <- {s \in Sessions : Ended(got[s])}

KeepsPromise == Delivery!Spec

\* A Decryptor is never stuck: whatever arrived before, in whatever order and
\* however often, it reaches the end of a stream that was finalized, unless it
\* is moved from, assigned to or destroyed.
Reading(d, h, k) == dec[d] # None /\ d \notin moved /\ dec[d].hdr = h /\ dec[d].key = k
LastSent(h, k) == \E c \in wire : c.tag = "FINAL" /\ c.st.hdr = h /\ c.st.key = k

NeverStuck ==
    \A d \in Decs, h \in Headers, k \in Keys :
        Reading(d, h, k) /\ LastSent(h, k) ~> decFinal[d] \/ ~Reading(d, h, k)
=============================================================================
