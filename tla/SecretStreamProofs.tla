------------------------- MODULE SecretStreamProofs -------------------------
(***************************************************************************)
(* Theorems about SecretStream for any objects, keys, headers, messages    *)
(* and lengths, of programs that leave moved-from objects alone.           *)
(*                                                                         *)
(* At most one Encryptor goes on with a header, and its log is all that    *)
(* was pushed with it; a chunk on the wire is the next part after the      *)
(* state it was pushed under; at most one Decryptor goes on with a         *)
(* session, and its log is what the session was handed.                    *)
(***************************************************************************)
EXTENDS SecretStream, TLAPS

CarriesOn(e) == enc[e] # None /\ e \notin moved
ReadsOn(d) == dec[d] # None /\ d \notin moved

\* The variables are functions on the objects.
Tables ==
    /\ enc \in [Encs -> States \cup {None}]
    /\ dec \in [Decs -> States \cup {None}]
    /\ session \in [Decs -> Sessions \cup {None}]
    /\ encFinal \in [Encs -> BOOLEAN]
    /\ decFinal \in [Decs -> BOOLEAN]
    /\ generated \subseteq Headers
    /\ moved \subseteq Encs \cup Decs
    /\ wire \subseteq Chunks
    /\ pushed \in [Headers -> Seq(Parts)]
    /\ source \in [Sessions -> Headers \cup {None}]
    /\ got \in [Sessions -> Seq(Parts)]
    /\ \A d \in Decs : dec[d] # None => session[d] \in Sessions

\* Only the last part of a stream may say that it is the last.
OneEnd == \A h \in Headers : \A i \in 1..(Len(pushed[h]) - 1) : pushed[h][i].tag # "FINAL"

Unused == \A h \in Headers \ generated : pushed[h] = <<>>

OneWriter ==
    \A e \in Encs : CarriesOn(e) =>
        /\ enc[e].hdr \in generated
        /\ enc[e].log = pushed[enc[e].hdr]
        /\ encFinal[e] <=> Ended(pushed[enc[e].hdr])
        /\ \A f \in Encs : CarriesOn(f) /\ enc[f].hdr = enc[e].hdr => f = e

\* A chunk's state has the parts before it, and its own comes next.
InPlace(c) ==
    LET all == pushed[c.st.hdr]
        n == Len(c.st.log) + 1
    IN  /\ c.st.hdr \in generated
        /\ n <= Len(all)
        /\ all[n] = Part(c.msg, c.tag)

OnWire == \A c \in wire : InPlace(c)

OneReader ==
    \A d \in Decs : dec[d] # None =>
        /\ source[session[d]] # None
        /\ decFinal[d] => Ended(got[session[d]])
        /\ d \notin moved =>
              /\ dec[d].hdr = source[session[d]]
              /\ dec[d].log = got[session[d]]
              /\ decFinal[d] <=> Ended(got[session[d]])
              /\ \A f \in Decs : ReadsOn(f) /\ session[f] = session[d] => f = d

Unopened == \A s \in Sessions : source[s] = None => got[s] = <<>>

IInv ==
    /\ Tables
    /\ OneEnd
    /\ Unused
    /\ OneWriter
    /\ OnWire
    /\ OneReader
    /\ Unopened
    /\ DeliveredIsPrefix

-----------------------------------------------------------------------------
(***************************************************************************)
(* Sequences of parts, and states.                                         *)
(***************************************************************************)
LEMMA PartType == ASSUME NEW m \in Messages, NEW t \in Tags
                  PROVE  /\ Part(m, t) \in Parts
                         /\ Part(m, t).msg = m /\ Part(m, t).tag = t
BY DEF Part, Parts

LEMMA AppendPart ==
  ASSUME NEW s \in Seq(Parts), NEW p \in Parts
  PROVE  /\ Append(s, p) \in Seq(Parts)
         /\ Len(Append(s, p)) = Len(s) + 1
         /\ \A i \in 1..Len(s) : Append(s, p)[i] = s[i]
         /\ Append(s, p)[Len(s) + 1] = p
         /\ Ended(Append(s, p)) <=> p.tag = "FINAL"
<1>1. /\ Append(s, p) \in Seq(Parts)
      /\ Len(Append(s, p)) = Len(s) + 1
      /\ \A i \in 1..Len(s) : Append(s, p)[i] = s[i]
      /\ Append(s, p)[Len(s) + 1] = p
  OBVIOUS
<1>2. Append(s, p) # <<>>
  BY <1>1
<1> QED BY <1>1, <1>2 DEF Ended

LEMMA EmptyLog == <<>> \in Seq(Parts) /\ ~Ended(<<>>) /\ Len(<<>>) = 0
BY DEF Ended

LEMMA FreshState == ASSUME NEW k \in Keys, NEW h \in Headers
                    PROVE  /\ Fresh(k, h) \in States
                           /\ Fresh(k, h).hdr = h /\ Fresh(k, h).log = <<>>
BY EmptyLog DEF Fresh, States

LEMMA AdvanceState ==
  ASSUME NEW st \in States, NEW m \in Messages, NEW t \in Tags
  PROVE  /\ Advance(st, m, t) \in States
         /\ Advance(st, m, t).hdr = st.hdr
         /\ Advance(st, m, t).log = Append(st.log, Part(m, t))
         /\ st.hdr \in Headers /\ st.log \in Seq(Parts)
BY PartType, AppendPart DEF Advance, States

\* What is a prefix stays one when the longer sequence grows, and may take the
\* next part itself.
LEMMA PrefixGrows ==
  ASSUME NEW s \in Seq(Parts), NEW t \in Seq(Parts), NEW p \in Parts, Prefix(s, t)
  PROVE  /\ Prefix(s, Append(t, p))
         /\ Len(s) < Len(t) /\ t[Len(s) + 1] = p => Prefix(Append(s, p), t)
BY AppendPart DEF Prefix

\* The whole of a stream has been read when its last part has.
LEMMA EndedPrefix ==
  ASSUME NEW s \in Seq(Parts), NEW t \in Seq(Parts), Prefix(s, t), Ended(s),
         \A i \in 1..(Len(t) - 1) : t[i].tag # "FINAL"
  PROVE  s = t
<1>1. Len(s) \in 1..Len(t) /\ s[Len(s)].tag = "FINAL"
  BY DEF Ended, Prefix
<1>2. Len(s) = Len(t)
  <2>1. t[Len(s)].tag = "FINAL"
    BY <1>1 DEF Prefix
  <2> QED BY <1>1, <2>1
<1> QED BY <1>2 DEF Prefix

-----------------------------------------------------------------------------
(***************************************************************************)
(* Types, which hold of every program.                                     *)
(***************************************************************************)
LEMMA PushTables ==
  ASSUME Tables, NEW e \in Encs, NEW m \in Messages, NEW t \in Tags,
         enc[e] # None, Push(e, m, t), encFinal' \in [Encs -> BOOLEAN],
         UNCHANGED <<generated, decryptors, moved, source, got>>
  PROVE  Tables'
<1>1. enc[e] \in States
  BY DEF Tables
<1>2. [st |-> enc[e], msg |-> m, tag |-> t] \in Chunks
  BY <1>1 DEF Chunks
<1>3. /\ Advance(enc[e], m, t) \in States /\ enc[e].hdr \in Headers
      /\ pushed[enc[e].hdr] \in Seq(Parts)
  BY <1>1, AdvanceState DEF Tables
<1>4. Append(pushed[enc[e].hdr], Part(m, t)) \in Seq(Parts)
  BY <1>3, PartType, AppendPart
<1> QED BY <1>2, <1>3, <1>4 DEF Push, Tables, decryptors

LEMMA TablesStep == Tables /\ [Next]_vars => Tables'
<1> SUFFICES ASSUME Tables, [Next]_vars PROVE Tables'
  OBVIOUS
<1>1. ASSUME NEW e \in Encs, NEW k \in Keys, NEW h \in Headers, NewEncryptor(e, k, h) PROVE Tables'
  BY <1>1, FreshState DEF NewEncryptor, Tables, decryptors
<1>2. ASSUME NEW e \in Encs, NEW m \in Messages, Update(e, m) \/ Finalize(e, m) PROVE Tables'
  <2>1. encFinal' \in [Encs -> BOOLEAN]
    BY <1>2 DEF Update, Finalize, Tables
  <2>2. PICK t \in Tags : Push(e, m, t)
    BY <1>2 DEF Update, Finalize, Tags
  <2>3. enc[e] # None /\ UNCHANGED <<generated, decryptors, moved, source, got>>
    BY <1>2 DEF Update, Finalize
  <2> QED BY <2>1, <2>2, <2>3, PushTables
<1>3. ASSUME NEW e \in Encs, NEW f \in Encs, MoveEncryptor(e, f) PROVE Tables'
  BY <1>3 DEF MoveEncryptor, Tables, decryptors
<1>4. ASSUME NEW e \in Encs, DestroyEncryptor(e) PROVE Tables'
  BY <1>4 DEF DestroyEncryptor, Tables, decryptors
<1>5. ASSUME NEW d \in Decs, NEW s \in Sessions, NEW k \in Keys, NEW h \in Headers,
             NewDecryptor(d, s, k, h) PROVE Tables'
  BY <1>5, FreshState DEF NewDecryptor, Tables, encryptors
<1>6. ASSUME NEW d \in Decs, NEW c \in wire, Pull(d, c) PROVE Tables'
  <2>1. dec[d] \in States /\ session[d] \in Sessions /\ c.msg \in Messages /\ c.tag \in Tags
    BY <1>6 DEF Pull, Tables, Chunks
  <2>2. Advance(dec[d], c.msg, c.tag) \in States
    BY <2>1, AdvanceState
  <2>3. Append(got[session[d]], Part(c.msg, c.tag)) \in Seq(Parts)
    BY <2>1, PartType, AppendPart DEF Tables
  <2> QED BY <1>6, <2>1, <2>2, <2>3 DEF Pull, Tables, encryptors
<1>7. ASSUME NEW d \in Decs, NEW f \in Decs, MoveDecryptor(d, f) PROVE Tables'
  BY <1>7 DEF MoveDecryptor, Tables, encryptors
<1>8. ASSUME NEW d \in Decs, DestroyDecryptor(d) PROVE Tables'
  BY <1>8 DEF DestroyDecryptor, Tables, encryptors
<1>9. CASE UNCHANGED vars
  BY <1>9 DEF vars, Tables, encryptors, decryptors
<1> QED BY <1>1, <1>2, <1>3, <1>4, <1>5, <1>6, <1>7, <1>8, <1>9 DEF Next

LEMMA TablesTypes == Tables => TypeOK
BY DEF Tables, TypeOK

LEMMA TablesInit == Init => Tables
BY EmptyLog DEF Init, Tables

\* Every object, chunk and history is well typed, in programs that use
\* moved-from objects too.
THEOREM StreamTypeCorrect == Spec => []TypeOK
BY TablesInit, TablesStep, TablesTypes, PTL DEF Spec

-----------------------------------------------------------------------------
(***************************************************************************)
(* The invariant.                                                          *)
(***************************************************************************)
LEMMA IInvInit == Init => IInv
<1> SUFFICES ASSUME Init PROVE IInv
  OBVIOUS
<1>1. Tables
  BY TablesInit
<1>2. DeliveredIsPrefix
  BY DEF Init, DeliveredIsPrefix
<1>3. OneEnd
  BY EmptyLog DEF Init, OneEnd
<1> QED
  BY <1>1, <1>2, <1>3
  DEF IInv, Init, Unused, OneWriter, CarriesOn, OnWire, OneReader, Unopened

LEMMA NewEncryptorStep ==
  ASSUME IInv, NEW e \in Encs, NEW k \in Keys, NEW h \in Headers, NewEncryptor(e, k, h)
  PROVE  IInv'
<1> USE DEF IInv
<1>1. /\ Fresh(k, h) \in States
      /\ Fresh(k, h).hdr = h /\ Fresh(k, h).log = <<>>
  BY FreshState
<1>2. Tables'
  BY TablesStep DEF Next
<1>3. (OneEnd /\ Unused /\ OnWire /\ Unopened /\ DeliveredIsPrefix)'
  BY DEF NewEncryptor, decryptors, OneEnd, Unused, OnWire, InPlace, Unopened, DeliveredIsPrefix
<1>4. OneWriter'
  <2> SUFFICES ASSUME NEW f \in Encs, CarriesOn(f)'
               PROVE  /\ enc'[f].hdr \in generated'
                      /\ enc'[f].log = pushed'[enc'[f].hdr]
                      /\ encFinal'[f] <=> Ended(pushed'[enc'[f].hdr])
                      /\ \A g \in Encs : CarriesOn(g)' /\ enc'[g].hdr = enc'[f].hdr => g = f
    BY DEF OneWriter
  <2>1. \A g \in Encs \ {e} : /\ enc'[g] = enc[g] /\ encFinal'[g] = encFinal[g]
                              /\ CarriesOn(g)' => CarriesOn(g)
    BY DEF NewEncryptor, Tables, CarriesOn
  <2>2. enc'[e] = Fresh(k, h) /\ encFinal'[e] = FALSE
    BY DEF NewEncryptor, Tables
  <2>3. pushed' = pushed /\ pushed[h] = <<>> /\ generated' = generated \cup {h} /\ h \notin generated
    BY DEF NewEncryptor, Unused
  <2>4. \A g \in Encs \ {e} : CarriesOn(g)' => enc'[g].hdr # h
    BY <2>1, <2>3 DEF OneWriter
  <2>5. CASE f = e
    BY <2>2, <2>3, <2>4, <2>5, <1>1, EmptyLog
  <2>6. CASE f # e
    BY <2>1, <2>2, <2>3, <2>4, <2>6, <1>1 DEF OneWriter
  <2> QED BY <2>5, <2>6
<1>5. OneReader'
  BY NamesAssumption DEF NewEncryptor, decryptors, OneReader, ReadsOn
<1> QED BY <1>2, <1>3, <1>4, <1>5

\* update and finalize, which differ in the tag.
LEMMA PushStep ==
  ASSUME IInv, ~TouchMovedFrom, NEW e \in Encs, NEW m \in Messages, NEW t \in Tags,
         enc[e] # None, Usable(e), ~encFinal[e], Push(e, m, t),
         encFinal' = [encFinal EXCEPT ![e] = (t = "FINAL")],
         UNCHANGED <<generated, decryptors, moved, source, got>>
  PROVE  IInv'
<1> USE DEF IInv
<1> DEFINE st == enc[e]
           h == st.hdr
           p == Part(m, t)
<1>1. st \in States /\ CarriesOn(e)
  BY DEF Tables, Usable, CarriesOn
<1>2. /\ Advance(st, m, t) \in States
      /\ Advance(st, m, t).hdr = h
      /\ Advance(st, m, t).log = Append(st.log, p)
      /\ h \in Headers /\ st.log \in Seq(Parts)
  BY <1>1, AdvanceState
<1>3. h \in generated /\ st.log = pushed[h] /\ ~Ended(pushed[h]) /\ pushed[h] \in Seq(Parts)
  BY <1>1, <1>2 DEF OneWriter
<1>4. p \in Parts /\ p.tag = t /\ (t = "FINAL" <=> ~(t = "MESSAGE"))
  BY PartType DEF Tags
<1>5. /\ Append(pushed[h], p) \in Seq(Parts)
      /\ Len(Append(pushed[h], p)) = Len(pushed[h]) + 1
      /\ \A i \in 1..Len(pushed[h]) : Append(pushed[h], p)[i] = pushed[h][i]
      /\ Append(pushed[h], p)[Len(pushed[h]) + 1] = p
      /\ Ended(Append(pushed[h], p)) <=> t = "FINAL"
  BY <1>3, <1>4, AppendPart
<1>6. pushed' = [pushed EXCEPT ![h] = Append(@, p)]
  BY DEF Push
<1>7. /\ pushed'[h] = Append(pushed[h], p)
      /\ \A g \in Headers \ {h} : pushed'[g] = pushed[g]
  BY <1>2, <1>6 DEF Tables
<1>8. enc' = [enc EXCEPT ![e] = Advance(st, m, t)]
  BY DEF Push
<1>9. wire' = wire \cup {[st |-> st, msg |-> m, tag |-> t]}
  BY DEF Push
<1> HIDE DEF st, h, p
<1>10. Tables'
  <2>1. encFinal' \in [Encs -> BOOLEAN]
    BY DEF Tables
  <2> QED BY <2>1, PushTables
<1>11. OneEnd'
  <2> SUFFICES ASSUME NEW g \in Headers, NEW i \in 1..(Len(pushed'[g]) - 1)
               PROVE  pushed'[g][i].tag # "FINAL"
    BY DEF OneEnd
  <2>1. CASE g = h
    <3>1. i \in 1..Len(pushed[h]) /\ pushed'[g][i] = pushed[h][i]
      BY <2>1, <1>3, <1>5, <1>7
    <3>2. CASE i = Len(pushed[h])
      BY <3>1, <3>2, <1>3 DEF Ended
    <3>3. CASE i # Len(pushed[h])
      BY <3>1, <3>3, <1>2, <1>3 DEF OneEnd
    <3> QED BY <3>2, <3>3
  <2>2. CASE g # h
    BY <2>2, <1>7 DEF OneEnd
  <2> QED BY <2>1, <2>2
<1>12. Unused'
  BY <1>3, <1>7 DEF Unused
<1>13. OneWriter'
  <2> SUFFICES ASSUME NEW f \in Encs, CarriesOn(f)'
               PROVE  /\ enc'[f].hdr \in generated'
                      /\ enc'[f].log = pushed'[enc'[f].hdr]
                      /\ encFinal'[f] <=> Ended(pushed'[enc'[f].hdr])
                      /\ \A g \in Encs : CarriesOn(g)' /\ enc'[g].hdr = enc'[f].hdr => g = f
    BY DEF OneWriter
  <2>1. \A g \in Encs \ {e} : /\ enc'[g] = enc[g] /\ encFinal'[g] = encFinal[g]
                              /\ CarriesOn(g)' => CarriesOn(g)
    BY <1>8 DEF Tables, CarriesOn
  <2>2. /\ enc'[e] = Advance(st, m, t) /\ encFinal'[e] = (t = "FINAL")
        /\ generated' = generated
    BY <1>8 DEF Tables
  <2>3. enc[e].hdr = h /\ enc[e].log = pushed[h]
    BY <1>3 DEF st, h
  <2>4. \A g \in Encs \ {e} : CarriesOn(g)' => enc'[g].hdr # h /\ enc[g].hdr \in Headers
    BY <2>1, <2>3, <1>1 DEF OneWriter, Tables
  <2>5. CASE f = e
    BY <2>2, <2>4, <2>5, <1>2, <1>3, <1>5, <1>7
  <2>6. CASE f # e
    <3>1. pushed'[enc[f].hdr] = pushed[enc[f].hdr]
      BY <2>1, <2>4, <2>6, <1>7
    <3> QED BY <3>1, <2>1, <2>2, <2>4, <2>6, <1>2 DEF OneWriter
  <2> QED BY <2>5, <2>6
<1>14. OnWire'
  <2> SUFFICES ASSUME NEW c \in wire' PROVE InPlace(c)'
    BY DEF OnWire
  <2>1. CASE c \in wire
    <3>1. InPlace(c) /\ c.st.hdr \in Headers /\ c.st.log \in Seq(Parts)
      BY <2>1 DEF OnWire, Tables, Chunks, States
    <3>2. CASE c.st.hdr = h
      <4>1. Len(c.st.log) + 1 \in 1..Len(pushed[h])
        BY <3>1, <3>2, <1>3 DEF InPlace
      <4> QED BY <4>1, <3>1, <3>2, <1>3, <1>5, <1>7 DEF InPlace
    <3>3. CASE c.st.hdr # h
      BY <3>1, <3>3, <1>7 DEF InPlace
    <3> QED BY <3>2, <3>3
  <2>2. CASE c = [st |-> st, msg |-> m, tag |-> t]
    <3>1. c.st.hdr = h /\ c.st.log = pushed[h] /\ Part(c.msg, c.tag) = p
      BY <2>2, <1>3 DEF h, p
    <3> QED BY <3>1, <1>3, <1>5, <1>7 DEF InPlace
  <2> QED BY <2>1, <2>2, <1>9
<1>15. (OneReader /\ Unopened)'
  BY DEF decryptors, OneReader, ReadsOn, Unopened
<1>16. DeliveredIsPrefix'
  <2> SUFFICES ASSUME NEW s \in Sessions, source[s] # None
               PROVE  Prefix(got[s], pushed'[source[s]])
    BY DEF DeliveredIsPrefix
  <2>1. source[s] \in Headers /\ got[s] \in Seq(Parts) /\ Prefix(got[s], pushed[source[s]])
    BY DEF Tables, DeliveredIsPrefix
  <2>2. CASE source[s] = h
    BY <2>1, <2>2, <1>3, <1>4, <1>7, PrefixGrows
  <2>3. CASE source[s] # h
    BY <2>1, <2>3, <1>7
  <2> QED BY <2>2, <2>3
<1> QED BY <1>10, <1>11, <1>12, <1>13, <1>14, <1>15, <1>16

\* The source keeps its content, and its name is in moved from here on.
LEMMA MoveEncryptorStep ==
  ASSUME IInv, ~TouchMovedFrom, NEW x \in Encs, NEW y \in Encs, MoveEncryptor(x, y)
  PROVE  IInv'
<1> USE DEF IInv
<1>1. CarriesOn(y) /\ x # y
  BY DEF MoveEncryptor, Usable, CarriesOn
<1>2. Tables'
  BY TablesStep DEF Next
<1>3. (OneEnd /\ Unused /\ OnWire /\ Unopened /\ DeliveredIsPrefix)'
  BY DEF MoveEncryptor, decryptors, OneEnd, Unused, OnWire, InPlace, Unopened, DeliveredIsPrefix
<1>4. OneWriter'
  <2>1. /\ enc'[x] = enc[y] /\ encFinal'[x] = encFinal[y]
        /\ \A g \in Encs \ {x} : enc'[g] = enc[g] /\ encFinal'[g] = encFinal[g]
        /\ ~CarriesOn(y)'
        /\ \A g \in Encs \ {x, y} : CarriesOn(g)' => CarriesOn(g)
    BY DEF MoveEncryptor, Tables, CarriesOn
  <2>2. pushed' = pushed /\ generated' = generated
    BY DEF MoveEncryptor
  <2> QED BY <1>1, <2>1, <2>2 DEF OneWriter
<1>5. OneReader'
  BY NamesAssumption DEF MoveEncryptor, decryptors, OneReader, ReadsOn
<1> QED BY <1>2, <1>3, <1>4, <1>5

LEMMA DestroyEncryptorStep ==
  ASSUME IInv, NEW e \in Encs, DestroyEncryptor(e)
  PROVE  IInv'
<1> USE DEF IInv
<1>1. Tables'
  BY TablesStep DEF Next
<1>2. (OneEnd /\ Unused /\ OnWire /\ Unopened /\ DeliveredIsPrefix)'
  BY DEF DestroyEncryptor, decryptors, OneEnd, Unused, OnWire, InPlace, Unopened, DeliveredIsPrefix
<1>3. OneWriter'
  <2>1. /\ ~CarriesOn(e)'
        /\ \A g \in Encs \ {e} : /\ enc'[g] = enc[g] /\ encFinal'[g] = encFinal[g]
                                 /\ CarriesOn(g)' => CarriesOn(g)
    BY DEF DestroyEncryptor, Tables, CarriesOn
  <2> QED BY <2>1 DEF DestroyEncryptor, OneWriter
<1>4. OneReader'
  BY NamesAssumption DEF DestroyEncryptor, decryptors, OneReader, ReadsOn
<1> QED BY <1>1, <1>2, <1>3, <1>4

\* A session that was not open has been handed nothing and is nobody's.
LEMMA NewDecryptorStep ==
  ASSUME IInv, NEW d \in Decs, NEW s \in Sessions, NEW k \in Keys, NEW h \in Headers,
         NewDecryptor(d, s, k, h)
  PROVE  IInv'
<1> USE DEF IInv
<1>1. /\ Fresh(k, h) \in States
      /\ Fresh(k, h).hdr = h /\ Fresh(k, h).log = <<>>
  BY FreshState
<1>2. Tables'
  BY TablesStep DEF Next
<1>3. (OneEnd /\ Unused /\ OnWire)'
  BY DEF NewDecryptor, OneEnd, Unused, OnWire, InPlace
<1>4. OneWriter'
  BY NamesAssumption DEF NewDecryptor, encryptors, OneWriter, CarriesOn
<1>5. /\ got[s] = <<>> /\ source[s] = None /\ h # None
      /\ source'[s] = h
      /\ \A r \in Sessions \ {s} : source'[r] = source[r]
      /\ got' = got /\ pushed' = pushed
  BY NoneAssumption DEF NewDecryptor, Unopened, Tables
<1>6. Unopened'
  BY <1>5 DEF Unopened
<1>7. DeliveredIsPrefix'
  <2>1. Prefix(<<>>, pushed[h])
    BY EmptyLog DEF Prefix, Tables
  <2> QED BY <2>1, <1>5 DEF DeliveredIsPrefix
<1>8. OneReader'
  <2>1. /\ dec'[d] = Fresh(k, h) /\ decFinal'[d] = FALSE /\ session'[d] = s
        /\ \A g \in Decs \ {d} : /\ dec'[g] = dec[g] /\ decFinal'[g] = decFinal[g]
                                 /\ session'[g] = session[g]
                                 /\ dec[g] # None => session[g] \in Sessions /\ session[g] # s
                                 /\ g \in moved' <=> g \in moved
    BY <1>5 DEF NewDecryptor, Tables, OneReader
  <2> SUFFICES ASSUME NEW f \in Decs, dec'[f] # None
               PROVE  /\ source'[session'[f]] # None
                      /\ decFinal'[f] => Ended(got'[session'[f]])
                      /\ f \notin moved' =>
                            /\ dec'[f].hdr = source'[session'[f]]
                            /\ dec'[f].log = got'[session'[f]]
                            /\ decFinal'[f] <=> Ended(got'[session'[f]])
                            /\ \A g \in Decs : ReadsOn(g)' /\ session'[g] = session'[f] => g = f
    BY DEF OneReader
  <2>2. CASE f = d
    BY <2>1, <2>2, <1>1, <1>5, EmptyLog DEF ReadsOn
  <2>3. CASE f # d
    BY <2>1, <2>3, <1>5 DEF OneReader, ReadsOn
  <2> QED BY <2>2, <2>3
<1> QED BY <1>2, <1>3, <1>4, <1>6, <1>7, <1>8

\* What authenticates is the part that comes next in the stream.
LEMMA PullIsNext ==
  ASSUME IInv, ~TouchMovedFrom, NEW d \in Decs, NEW c \in wire, Pull(d, c),
         NEW s, s = session[d], NEW h, h = source[s]
  PROVE  /\ s \in Sessions /\ h \in Headers /\ h # None /\ ReadsOn(d)
         /\ dec[d] \in States /\ dec[d].hdr = h /\ dec[d].log = got[s]
         /\ c.msg \in Messages /\ c.tag \in Tags
         /\ got[s] \in Seq(Parts) /\ pushed[h] \in Seq(Parts) /\ Prefix(got[s], pushed[h])
         /\ Len(got[s]) < Len(pushed[h])
         /\ pushed[h][Len(got[s]) + 1] = Part(c.msg, c.tag)
         /\ ~Ended(got[s])
         /\ got' = [got EXCEPT ![s] = Append(@, Part(c.msg, c.tag))]
<1> USE DEF IInv
<1>1. ReadsOn(d) /\ c.st = dec[d] /\ ~decFinal[d]
  BY DEF Pull, Usable, ReadsOn, Authentic
<1>2. s \in Sessions /\ dec[d] \in States /\ c \in Chunks
  BY <1>1 DEF Tables, ReadsOn
<1>3. h # None /\ dec[d].hdr = h /\ dec[d].log = got[s] /\ ~Ended(got[s])
  BY <1>1 DEF OneReader, ReadsOn
<1>4. h \in Headers /\ got[s] \in Seq(Parts) /\ pushed[h] \in Seq(Parts) /\ Prefix(got[s], pushed[h])
  BY <1>2, <1>3 DEF Tables, DeliveredIsPrefix
<1>5. Len(got[s]) + 1 <= Len(pushed[h]) /\ pushed[h][Len(got[s]) + 1] = Part(c.msg, c.tag)
  BY <1>1, <1>3 DEF OnWire, InPlace
<1>6. Len(got[s]) < Len(pushed[h])
  BY <1>4, <1>5
<1>7. c.msg \in Messages /\ c.tag \in Tags
  BY <1>2 DEF Chunks
<1>8. got' = [got EXCEPT ![s] = Append(@, Part(c.msg, c.tag))]
  BY DEF Pull
<1> QED BY <1>1, <1>2, <1>3, <1>4, <1>5, <1>6, <1>7, <1>8

LEMMA PullStep ==
  ASSUME IInv, ~TouchMovedFrom, NEW d \in Decs, NEW c \in wire, Pull(d, c)
  PROVE  IInv'
<1> USE DEF IInv
<1> DEFINE s == session[d]
           h == source[s]
           p == Part(c.msg, c.tag)
<1>1. /\ s \in Sessions /\ h \in Headers /\ h # None /\ ReadsOn(d)
      /\ dec[d] \in States /\ dec[d].hdr = h /\ dec[d].log = got[s]
      /\ c.msg \in Messages /\ c.tag \in Tags
      /\ got[s] \in Seq(Parts) /\ pushed[h] \in Seq(Parts) /\ Prefix(got[s], pushed[h])
      /\ Len(got[s]) < Len(pushed[h])
      /\ pushed[h][Len(got[s]) + 1] = p
      /\ ~Ended(got[s])
      /\ got' = [got EXCEPT ![s] = Append(@, p)]
  BY PullIsNext
<1>2. p \in Parts /\ p.tag = c.tag
  BY <1>1, PartType
<1>3. Append(got[s], p) \in Seq(Parts) /\ (Ended(Append(got[s], p)) <=> c.tag = "FINAL")
  BY <1>1, <1>2, AppendPart
<1>4. /\ Advance(dec[d], c.msg, c.tag) \in States
      /\ Advance(dec[d], c.msg, c.tag).hdr = h
      /\ Advance(dec[d], c.msg, c.tag).log = Append(got[s], p)
  BY <1>1, AdvanceState
<1>5. /\ got'[s] = Append(got[s], p)
      /\ \A r \in Sessions \ {s} : got'[r] = got[r]
  BY <1>1 DEF Tables
<1>6. /\ dec' = [dec EXCEPT ![d] = Advance(dec[d], c.msg, c.tag)]
      /\ decFinal' = [decFinal EXCEPT ![d] = (c.tag = "FINAL")]
      /\ session' = session /\ source' = source /\ pushed' = pushed /\ moved' = moved
  BY DEF Pull
<1>7. Prefix(Append(got[s], p), pushed[h])
  BY <1>1, <1>2, PrefixGrows
<1>8. session[d] = s
  OBVIOUS
<1>9. source[s] = h
  OBVIOUS
<1> HIDE DEF s, h, p
<1>10. Tables'
  BY TablesStep DEF Next
<1>11. (OneEnd /\ Unused /\ OneWriter /\ OnWire)'
  BY DEF Pull, encryptors, OneEnd, Unused, OneWriter, CarriesOn, OnWire, InPlace
<1>12. Unopened'
  BY <1>1, <1>5, <1>6, <1>9 DEF Unopened
<1>13. DeliveredIsPrefix'
  BY <1>5, <1>6, <1>7, <1>9 DEF DeliveredIsPrefix
<1>14. OneReader'
  <2>1. /\ dec'[d] = Advance(dec[d], c.msg, c.tag) /\ decFinal'[d] = (c.tag = "FINAL")
        /\ \A g \in Decs \ {d} : dec'[g] = dec[g] /\ decFinal'[g] = decFinal[g]
        /\ \A g \in Decs : ReadsOn(g)' => ReadsOn(g)
    BY <1>1, <1>6 DEF Tables, ReadsOn
  <2> SUFFICES ASSUME NEW f \in Decs, dec'[f] # None
               PROVE  /\ source'[session'[f]] # None
                      /\ decFinal'[f] => Ended(got'[session'[f]])
                      /\ f \notin moved' =>
                            /\ dec'[f].hdr = source'[session'[f]]
                            /\ dec'[f].log = got'[session'[f]]
                            /\ decFinal'[f] <=> Ended(got'[session'[f]])
                            /\ \A g \in Decs : ReadsOn(g)' /\ session'[g] = session'[f] => g = f
    BY DEF OneReader
  <2>2. CASE f = d
    <3>1. \A g \in Decs : ReadsOn(g) /\ session[g] = s => g = d
      BY <1>1, <1>8 DEF OneReader, ReadsOn
    <3>2. session'[d] = s /\ source'[s] = h /\ got'[s] = Append(got[s], p)
      BY <1>5, <1>6, <1>8, <1>9
    <3>3. dec'[d].hdr = h /\ dec'[d].log = Append(got[s], p)
      BY <2>1, <1>4
    <3>4. decFinal'[d] <=> Ended(got'[s])
      BY <2>1, <3>2, <1>3
    <3>5. \A g \in Decs : ReadsOn(g)' /\ session'[g] = session'[d] => g = d
      BY <2>1, <3>1, <1>6, <1>8
    <3> QED BY <2>2, <3>2, <3>3, <3>4, <3>5, <1>1
  <2>3. CASE f # d
    <3>1. dec[f] # None /\ session[f] \in Sessions
      BY <2>1, <2>3 DEF Tables
    <3>2. CASE session[f] = s
      <4>1. ~decFinal[f] /\ f \in moved
        BY <2>3, <3>1, <3>2, <1>1, <1>8 DEF OneReader, ReadsOn
      <4> QED BY <4>1, <2>1, <2>3, <3>1, <3>2, <1>1, <1>6, <1>9
    <3>3. CASE session[f] # s
      BY <2>1, <2>3, <3>1, <3>3, <1>5, <1>6 DEF OneReader, ReadsOn
    <3> QED BY <3>2, <3>3
  <2> QED BY <2>2, <2>3
<1> QED BY <1>10, <1>11, <1>12, <1>13, <1>14

LEMMA MoveDecryptorStep ==
  ASSUME IInv, ~TouchMovedFrom, NEW x \in Decs, NEW y \in Decs, MoveDecryptor(x, y)
  PROVE  IInv'
<1> USE DEF IInv
<1>1. ReadsOn(y) /\ x # y
  BY DEF MoveDecryptor, Usable, ReadsOn
<1>2. Tables'
  BY TablesStep DEF Next
<1>3. (OneEnd /\ Unused /\ OnWire /\ Unopened /\ DeliveredIsPrefix)'
  BY DEF MoveDecryptor, OneEnd, Unused, OnWire, InPlace, Unopened, DeliveredIsPrefix
<1>4. OneWriter'
  BY NamesAssumption DEF MoveDecryptor, encryptors, OneWriter, CarriesOn
<1>5. OneReader'
  <2>1. /\ dec'[x] = dec[y] /\ decFinal'[x] = decFinal[y] /\ session'[x] = session[y]
        /\ \A g \in Decs \ {x} : dec'[g] = dec[g] /\ decFinal'[g] = decFinal[g] /\ session'[g] = session[g]
        /\ y \in moved' /\ x \notin moved'
        /\ \A g \in Decs \ {x, y} : g \in moved' <=> g \in moved
    BY <1>1 DEF MoveDecryptor, Tables
  <2>2. source' = source /\ got' = got
    BY DEF MoveDecryptor
  <2> QED BY <1>1, <2>1, <2>2 DEF OneReader, ReadsOn
<1> QED BY <1>2, <1>3, <1>4, <1>5

LEMMA DestroyDecryptorStep ==
  ASSUME IInv, NEW d \in Decs, DestroyDecryptor(d)
  PROVE  IInv'
<1> USE DEF IInv
<1>1. Tables'
  BY TablesStep DEF Next
<1>2. (OneEnd /\ Unused /\ OnWire /\ Unopened /\ DeliveredIsPrefix)'
  BY DEF DestroyDecryptor, OneEnd, Unused, OnWire, InPlace, Unopened, DeliveredIsPrefix
<1>3. OneWriter'
  BY NamesAssumption DEF DestroyDecryptor, encryptors, OneWriter, CarriesOn
<1>4. OneReader'
  <2>1. /\ dec'[d] = None
        /\ \A g \in Decs \ {d} : /\ dec'[g] = dec[g] /\ decFinal'[g] = decFinal[g]
                                 /\ session'[g] = session[g] /\ (g \in moved' <=> g \in moved)
    BY DEF DestroyDecryptor, Tables
  <2> QED BY <2>1 DEF DestroyDecryptor, OneReader, ReadsOn
<1> QED BY <1>1, <1>2, <1>3, <1>4

LEMMA IInvStep == ASSUME ~TouchMovedFrom PROVE IInv /\ [Next]_vars => IInv'
<1> SUFFICES ASSUME IInv, [Next]_vars PROVE IInv'
  OBVIOUS
<1>1. ASSUME NEW e \in Encs, NEW k \in Keys, NEW h \in Headers, NewEncryptor(e, k, h) PROVE IInv'
  BY <1>1, NewEncryptorStep
<1>2. ASSUME NEW e \in Encs, NEW m \in Messages, Update(e, m) PROVE IInv'
  <2>1. encFinal' = [encFinal EXCEPT ![e] = ("MESSAGE" = "FINAL")]
    BY <1>2 DEF Update, IInv, Tables
  <2> QED BY <1>2, <2>1, PushStep DEF Update, Tags
<1>3. ASSUME NEW e \in Encs, NEW m \in Messages, Finalize(e, m) PROVE IInv'
  <2>1. encFinal' = [encFinal EXCEPT ![e] = ("FINAL" = "FINAL")]
    BY <1>3 DEF Finalize
  <2> QED BY <1>3, <2>1, PushStep DEF Finalize, Tags
<1>4. ASSUME NEW e \in Encs, NEW f \in Encs, MoveEncryptor(e, f) PROVE IInv'
  BY <1>4, MoveEncryptorStep
<1>5. ASSUME NEW e \in Encs, DestroyEncryptor(e) PROVE IInv'
  BY <1>5, DestroyEncryptorStep
<1>6. ASSUME NEW d \in Decs, NEW s \in Sessions, NEW k \in Keys, NEW h \in Headers,
             NewDecryptor(d, s, k, h) PROVE IInv'
  BY <1>6, NewDecryptorStep
<1>7. ASSUME NEW d \in Decs, NEW c \in wire, Pull(d, c) PROVE IInv'
  BY <1>7, PullStep
<1>8. ASSUME NEW d \in Decs, NEW f \in Decs, MoveDecryptor(d, f) PROVE IInv'
  BY <1>8, MoveDecryptorStep
<1>9. ASSUME NEW d \in Decs, DestroyDecryptor(d) PROVE IInv'
  BY <1>9, DestroyDecryptorStep
<1>10. CASE UNCHANGED vars
  BY <1>10 DEF vars, encryptors, decryptors, IInv, Tables, OneEnd, Unused, OneWriter, CarriesOn, OnWire, InPlace,
               OneReader, ReadsOn, Unopened, DeliveredIsPrefix
<1> QED BY <1>1, <1>2, <1>3, <1>4, <1>5, <1>6, <1>7, <1>8, <1>9, <1>10 DEF Next

\* The strengthening the theorems rest on.
LEMMA Invariance == ASSUME ~TouchMovedFrom PROVE Spec => []IInv
<1>1. IInv /\ [Next]_vars => IInv'
  BY IInvStep
<1> QED BY <1>1, IInvInit, PTL DEF Spec

-----------------------------------------------------------------------------
(***************************************************************************)
(* The properties, of programs that leave moved-from objects alone.        *)
(***************************************************************************)

\* No Encryptor, however it was moved, pushes two chunks under one state
\* (Encryptor::update and finalize): a state and its header say which part it is.
THEOREM StatesUsedOnce == ASSUME ~TouchMovedFrom PROVE Spec => []NoStateReuse
<1>1. IInv => NoStateReuse
  <2> SUFFICES ASSUME IInv, NEW b \in wire, NEW c \in wire, b.st = c.st PROVE b = c
    BY DEF NoStateReuse
  <2>1. Part(b.msg, b.tag) = Part(c.msg, c.tag)
    BY DEF IInv, OnWire, InPlace
  <2>2. b.msg = c.msg /\ b.tag = c.tag
    BY <2>1 DEF Part
  <2>3. b \in Chunks /\ c \in Chunks
    BY DEF IInv, Tables
  <2> QED BY <2>2, <2>3 DEF Chunks
<1> QED BY <1>1, Invariance, PTL

\* What pull hands over, through whichever Decryptors a session moves, is the
\* beginning of what was pushed with its header (Decryptor::pull).
THEOREM PrefixDelivered == ASSUME ~TouchMovedFrom PROVE Spec => []DeliveredIsPrefix
<1>1. IInv => DeliveredIsPrefix
  BY DEF IInv
<1> QED BY <1>1, Invariance, PTL

\* finalized() of a Decryptor, one that was moved from included, means that its
\* session has the whole stream.
THEOREM FinalComplete == ASSUME ~TouchMovedFrom PROVE Spec => []FinalMeansComplete
<1>1. IInv => FinalMeansComplete
  <2> SUFFICES ASSUME IInv, NEW d \in Decs, dec[d] # None, decFinal[d],
                      NEW s, s = session[d]
               PROVE  Ended(got[s]) /\ got[s] = pushed[source[s]]
    BY DEF FinalMeansComplete
  <2>1. s \in Sessions /\ source[s] # None /\ Ended(got[s])
    BY DEF IInv, Tables, OneReader
  <2>2. /\ source[s] \in Headers /\ got[s] \in Seq(Parts) /\ pushed[source[s]] \in Seq(Parts)
        /\ Prefix(got[s], pushed[source[s]])
    BY <2>1 DEF IInv, Tables, DeliveredIsPrefix
  <2>3. got[s] = pushed[source[s]]
    BY <2>1, <2>2, EndedPrefix DEF IInv, OneEnd
  <2> QED BY <2>1, <2>3
<1> QED BY <1>1, Invariance, PTL

-----------------------------------------------------------------------------
(***************************************************************************)
(* The refinement of StreamDelivery, step by step.                         *)
(***************************************************************************)
LEMMA TextsAppend ==
  ASSUME NEW s \in Seq(Parts), NEW p \in Parts
  PROVE  /\ Texts(s) \in Seq(Messages) /\ Len(Texts(s)) = Len(s)
         /\ Texts(Append(s, p)) = Append(Texts(s), p.msg)
<1>1. Len(s) \in Nat /\ p.msg \in Messages /\ \A i \in 1..Len(s) : s[i].msg \in Messages
  <2>1. Len(s) \in Nat /\ \A i \in 1..Len(s) : s[i] \in Parts
    OBVIOUS
  <2>2. \A q \in Parts : q.msg \in Messages
    BY DEF Parts
  <2> QED BY <2>1, <2>2
<1>2. Texts(s) \in Seq(Messages) /\ Len(Texts(s)) = Len(s)
      /\ \A i \in 1..Len(s) : Texts(s)[i] = s[i].msg
  BY <1>1 DEF Texts
<1>3. Append(s, p) \in Seq(Parts) /\ Len(Append(s, p)) = Len(s) + 1
      /\ (\A i \in 1..Len(s) : Append(s, p)[i] = s[i]) /\ Append(s, p)[Len(s) + 1] = p
  BY AppendPart
<1>4. /\ Texts(Append(s, p)) = [i \in 1..(Len(s) + 1) |-> Append(s, p)[i].msg]
      /\ Append(Texts(s), p.msg) \in Seq(Messages) /\ Len(Append(Texts(s), p.msg)) = Len(s) + 1
      /\ \A i \in 1..Len(s) : Append(Texts(s), p.msg)[i] = s[i].msg
      /\ Append(Texts(s), p.msg)[Len(s) + 1] = p.msg
  BY <1>1, <1>2, <1>3 DEF Texts
<1>5. \A i \in 1..(Len(s) + 1) : Append(s, p)[i].msg = Append(Texts(s), p.msg)[i]
  BY <1>1, <1>3, <1>4
<1> QED BY <1>1, <1>2, <1>4, <1>5

LEMMA TextsEmpty == Texts(<<>>) = <<>>
BY DEF Texts

LEMMA DeliveryInit == Init => Delivery!Init
BY TextsEmpty, EmptyLog DEF Init, Delivery!Init

\* update writes, finalize closes.
LEMMA PushRefines ==
  ASSUME IInv, ~TouchMovedFrom, NEW e \in Encs, NEW m \in Messages, NEW t \in Tags,
         enc[e] # None, Usable(e), ~encFinal[e], Push(e, m, t), source' = source, got' = got
  PROVE  IF t = "FINAL" THEN Delivery!Close(enc[e].hdr, m) ELSE Delivery!Write(enc[e].hdr, m)
<1> USE DEF IInv
<1> DEFINE h == enc[e].hdr
           p == Part(m, t)
<1>1. h \in Headers /\ ~Ended(pushed[h]) /\ pushed[h] \in Seq(Parts)
  BY DEF Tables, Usable, OneWriter, CarriesOn, States
<1>2. p \in Parts /\ p.msg = m /\ p.tag = t
  BY PartType
<1>3. pushed' = [pushed EXCEPT ![h] = Append(pushed[h], p)]
  BY DEF Push
<1> HIDE DEF h, p
<1>4. /\ Texts(Append(pushed[h], p)) = Append(Texts(pushed[h]), m)
      /\ Ended(Append(pushed[h], p)) <=> t = "FINAL"
  BY <1>1, <1>2, TextsAppend, AppendPart
<1>5. pushed \in [Headers -> Seq(Parts)]
  BY DEF Tables
<1>6. [g \in Headers |-> Texts(pushed'[g])]
        = [[g \in Headers |-> Texts(pushed[g])] EXCEPT ![h] = Append(@, m)]
  BY <1>1, <1>3, <1>4, <1>5
<1>7. {g \in Headers : Ended(pushed'[g])}
        = IF t = "FINAL" THEN {g \in Headers : Ended(pushed[g])} \cup {h}
          ELSE {g \in Headers : Ended(pushed[g])}
  BY <1>1, <1>3, <1>4, <1>5
<1>8. h \notin {g \in Headers : Ended(pushed[g])}
  BY <1>1
<1>9. h = enc[e].hdr
  BY DEF h
<1> QED BY <1>6, <1>7, <1>8, <1>9 DEF Delivery!Close, Delivery!Write

LEMMA NewDecryptorRefines ==
  ASSUME IInv, NEW d \in Decs, NEW s \in Sessions, NEW k \in Keys, NEW h \in Headers,
         NewDecryptor(d, s, k, h)
  PROVE  Delivery!Attach(s, h)
BY DEF NewDecryptor, Delivery!Attach

LEMMA PullRefines ==
  ASSUME IInv, ~TouchMovedFrom, NEW d \in Decs, NEW c \in wire, Pull(d, c)
  PROVE  session[d] \in Sessions /\ Delivery!Deliver(session[d])
<1> USE DEF IInv
<1> DEFINE s == session[d]
           h == source[s]
           p == Part(c.msg, c.tag)
<1>1. /\ s \in Sessions /\ h \in Headers /\ h # None
      /\ c.msg \in Messages /\ c.tag \in Tags
      /\ got[s] \in Seq(Parts) /\ pushed[h] \in Seq(Parts) /\ Prefix(got[s], pushed[h])
      /\ Len(got[s]) < Len(pushed[h])
      /\ pushed[h][Len(got[s]) + 1] = p
      /\ got' = [got EXCEPT ![s] = Append(got[s], p)]
  BY PullIsNext
<1>2. p \in Parts /\ p.msg = c.msg /\ p.tag = c.tag
  BY <1>1, PartType
<1>3. source' = source /\ pushed' = pushed /\ got \in [Sessions -> Seq(Parts)]
  BY DEF Pull, Tables
<1>4. h = source[s]
  OBVIOUS
<1>5. \A i \in 1..(Len(pushed[h]) - 1) : pushed[h][i].tag # "FINAL"
  BY <1>1 DEF OneEnd
<1> HIDE DEF s, h, p
<1> DEFINE written == [g \in Headers |-> Texts(pushed[g])]
           handed == [r \in Sessions |-> Texts(got[r])]
           closed == {g \in Headers : Ended(pushed[g])}
           complete == {r \in Sessions : Ended(got[r])}
           n == Len(handed[s]) + 1
<1>6. /\ Texts(Append(got[s], p)) = Append(Texts(got[s]), p.msg)
      /\ Len(Texts(got[s])) = Len(got[s])
      /\ Ended(Append(got[s], p)) <=> p.tag = "FINAL"
  BY <1>1, <1>2, TextsAppend, AppendPart
<1>7. Len(Texts(pushed[h])) = Len(pushed[h]) /\ Texts(pushed[h])[Len(got[s]) + 1] = p.msg
  BY <1>1, <1>2, TextsAppend DEF Texts
<1>8. n = Len(got[s]) + 1 /\ n <= Len(written[h]) /\ written[h][n] = p.msg
  BY <1>1, <1>6, <1>7
<1>9. handed' = [handed EXCEPT ![s] = Append(@, written[h][n])]
  BY <1>1, <1>3, <1>6, <1>8
<1>10. Ended(pushed[h]) /\ n = Len(pushed[h]) <=> p.tag = "FINAL"
  <2>1. n \in 1..Len(pushed[h]) /\ pushed[h][n] = p
    BY <1>1, <1>8
  <2>2. p.tag = "FINAL" => n = Len(pushed[h])
    BY <1>5, <2>1
  <2> QED BY <2>1, <2>2, <1>1 DEF Ended
<1>11. complete' = IF h \in closed /\ n = Len(written[h]) THEN complete \cup {s} ELSE complete
  <2>1. \A r \in Sessions : got'[r] = IF r = s THEN Append(got[s], p) ELSE got[r]
    BY <1>1, <1>3
  <2>2. h \in closed /\ n = Len(written[h]) <=> p.tag = "FINAL"
    BY <1>1, <1>7, <1>10
  <2>3. ~Ended(got[s])
    BY <1>1, PullIsNext DEF s
  <2> QED BY <1>1, <1>6, <2>1, <2>2, <2>3
<1>12. written' = written /\ closed' = closed
  BY <1>3
<1> QED BY <1>1, <1>3, <1>4, <1>8, <1>9, <1>11, <1>12 DEF Delivery!Deliver, s

LEMMA DeliveryStep ==
  ASSUME ~TouchMovedFrom PROVE IInv /\ [Next]_vars => [Delivery!Next]_(Delivery!vars)
<1> SUFFICES ASSUME IInv, [Next]_vars PROVE [Delivery!Next]_(Delivery!vars)
  OBVIOUS
<1>1. ASSUME NEW e \in Encs, NEW m \in Messages, Update(e, m) PROVE Delivery!Next
  <2>1. Delivery!Write(enc[e].hdr, m)
    BY <1>1, PushRefines DEF Update, Tags
  <2>2. enc[e].hdr \in Headers
    BY <1>1 DEF Update, IInv, Tables, States
  <2> QED BY <2>1, <2>2 DEF Delivery!Next
<1>2. ASSUME NEW e \in Encs, NEW m \in Messages, Finalize(e, m) PROVE Delivery!Next
  <2>1. Delivery!Close(enc[e].hdr, m)
    BY <1>2, PushRefines DEF Finalize, Tags
  <2>2. enc[e].hdr \in Headers
    BY <1>2 DEF Finalize, IInv, Tables, States
  <2> QED BY <2>1, <2>2 DEF Delivery!Next
<1>3. ASSUME NEW d \in Decs, NEW s \in Sessions, NEW k \in Keys, NEW h \in Headers,
             NewDecryptor(d, s, k, h) PROVE Delivery!Next
  BY <1>3, NewDecryptorRefines DEF Delivery!Next
<1>4. ASSUME NEW d \in Decs, NEW c \in wire, Pull(d, c) PROVE Delivery!Next
  BY <1>4, PullRefines DEF Delivery!Next
<1>5. ASSUME UNCHANGED <<pushed, source, got>> PROVE UNCHANGED Delivery!vars
  BY <1>5 DEF Delivery!vars
<1>6. ASSUME NEW e \in Encs, NEW k \in Keys, NEW h \in Headers, NewEncryptor(e, k, h)
      PROVE  UNCHANGED <<pushed, source, got>>
  BY <1>6 DEF NewEncryptor
<1>7. ASSUME NEW e \in Encs, NEW f \in Encs, MoveEncryptor(e, f)
      PROVE  UNCHANGED <<pushed, source, got>>
  BY <1>7 DEF MoveEncryptor
<1>8. ASSUME NEW e \in Encs, DestroyEncryptor(e) PROVE UNCHANGED <<pushed, source, got>>
  BY <1>8 DEF DestroyEncryptor
<1>9. ASSUME NEW d \in Decs, NEW f \in Decs, MoveDecryptor(d, f)
      PROVE  UNCHANGED <<pushed, source, got>>
  BY <1>9 DEF MoveDecryptor
<1>10. ASSUME NEW d \in Decs, DestroyDecryptor(d) PROVE UNCHANGED <<pushed, source, got>>
  BY <1>10 DEF DestroyDecryptor
<1>11. ASSUME UNCHANGED vars PROVE UNCHANGED <<pushed, source, got>>
  BY <1>11 DEF vars
<1>12. Delivery!Next \/ UNCHANGED <<pushed, source, got>>
  BY <1>1, <1>2, <1>3, <1>4, <1>6, <1>7, <1>8, <1>9, <1>10, <1>11 DEF Next
<1> QED BY <1>5, <1>12

\* Encryptors and Decryptors, moves and destruction included, over any channel,
\* do what StreamDelivery promises.
THEOREM ImplementsDelivery == ASSUME ~TouchMovedFrom PROVE Spec => KeepsPromise
<1>1. IInv /\ [Next]_vars => [Delivery!Next]_(Delivery!vars)
  BY DeliveryStep
<1> QED BY <1>1, DeliveryInit, Invariance, PTL DEF Spec, KeepsPromise, Delivery!Spec
=============================================================================
