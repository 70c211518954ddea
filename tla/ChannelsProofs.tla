--------------------------- MODULE ChannelsProofs ---------------------------
(***************************************************************************)
(* Proofs about the video table: its inductive invariant, and that it      *)
(* implements ChannelList, for all texts, authors, entries and bounds.     *)
(***************************************************************************)
EXTENDS Channels, SequenceTheorems, WellFoundedInduction, TLAPS

(* The parts of the invariant a step needs all at once. *)
IInv ==
  /\ TypeOK
  /\ OffsetsDelimitEntries
  /\ RsvInText
  /\ WithinCapacity

Text == Seq(Char)

(* The two calls, whatever the bounds of the model. *)
AddsAuthor(abs)   == channels' = channels_add_author(channels, abs)
AddsEntry(abs, a) == channels' = channels_add_entry(channels, abs, a)

-----------------------------------------------------------------------------
(* The arena *)

(* arena_append keeps what was there, and the view it returns for a text   *)
(* reads back as that text.                                                *)
LEMMA AppendKeeps ==
  ASSUME NEW t \in Text, NEW sv \in Sv
  PROVE  /\ arena_append(t, sv) \in Text
         /\ Len(t) <= Len(arena_append(t, sv))
         /\ \A i \in 1..Len(t) : arena_append(t, sv)[i] = t[i]
<1>1. CASE sv = Null
  BY <1>1 DEF arena_append, Text
<1>2. CASE sv # Null
  <2>1. sv \in Seq(Char)
    BY <1>2 DEF Sv
  <2>2. arena_append(t, sv) = t \o sv
    BY <1>2 DEF arena_append
  <2>3. /\ t \o sv \in Seq(Char)
        /\ Len(t \o sv) = Len(t) + Len(sv)
        /\ \A i \in 1..(Len(t) + Len(sv)) :
             (t \o sv)[i] = IF i <= Len(t) THEN t[i] ELSE sv[i - Len(t)]
    BY <2>1, ConcatProperties DEF Text
  <2>4. Len(t) \in Nat /\ Len(sv) \in Nat
    BY <2>1, LenProperties DEF Text
  <2> QED
    BY <2>2, <2>3, <2>4 DEF Text
<1> QED
  BY <1>1, <1>2

(* A stored view ends where the text appended does, and not before it      *)
(* begins.                                                                 *)
LEMMA RsvInBounds ==
  ASSUME NEW t \in Text, NEW sv \in Sv
  PROVE  /\ rsv_of(t, sv) \in Rsv
         /\ rsv_of(t, sv).begin <= rsv_of(t, sv).end
         /\ rsv_of(t, sv).end = Len(arena_append(t, sv))
<1>1. Len(t) \in Nat /\ Len(arena_append(t, sv)) \in Nat
  BY AppendKeeps, LenProperties DEF Text
<1> QED
  BY <1>1, AppendKeeps DEF rsv_of, Rsv

(* Reading a view that lies in t gives the same text from any extension.   *)
LEMMA ReadIsStable ==
  ASSUME NEW t \in Text, NEW u \in Text, NEW r \in Rsv,
         r.end <= Len(t), Len(t) <= Len(u),
         \A i \in 1..Len(t) : u[i] = t[i]
  PROVE  rsv_get(u, r) = rsv_get(t, r)
<1> DEFINE m == r.begin + 1
<1>1. m \in Int /\ r.end \in Int /\ m >= 1 /\ Len(t) \in Nat /\ Len(u) \in Nat
  BY LenProperties DEF Rsv, Text
<1>2. \A i \in m..r.end : t[i] \in Char /\ u[i] \in Char /\ u[i] = t[i]
  BY <1>1, ElementOfSeq DEF Text
<1> HIDE DEF m
<1>3. /\ SubSeq(t, m, r.end) \in Seq(Char)
      /\ Len(SubSeq(t, m, r.end)) = IF m <= r.end THEN r.end - m + 1 ELSE 0
      /\ \A i \in 1..(r.end - m + 1) : SubSeq(t, m, r.end)[i] = t[m + i - 1]
  BY <1>1, <1>2, SubSeqProperties
<1>4. /\ SubSeq(u, m, r.end) \in Seq(Char)
      /\ Len(SubSeq(u, m, r.end)) = IF m <= r.end THEN r.end - m + 1 ELSE 0
      /\ \A i \in 1..(r.end - m + 1) : SubSeq(u, m, r.end)[i] = u[m + i - 1]
  BY <1>1, <1>2, SubSeqProperties
<1>5. \A i \in 1..Len(SubSeq(u, m, r.end)) : SubSeq(u, m, r.end)[i] = SubSeq(t, m, r.end)[i]
  BY <1>1, <1>2, <1>3, <1>4
<1>6. SubSeq(u, m, r.end) = SubSeq(t, m, r.end)
  BY <1>3, <1>4, <1>5, SeqEqual
<1> QED
  BY <1>6 DEF rsv_get, m

(* A text reads back as itself right after it was appended. *)
LEMMA ReadsBack ==
  ASSUME NEW t \in Text, NEW sv \in Seq(Char), sv # Null
  PROVE  rsv_get(arena_append(t, sv), rsv_of(t, sv)) = sv
<1>1. /\ t \o sv \in Seq(Char)
      /\ Len(t \o sv) = Len(t) + Len(sv)
      /\ \A i \in 1..(Len(t) + Len(sv)) :
           (t \o sv)[i] = IF i <= Len(t) THEN t[i] ELSE sv[i - Len(t)]
  BY ConcatProperties DEF Text
<1>2. Len(t) \in Nat /\ Len(sv) \in Nat
  BY LenProperties DEF Text
<1> DEFINE m == Len(t) + 1
           n == Len(t) + Len(sv)
           u == t \o sv
<1>3. m \in Int /\ n \in Int /\ n - m + 1 = Len(sv) /\ m >= 1
  BY <1>2
<1>4. \A i \in m..n : u[i] \in Char
  BY <1>1, <1>2, ElementOfSeq
<1>5. rsv_get(arena_append(t, sv), rsv_of(t, sv)) = SubSeq(u, m, n)
  BY <1>1 DEF rsv_get, rsv_of, arena_append
<1>6. \A i \in 1..Len(sv) : u[m + i - 1] = sv[i]
  BY <1>1, <1>2
<1> HIDE DEF m, n, u
<1>7. /\ SubSeq(u, m, n) \in Seq(Char)
      /\ Len(SubSeq(u, m, n)) = IF m <= n THEN n - m + 1 ELSE 0
      /\ \A i \in 1..(n - m + 1) : SubSeq(u, m, n)[i] = u[m + i - 1]
  BY <1>3, <1>4, SubSeqProperties
<1>8. Len(SubSeq(u, m, n)) = Len(sv)
  BY <1>2, <1>3, <1>7
<1>9. \A i \in 1..Len(sv) : SubSeq(u, m, n)[i] = sv[i]
  BY <1>3, <1>6, <1>7
<1>10. SubSeq(u, m, n) = sv
  BY <1>7, <1>8, <1>9, SeqEqual
<1> QED
  BY <1>5, <1>10

-----------------------------------------------------------------------------
(* Capacities *)

(* A grown arena has room for the text. *)
LEMMA GrownHolds ==
  ASSUME NEW capacity \in Nat, NEW len \in Nat
  PROVE  arena_grown(capacity, len) \in Nat /\ len <= arena_grown(capacity, len)
BY DEF arena_grown

(* After safe_push there is room for one element more. *)
LEMMA PushedHolds ==
  ASSUME NEW size \in Nat, NEW capacity \in Nat, size <= capacity
  PROVE  pushed(size, capacity) \in Nat /\ size + 1 <= pushed(size, capacity)
BY DEF pushed

-----------------------------------------------------------------------------
(* The fields of one author or entry are three texts appended in a row.    *)

FieldsStored(t, x, y, z, t3, rx, ry, rz) ==
  /\ t3 \in Text
  /\ Len(t) <= Len(t3)
  /\ \A i \in 1..Len(t) : t3[i] = t[i]
  /\ \A r \in {rx, ry, rz} : r \in Rsv /\ r.begin <= r.end /\ r.end <= Len(t3)
  /\ x # Null => rsv_get(t3, rx) = x
  /\ y # Null => rsv_get(t3, ry) = y
  /\ z # Null => rsv_get(t3, rz) = z

(* Each of the three views lies in the final arena and reads back there.   *)
LEMMA ThreeFields ==
  ASSUME NEW t \in Text, NEW x \in Sv, NEW y \in Sv, NEW z \in Sv,
         NEW t1, t1 = arena_append(t, x),
         NEW t2, t2 = arena_append(t1, y),
         NEW t3, t3 = arena_append(t2, z)
  PROVE  FieldsStored(t, x, y, z, t3, rsv_of(t, x), rsv_of(t1, y), rsv_of(t2, z))
<1>1. t1 \in Text /\ Len(t) <= Len(t1) /\ \A i \in 1..Len(t) : t1[i] = t[i]
  BY AppendKeeps
<1>2. t2 \in Text /\ Len(t1) <= Len(t2) /\ \A i \in 1..Len(t1) : t2[i] = t1[i]
  BY <1>1, AppendKeeps
<1>3. t3 \in Text /\ Len(t2) <= Len(t3) /\ \A i \in 1..Len(t2) : t3[i] = t2[i]
  BY <1>2, AppendKeeps
<1>4. Len(t) \in Nat /\ Len(t1) \in Nat /\ Len(t2) \in Nat /\ Len(t3) \in Nat
  BY <1>1, <1>2, <1>3, LenProperties DEF Text
<1>5. \A i \in 1..Len(t1) : t3[i] = t1[i]
  BY <1>2, <1>3, <1>4
<1>6. \A i \in 1..Len(t) : t3[i] = t[i]
  BY <1>1, <1>4, <1>5
<1>7. /\ rsv_of(t, x) \in Rsv
      /\ rsv_of(t, x).begin <= rsv_of(t, x).end
      /\ rsv_of(t, x).end = Len(t1)
  BY RsvInBounds
<1>8. /\ rsv_of(t1, y) \in Rsv
      /\ rsv_of(t1, y).begin <= rsv_of(t1, y).end
      /\ rsv_of(t1, y).end = Len(t2)
  BY <1>1, RsvInBounds
<1>9. /\ rsv_of(t2, z) \in Rsv
      /\ rsv_of(t2, z).begin <= rsv_of(t2, z).end
      /\ rsv_of(t2, z).end = Len(t3)
  BY <1>2, RsvInBounds
<1>10. x # Null => rsv_get(t3, rsv_of(t, x)) = x
  <2> SUFFICES ASSUME x # Null PROVE rsv_get(t3, rsv_of(t, x)) = x
    OBVIOUS
  <2>1. x \in Seq(Char)
    BY DEF Sv
  <2>2. rsv_get(t1, rsv_of(t, x)) = x
    BY <2>1, ReadsBack
  <2>3. Len(t1) <= Len(t3)
    BY <1>2, <1>3, <1>4
  <2>4. rsv_get(t3, rsv_of(t, x)) = rsv_get(t1, rsv_of(t, x))
    BY <1>1, <1>3, <1>4, <1>5, <1>7, <2>3, ReadIsStable
  <2> QED
    BY <2>2, <2>4
<1>11. y # Null => rsv_get(t3, rsv_of(t1, y)) = y
  <2> SUFFICES ASSUME y # Null PROVE rsv_get(t3, rsv_of(t1, y)) = y
    OBVIOUS
  <2>1. y \in Seq(Char)
    BY DEF Sv
  <2>2. rsv_get(t2, rsv_of(t1, y)) = y
    BY <1>1, <2>1, ReadsBack
  <2>3. rsv_get(t3, rsv_of(t1, y)) = rsv_get(t2, rsv_of(t1, y))
    BY <1>2, <1>3, <1>4, <1>8, ReadIsStable
  <2> QED
    BY <2>2, <2>3
<1>12. z # Null => rsv_get(t3, rsv_of(t2, z)) = z
  BY <1>2, ReadsBack DEF Sv
<1>13. \A r \in {rsv_of(t, x), rsv_of(t1, y), rsv_of(t2, z)} :
         r \in Rsv /\ r.begin <= r.end /\ r.end <= Len(t3)
  BY <1>2, <1>3, <1>4, <1>7, <1>8, <1>9
<1>14. Len(t) <= Len(t3)
  BY <1>1, <1>2, <1>3, <1>4
<1> QED
  BY <1>3, <1>6, <1>10, <1>11, <1>12, <1>13, <1>14 DEF FieldsStored

-----------------------------------------------------------------------------
(* The inductive invariant *)

AuthorRec == [uri : Rsv, name : Rsv, published : Rsv]
EntryRec  == [id : Rsv, title : Rsv, description : Rsv]
Capacity  == [authors : Nat, offsets : Nat, entries : Nat, text : Nat]

(* TypeOK field by field. *)
LEMMA Components ==
  ASSUME TypeOK
  PROVE  /\ channels.authors \in Seq(AuthorRec)
         /\ channels.offsets \in Seq(Nat)
         /\ channels.entries \in Seq(EntryRec)
         /\ channels.text \in Text
         /\ channels.capacity \in Capacity
         /\ Len(channels.authors) \in Nat
         /\ Len(channels.offsets) \in Nat
         /\ Len(channels.entries) \in Nat
         /\ Len(channels.text) \in Nat
<1>1. /\ channels.authors \in Seq(AuthorRec)
      /\ channels.offsets \in Seq(Nat)
      /\ channels.entries \in Seq(EntryRec)
      /\ channels.text \in Text
      /\ channels.capacity \in Capacity
  BY DEF TypeOK, AuthorRec, EntryRec, Capacity, Text
<1> QED
  BY <1>1, LenProperties DEF Text

(* A view into the arena is still one after the arena has grown. *)
LEMMA StaysInText ==
  ASSUME NEW t, NEW u, Len(t) \in Nat, Len(u) \in Nat, Len(t) <= Len(u)
  PROVE  /\ \A author \in AuthorRec : AuthorInText(author, t) => AuthorInText(author, u)
         /\ \A entry \in EntryRec : EntryInText(entry, t) => EntryInText(entry, u)
<1>1. \A rsv \in Rsv : InText(rsv, t) => InText(rsv, u)
  BY DEF InText, Rsv
<1> QED
  BY <1>1 DEF AuthorInText, EntryInText, AuthorRec, EntryRec

(* A new table is sound. *)
LEMMA InitInv == Init => IInv
<1> SUFFICES ASSUME Init PROVE IInv
  OBVIOUS
<1>1. channels = channels_create
  BY DEF Init
<1>2. /\ channels.authors = <<>> /\ channels.offsets = <<0>>
      /\ channels.entries = <<>> /\ channels.text = <<>>
  BY <1>1 DEF channels_create
<1>3. TypeOK
  BY <1>1, BoundAssumption DEF channels_create, TypeOK
<1>4. OffsetsDelimitEntries
  BY <1>2 DEF OffsetsDelimitEntries
<1>5. RsvInText
  BY <1>2 DEF RsvInText
<1>6. WithinCapacity
  BY <1>1, BoundAssumption DEF channels_create, WithinCapacity
<1> QED
  BY <1>3, <1>4, <1>5, <1>6 DEF IInv

(* An author added keeps the table sound. *)
LEMMA AddAuthorInv ==
  ASSUME IInv, NEW abs \in AuthorAbs, AddsAuthor(abs)
  PROVE  IInv'
<1> DEFINE t  == channels.text
           t1 == arena_append(t, abs.uri)
           t2 == arena_append(t1, abs.name)
           t3 == arena_append(t2, abs.published)
           author == [ uri |-> rsv_of(t, abs.uri), name |-> rsv_of(t1, abs.name),
                       published |-> rsv_of(t2, abs.published) ]
           last == channels.offsets[Len(channels.offsets)]
           c == channels.capacity
           g1 == arena_grown(c.text, Len(t1))
           g2 == arena_grown(g1, Len(t2))
           g3 == arena_grown(g2, Len(t3))
<1>1. TypeOK /\ OffsetsDelimitEntries /\ RsvInText /\ WithinCapacity
  BY DEF IInv
<1>2. /\ channels.authors \in Seq(AuthorRec)
      /\ channels.offsets \in Seq(Nat)
      /\ channels.entries \in Seq(EntryRec)
      /\ t \in Text
      /\ c \in Capacity
      /\ Len(channels.authors) \in Nat /\ Len(channels.offsets) \in Nat
      /\ Len(channels.entries) \in Nat /\ Len(t) \in Nat
  BY <1>1, Components
<1>3. abs.uri \in Sv /\ abs.name \in Sv /\ abs.published \in Sv
  BY AuthorAssumption DEF Sv
<1>4. FieldsStored(t, abs.uri, abs.name, abs.published, t3,
                   author.uri, author.name, author.published)
  BY <1>2, <1>3, ThreeFields
<1>5. channels' = [ authors  |-> Append(channels.authors, author),
                    offsets  |-> Append(channels.offsets, last),
                    entries  |-> channels.entries,
                    text     |-> t3,
                    capacity |-> [ authors |-> pushed(Len(channels.authors), c.authors),
                                   offsets |-> pushed(Len(channels.offsets), c.offsets),
                                   entries |-> c.entries,
                                   text    |-> g3 ] ]
  BY DEF AddsAuthor, channels_add_author
<1>6. t1 \in Text /\ t2 \in Text /\ t3 \in Text
  BY <1>2, <1>3, AppendKeeps
<1>7. Len(t1) \in Nat /\ Len(t2) \in Nat /\ Len(t3) \in Nat
  BY <1>6, LenProperties DEF Text
<1>8. g3 \in Nat /\ Len(t3) <= g3
  BY <1>2, <1>7, GrownHolds DEF Capacity
<1> HIDE DEF t, t1, t2, t3, g1, g2, g3
<1>9. author \in AuthorRec
  BY <1>4 DEF FieldsStored, AuthorRec
<1>10. last \in Nat /\ Len(channels.offsets) \in 1..Len(channels.offsets)
  BY <1>1, <1>2, ElementOfSeq DEF OffsetsDelimitEntries
<1> HIDE DEF author, last, c
<1>11. /\ Append(channels.authors, author) \in Seq(AuthorRec)
       /\ Len(Append(channels.authors, author)) = Len(channels.authors) + 1
       /\ \A i \in 1..Len(channels.authors) :
            Append(channels.authors, author)[i] = channels.authors[i]
       /\ Append(channels.authors, author)[Len(channels.authors) + 1] = author
  BY <1>2, <1>9, AppendProperties
<1>12. /\ Append(channels.offsets, last) \in Seq(Nat)
       /\ Len(Append(channels.offsets, last)) = Len(channels.offsets) + 1
       /\ \A i \in 1..Len(channels.offsets) :
            Append(channels.offsets, last)[i] = channels.offsets[i]
       /\ Append(channels.offsets, last)[Len(channels.offsets) + 1] = last
  BY <1>2, <1>10, AppendProperties
<1>13. /\ pushed(Len(channels.authors), c.authors) \in Nat
       /\ Len(channels.authors) + 1 <= pushed(Len(channels.authors), c.authors)
       /\ pushed(Len(channels.offsets), c.offsets) \in Nat
       /\ Len(channels.offsets) + 1 <= pushed(Len(channels.offsets), c.offsets)
  BY <1>1, <1>2, PushedHolds DEF WithinCapacity, Capacity, c
<1>14. TypeOK'
  BY <1>2, <1>5, <1>6, <1>8, <1>11, <1>12, <1>13
     DEF TypeOK, AuthorRec, EntryRec, Capacity, Text
<1>15. OffsetsDelimitEntries'
  <2>1. last = Len(channels.entries)
    BY <1>1 DEF OffsetsDelimitEntries, last
  <2>2. \A i \in 1..Len(channels.offsets) :
          channels.offsets[i] \in Nat /\ channels.offsets[i] <= last
    <3> SUFFICES ASSUME NEW i \in 1..Len(channels.offsets)
                 PROVE  channels.offsets[i] \in Nat /\ channels.offsets[i] <= last
      OBVIOUS
    <3>1. i <= Len(channels.offsets)
      BY <1>2
    <3> QED
      BY <1>1, <1>2, <1>10, <3>1, ElementOfSeq DEF OffsetsDelimitEntries, last
  <2>3. channels'.offsets = Append(channels.offsets, last)
    BY <1>5
  <2>4. \A i, j \in 1..Len(channels'.offsets) :
          i <= j => channels'.offsets[i] <= channels'.offsets[j]
    <3> SUFFICES ASSUME NEW i \in 1..(Len(channels.offsets) + 1),
                        NEW j \in 1..(Len(channels.offsets) + 1), i <= j
                 PROVE  channels'.offsets[i] <= channels'.offsets[j]
      BY <1>12, <2>3
    <3>1. CASE j <= Len(channels.offsets)
      <4>1. i \in 1..Len(channels.offsets) /\ j \in 1..Len(channels.offsets)
        BY <1>2, <3>1
      <4>2. channels'.offsets[i] = channels.offsets[i] /\ channels'.offsets[j] = channels.offsets[j]
        BY <1>12, <2>3, <4>1
      <4>3. channels.offsets[i] <= channels.offsets[j]
        BY <1>1, <4>1 DEF OffsetsDelimitEntries
      <4> QED
        BY <4>2, <4>3
    <3>2. CASE j = Len(channels.offsets) + 1
      <4>1. channels'.offsets[j] = last
        BY <1>12, <2>3, <3>2
      <4>2. CASE i = j
        BY <1>10, <4>1, <4>2
      <4>3. CASE i # j
        <5>1. i \in 1..Len(channels.offsets)
          BY <1>2, <3>2, <4>3
        <5> QED
          BY <1>12, <2>2, <2>3, <4>1, <5>1
      <4> QED
        BY <4>2, <4>3
    <3>3. Len(channels.offsets) \in Nat
      BY <1>2
    <3>4. j <= Len(channels.offsets) \/ j = Len(channels.offsets) + 1
      BY <3>3
    <3> QED
      BY <3>1, <3>2, <3>4
  <2>5. Len(channels'.offsets) = Len(channels'.authors) + 1
    BY <1>1, <1>5, <1>11, <1>12 DEF OffsetsDelimitEntries
  <2>6. channels'.offsets[1] = 0
    BY <1>1, <1>10, <1>12, <2>3 DEF OffsetsDelimitEntries
  <2>7. channels'.offsets[Len(channels'.offsets)] = Len(channels'.entries)
    BY <1>5, <1>12, <2>1, <2>3
  <2> QED
    BY <2>4, <2>5, <2>6, <2>7 DEF OffsetsDelimitEntries
<1>16. RsvInText'
  <2>1. Len(t) <= Len(t3)
    BY <1>4 DEF FieldsStored
  <2>2. \A i \in 1..Len(channels.authors) : AuthorInText(channels.authors[i], t3)
    BY <1>1, <1>2, <1>7, <2>1, ElementOfSeq, StaysInText DEF RsvInText, t
  <2>3. \A i \in 1..Len(channels.entries) : EntryInText(channels.entries[i], t3)
    BY <1>1, <1>2, <1>7, <2>1, ElementOfSeq, StaysInText DEF RsvInText, t
  <2>4. AuthorInText(author, t3)
    BY <1>4 DEF FieldsStored, AuthorInText, InText
  <2>5. /\ channels'.authors = Append(channels.authors, author)
        /\ channels'.entries = channels.entries
        /\ channels'.text = t3
    BY <1>5
  <2> QED
    BY <1>1, <1>2, <1>11, <2>2, <2>3, <2>4, <2>5 DEF RsvInText
<1>17. WithinCapacity'
  BY <1>1, <1>5, <1>8, <1>11, <1>12, <1>13 DEF WithinCapacity, c
<1> QED
  BY <1>14, <1>15, <1>16, <1>17 DEF IInv

-----------------------------------------------------------------------------
(* Adding an entry *)

(* What the shifting loop leaves is one element longer. *)
LEMMA ShiftedProperties ==
  ASSUME NEW S, NEW s \in Seq(S), NEW i \in 1..(Len(s) + 1), NEW e \in S
  PROVE  /\ Shifted(s, i, e) \in Seq(S)
         /\ Len(Shifted(s, i, e)) = Len(s) + 1
<1> DEFINE f == [ k \in 1..(Len(s) + 1) |->
                    IF k < i THEN s[k] ELSE IF k = i THEN e ELSE s[k - 1] ]
<1>1. Len(s) \in Nat
  BY LenProperties
<1>2. f \in [1..(Len(s) + 1) -> S]
  BY <1>1, ElementOfSeq
<1>3. f \in Seq(S) /\ Len(f) = Len(s) + 1
  BY <1>1, <1>2, IsASeq, LenProperties
<1>4. Shifted(s, i, e) = f
  BY DEF Shifted
<1> QED
  BY <1>3, <1>4

(* What one call of channels_add_entry does to the table, part by part. *)
EntryAdded(abs, a, curr, index, t3, g) ==
  /\ curr \in EntryRec
  /\ index = channels.offsets[a + 1]
  /\ index \in 0..Len(channels.entries)
  /\ FieldsStored(channels.text, abs.id, abs.title, abs.description,
                  t3, curr.id, curr.title, curr.description)
  /\ g \in Nat /\ Len(t3) <= g
  /\ channels' = [ authors  |-> channels.authors,
                   offsets  |-> [ k \in 1..Len(channels.offsets) |->
                                    IF k > a THEN channels.offsets[k] + 1
                                             ELSE channels.offsets[k] ],
                   entries  |-> Shifted(channels.entries, index + 1, curr),
                   text     |-> t3,
                   capacity |-> [ authors |-> channels.capacity.authors,
                                  offsets |-> channels.capacity.offsets,
                                  entries |-> pushed(Len(channels.entries),
                                                     channels.capacity.entries),
                                  text    |-> g ] ]

(* The index an entry is added at lies between the runs of the authors     *)
(* before it and those after it.                                           *)
LEMMA OffsetBounds ==
  ASSUME IInv
  PROVE  /\ Len(channels.offsets) = Len(channels.authors) + 1
         /\ Len(channels.offsets) \in Nat /\ Len(channels.authors) \in Nat
         /\ Len(channels.entries) \in Nat
         /\ \A i \in 1..Len(channels.offsets) :
              channels.offsets[i] \in 0..Len(channels.entries)
<1>1. TypeOK /\ OffsetsDelimitEntries
  BY DEF IInv
<1>2. /\ channels.offsets \in Seq(Nat)
      /\ Len(channels.offsets) \in Nat /\ Len(channels.authors) \in Nat
      /\ Len(channels.entries) \in Nat
  BY <1>1, Components
<1>3. Len(channels.offsets) = Len(channels.authors) + 1
  BY <1>1 DEF OffsetsDelimitEntries
<1>4. Len(channels.offsets) \in 1..Len(channels.offsets)
  BY <1>2, <1>3
<1>5. ASSUME NEW i \in 1..Len(channels.offsets)
      PROVE  channels.offsets[i] \in 0..Len(channels.entries)
  <2>1. channels.offsets[i] \in Nat
    BY <1>2, ElementOfSeq
  <2>2. i <= Len(channels.offsets)
    BY <1>2
  <2>3. channels.offsets[i] <= channels.offsets[Len(channels.offsets)]
    BY <1>1, <1>4, <2>2 DEF OffsetsDelimitEntries
  <2>4. channels.offsets[i] <= Len(channels.entries)
    BY <1>1, <2>3 DEF OffsetsDelimitEntries
  <2> QED
    BY <1>2, <2>1, <2>4
<1> QED
  BY <1>2, <1>3, <1>5

(* The parts of the table after an entry was added, each by its name. *)
LEMMA AddedParts ==
  ASSUME IInv, NEW abs \in EntryAbs, NEW a \in 1..Len(channels.authors),
         AddsEntry(abs, a)
  PROVE  \E curr, index, t3, g : EntryAdded(abs, a, curr, index, t3, g)
<1> DEFINE t  == channels.text
           t1 == arena_append(t, abs.id)
           t2 == arena_append(t1, abs.title)
           t3 == arena_append(t2, abs.description)
           curr == [ id |-> rsv_of(t, abs.id), title |-> rsv_of(t1, abs.title),
                     description |-> rsv_of(t2, abs.description) ]
           index == channels.offsets[a + 1]
           g1 == arena_grown(channels.capacity.text, Len(t1))
           g2 == arena_grown(g1, Len(t2))
           g3 == arena_grown(g2, Len(t3))
<1>1. t \in Text /\ channels.capacity \in Capacity
  BY Components DEF IInv
<1>2. abs.id \in Sv /\ abs.title \in Sv /\ abs.description \in Sv
  BY EntryAssumption
<1>3. t1 \in Text /\ t2 \in Text /\ t3 \in Text
  BY <1>1, <1>2, AppendKeeps
<1>4. Len(t1) \in Nat /\ Len(t2) \in Nat /\ Len(t3) \in Nat
  BY <1>3, LenProperties DEF Text
<1>5. g3 \in Nat /\ Len(t3) <= g3
  BY <1>1, <1>4, GrownHolds DEF Capacity
<1>6. FieldsStored(t, abs.id, abs.title, abs.description, t3,
                   curr.id, curr.title, curr.description)
  BY <1>1, <1>2, ThreeFields
<1>7. curr \in EntryRec
  <2> HIDE DEF t, t1, t2, t3
  <2> QED
    BY <1>6 DEF FieldsStored, EntryRec
<1>8. index \in 0..Len(channels.entries)
  BY OffsetBounds
<1>9. EntryAdded(abs, a, curr, index, t3, g3)
  BY <1>5, <1>6, <1>7, <1>8 DEF EntryAdded, AddsEntry, channels_add_entry, Raised
<1> QED
  BY <1>9
(* Those parts make a sound table. *)
LEMMA EntryAddedInv ==
  ASSUME IInv, NEW a \in 1..Len(channels.authors),
         NEW abs, NEW curr, NEW index, NEW t3, NEW g,
         EntryAdded(abs, a, curr, index, t3, g)
  PROVE  IInv'
<1> DEFINE off == channels.offsets
           off2 == [ k \in 1..Len(off) |-> IF k > a THEN off[k] + 1 ELSE off[k] ]
           ent == channels.entries
           ent2 == Shifted(ent, index + 1, curr)
           c == channels.capacity
<1>1. TypeOK /\ OffsetsDelimitEntries /\ RsvInText /\ WithinCapacity
  BY DEF IInv
<1>2. /\ channels.authors \in Seq(AuthorRec) /\ off \in Seq(Nat) /\ ent \in Seq(EntryRec)
      /\ channels.text \in Text /\ c \in Capacity
      /\ Len(channels.authors) \in Nat /\ Len(off) \in Nat /\ Len(ent) \in Nat
      /\ Len(channels.text) \in Nat
  BY <1>1, Components
<1>3. /\ channels'.authors = channels.authors
      /\ channels'.offsets = off2
      /\ channels'.entries = ent2
      /\ channels'.text = t3
      /\ channels'.capacity = [ authors |-> c.authors, offsets |-> c.offsets,
                                entries |-> pushed(Len(ent), c.entries), text |-> g ]
      /\ DOMAIN channels' = {"authors", "offsets", "entries", "text", "capacity"}
  BY DEF EntryAdded
<1>4. /\ Len(off) = Len(channels.authors) + 1
      /\ \A i \in 1..Len(off) : off[i] \in 0..Len(ent)
  BY OffsetBounds
<1>5. /\ off2 \in Seq(Nat) /\ Len(off2) = Len(off)
      /\ \A k \in 1..Len(off) : off2[k] = IF k > a THEN off[k] + 1 ELSE off[k]
  <2>1. \A k \in 1..Len(off) : off[k] \in Nat
    BY <1>2, ElementOfSeq
  <2>2. off2 \in [1..Len(off) -> Nat]
    BY <2>1
  <2> QED
    BY <1>2, <2>2, IsASeq, LenProperties
<1>6. /\ ent2 \in Seq(EntryRec) /\ Len(ent2) = Len(ent) + 1
      /\ \A k \in 1..(Len(ent) + 1) :
           ent2[k] = IF k < index + 1 THEN ent[k]
                     ELSE IF k = index + 1 THEN curr ELSE ent[k - 1]
  <2>1. curr \in EntryRec /\ index \in 0..Len(ent)
    BY DEF EntryAdded
  <2>2. index + 1 \in 1..(Len(ent) + 1)
    BY <1>2, <2>1
  <2> DEFINE at == index + 1
  <2>3. ent2 = Shifted(ent, at, curr) /\ ent \in Seq(EntryRec) /\ at \in 1..(Len(ent) + 1)
    BY <1>2, <2>2
  <2> HIDE DEF ent2, at
  <2>4. /\ ent2 \in Seq(EntryRec) /\ Len(ent2) = Len(ent) + 1
        /\ \A k \in 1..(Len(ent) + 1) :
             ent2[k] = IF k < at THEN ent[k] ELSE IF k = at THEN curr ELSE ent[k - 1]
    <3>1. /\ Shifted(ent, at, curr) \in Seq(EntryRec)
          /\ Len(Shifted(ent, at, curr)) = Len(ent) + 1
      BY <2>1, <2>3, ShiftedProperties
    <3>2. \A k \in 1..(Len(ent) + 1) :
             Shifted(ent, at, curr)[k] =
               IF k < at THEN ent[k] ELSE IF k = at THEN curr ELSE ent[k - 1]
      BY DEF Shifted
    <3> QED
      BY <2>3, <3>1, <3>2
  <2> QED
    BY <2>4 DEF at
<1>7. /\ t3 \in Text /\ Len(t3) \in Nat /\ Len(channels.text) <= Len(t3)
      /\ g \in Nat /\ Len(t3) <= g
  BY LenProperties DEF EntryAdded, FieldsStored, Text
<1>8. /\ pushed(Len(ent), c.entries) \in Nat
      /\ Len(ent) + 1 <= pushed(Len(ent), c.entries)
  BY <1>1, <1>2, PushedHolds DEF WithinCapacity, Capacity
<1> HIDE DEF off2, ent2
<1>9. TypeOK'
  <2>1. channels' = [ authors |-> channels.authors, offsets |-> off2, entries |-> ent2,
                      text |-> t3,
                      capacity |-> [ authors |-> c.authors, offsets |-> c.offsets,
                                     entries |-> pushed(Len(ent), c.entries), text |-> g ] ]
    BY DEF EntryAdded, off2, ent2
  <2> QED
    BY <1>2, <1>5, <1>6, <1>7, <1>8, <2>1 DEF TypeOK, AuthorRec, EntryRec, Capacity, Text
<1>10. OffsetsDelimitEntries'
  <2>1. off2[1] = 0 /\ off2[Len(off)] = Len(ent) + 1
    <3>1. off[1] = 0 /\ off[Len(off)] = Len(ent)
      BY <1>1 DEF OffsetsDelimitEntries
    <3>2. a \in Nat /\ 1 <= a /\ a < Len(off) /\ 1 \in 1..Len(off) /\ Len(off) \in 1..Len(off)
      BY <1>2, <1>4
    <3>3. off2[1] = off[1]
      BY <1>5, <3>2
    <3>4. off2[Len(off)] = off[Len(off)] + 1
      BY <1>5, <3>2
    <3> QED
      BY <3>1, <3>3, <3>4
  <2>2. \A i, j \in 1..Len(off) : i <= j => off2[i] <= off2[j]
    <3> SUFFICES ASSUME NEW i \in 1..Len(off), NEW j \in 1..Len(off), i <= j
                 PROVE  off2[i] <= off2[j]
      OBVIOUS
    <3>1. off[i] <= off[j] /\ off[i] \in Nat /\ off[j] \in Nat
      BY <1>1, <1>4 DEF OffsetsDelimitEntries
    <3>2. off2[i] = (IF i > a THEN off[i] + 1 ELSE off[i])
      BY <1>5
    <3>3. off2[j] = (IF j > a THEN off[j] + 1 ELSE off[j])
      BY <1>5
    <3>4. a \in Nat /\ i \in Nat /\ j \in Nat
      BY <1>2
    <3> QED
      BY <3>1, <3>2, <3>3, <3>4
  <2> QED
    BY <1>3, <1>4, <1>5, <1>6, <2>1, <2>2 DEF OffsetsDelimitEntries
<1>11. RsvInText'
  <2>1. \A i \in 1..Len(channels.authors) : AuthorInText(channels.authors[i], t3)
    BY <1>1, <1>2, <1>7, ElementOfSeq, StaysInText DEF RsvInText
  <2>2. \A k \in 1..Len(ent) : EntryInText(ent[k], t3)
    BY <1>1, <1>2, <1>7, ElementOfSeq, StaysInText DEF RsvInText
  <2>3. EntryInText(curr, t3)
    BY DEF EntryAdded, FieldsStored, EntryInText, InText
  <2>4. \A k \in 1..Len(ent2) : EntryInText(ent2[k], t3)
    <3> SUFFICES ASSUME NEW k \in 1..(Len(ent) + 1) PROVE EntryInText(ent2[k], t3)
      BY <1>6
    <3>1. index \in 0..Len(ent)
      BY DEF EntryAdded
    <3>2. CASE k < index + 1
      BY <1>2, <1>6, <2>2, <3>1, <3>2
    <3>3. CASE k = index + 1
      BY <1>6, <2>3, <3>3
    <3>4. CASE k > index + 1
      <4>1. ent2[k] = ent[k - 1] /\ k - 1 \in 1..Len(ent)
        BY <1>2, <1>6, <3>1, <3>4
      <4> QED
        BY <2>2, <4>1
    <3> QED
      BY <1>2, <3>1, <3>2, <3>3, <3>4
  <2> QED
    BY <1>3, <2>1, <2>4 DEF RsvInText
<1>12. WithinCapacity'
  BY <1>1, <1>3, <1>5, <1>6, <1>7, <1>8 DEF WithinCapacity
<1> QED
  BY <1>9, <1>10, <1>11, <1>12 DEF IInv

(* An entry added keeps the table sound. *)
LEMMA AddEntryInv ==
  ASSUME IInv, NEW abs \in EntryAbs, NEW a \in 1..Len(channels.authors),
         AddsEntry(abs, a)
  PROVE  IInv'
BY AddedParts, EntryAddedInv

(* Every step keeps the table sound. *)
LEMMA NextInv == IInv /\ [Next]_channels => IInv'
<1> SUFFICES ASSUME IInv, [Next]_channels PROVE IInv'
  OBVIOUS
<1>1. ASSUME NEW abs \in AuthorAbs, NewAuthor(abs) PROVE IInv'
  BY <1>1, AddAuthorInv DEF NewAuthor, AddsAuthor
<1>2. ASSUME NEW abs \in EntryAbs, NEW a \in 1..Len(channels.authors), NewEntry(abs, a)
      PROVE  IInv'
  BY <1>2, AddEntryInv DEF NewEntry, AddsEntry
<1>3. CASE UNCHANGED channels
  BY <1>3 DEF IInv, TypeOK, OffsetsDelimitEntries, RsvInText, WithinCapacity
<1> QED
  BY <1>1, <1>2, <1>3 DEF Next

-----------------------------------------------------------------------------
(* Results *)

(* However many authors and entries a feed brings, and however they        *)
(* interleave, the invariant holds between two calls.                      *)
THEOREM Invariant == Spec => []IInv
BY InitInv, NextInv, PTL DEF Spec

(* The table always is a channels_t.                                       *)
THEOREM TypeCorrect == Spec => []TypeOK
BY Invariant, PTL DEF IInv

(* channels_add_author and channels_add_entry keep `offsets` a partition   *)
(* of `entries`, for any number of authors and entries.                    *)
THEOREM OffsetsPartition == Spec => []OffsetsDelimitEntries
BY Invariant, PTL DEF IInv

(* No stored view ever leaves the arena, whatever fields are missing.      *)
THEOREM ViewsInArena == Spec => []RsvInText
BY Invariant, PTL DEF IInv

(* No write is ever made past an allocation.                               *)
THEOREM NoOverrun == Spec => []WithinCapacity
BY Invariant, PTL DEF IInv
-----------------------------------------------------------------------------
(* The refinement *)

(* A set of numbers has a least one. *)
LEMMA LeastElement ==
  ASSUME NEW T, T \subseteq Nat, T # {}
  PROVE  \E x \in T : \A y \in T : x <= y
<1>1. IsWellFoundedOn(OpToRel(<, Nat), Nat)
  BY NatLessThanWellFounded
<1>2. PICK x \in T : \A y \in T : ~ (<<y, x>> \in OpToRel(<, Nat))
  BY <1>1, WFMin
<1>3. \A y \in T : ~ (y < x)
  BY <1>2 DEF OpToRel
<1> QED
  BY <1>3

(* channels_find_author reports an unknown uri only when no author has it. *)
LEMMA FindAuthor ==
  ASSUME NEW uri, Len(channels.authors) \in Nat, channels_find_author(channels, uri) = 0
  PROVE  \A i \in 1..Len(channels.authors) : ReadAuthor(channels, i).uri # uri
<1> DEFINE same == {i \in 1..Len(channels.authors) :
                      rsv_get(channels.text, channels.authors[i].uri) = uri}
<1>1. ASSUME same # {} PROVE FALSE
  <2>1. same \subseteq Nat \ {0}
    OBVIOUS
  <2>2. \E i \in same : \A j \in same : i <= j
    BY <1>1, <2>1, LeastElement
  <2>3. channels_find_author(channels, uri) \in same
    BY <1>1, <2>2 DEF channels_find_author
  <2> QED
    BY <2>1, <2>3
<1> QED
  BY <1>1 DEF ReadAuthor

(* An author that is found has the uri looked for. *)
LEMMA FoundAuthor ==
  ASSUME NEW uri, Len(channels.authors) \in Nat, channels_find_author(channels, uri) # 0
  PROVE  /\ channels_find_author(channels, uri) \in 1..Len(channels.authors)
         /\ ReadAuthor(channels, channels_find_author(channels, uri)).uri = uri
<1> DEFINE same == {i \in 1..Len(channels.authors) :
                      rsv_get(channels.text, channels.authors[i].uri) = uri}
<1>1. same # {}
  BY DEF channels_find_author
<1>2. \E i \in same : \A j \in same : i <= j
  <2>1. same \subseteq Nat
    OBVIOUS
  <2> QED
    BY <1>1, <2>1, LeastElement
<1>3. channels_find_author(channels, uri) \in same
  BY <1>1, <1>2 DEF channels_find_author
<1> QED
  BY <1>3 DEF ReadAuthor

(* Growing the text changes nothing that can be read from an old field.    *)
LEMMA ReadsAreStable ==
  ASSUME NEW t \in Text, NEW u \in Text, Len(t) <= Len(u), \A i \in 1..Len(t) : u[i] = t[i]
  PROVE  /\ \A r \in AuthorRec : AuthorInText(r, t) =>
              /\ rsv_get(u, r.uri) = rsv_get(t, r.uri)
              /\ rsv_get(u, r.name) = rsv_get(t, r.name)
              /\ rsv_get(u, r.published) = rsv_get(t, r.published)
         /\ \A r \in EntryRec : EntryInText(r, t) =>
              /\ rsv_get(u, r.id) = rsv_get(t, r.id)
              /\ rsv_get(u, r.title) = rsv_get(t, r.title)
              /\ rsv_get(u, r.description) = rsv_get(t, r.description)
<1>1. \A r \in Rsv : InText(r, t) => rsv_get(u, r) = rsv_get(t, r)
  BY ReadIsStable DEF InText
<1> QED
  BY <1>1 DEF AuthorInText, EntryInText, AuthorRec, EntryRec

(* The new table is the empty list. *)
LEMMA InitMaps == Init => List!Init
<1> SUFFICES ASSUME Init PROVE ReadList(channels) = <<>>
  BY DEF List!Init
<1>1. Len(channels.authors) = 0
  BY DEF Init, channels_create
<1> QED
  BY <1>1 DEF ReadList
(* What a call leaves in its place reads as before the call. *)
LEMMA OldReads ==
  ASSUME IInv, channels'.text \in Text, Len(channels.text) <= Len(channels'.text),
         \A i \in 1..Len(channels.text) : channels'.text[i] = channels.text[i]
  PROVE  /\ \A i \in 1..Len(channels.authors) : \A j :
              channels'.authors[j] = channels.authors[i]
                => ReadAuthor(channels', j) = ReadAuthor(channels, i)
         /\ \A i \in 1..Len(channels.entries) : \A j :
              channels'.entries[j] = channels.entries[i]
                => ReadEntry(channels', j) = ReadEntry(channels, i)
<1>1. /\ channels.authors \in Seq(AuthorRec)
      /\ channels.entries \in Seq(EntryRec)
      /\ channels.text \in Text
  BY Components DEF IInv
<1>2. ASSUME NEW i \in 1..Len(channels.authors), NEW j,
             channels'.authors[j] = channels.authors[i]
      PROVE  ReadAuthor(channels', j) = ReadAuthor(channels, i)
  <2>1. channels.authors[i] \in AuthorRec /\ AuthorInText(channels.authors[i], channels.text)
    BY <1>1, ElementOfSeq DEF IInv, RsvInText
  <2>2. /\ rsv_get(channels'.text, channels.authors[i].uri)
             = rsv_get(channels.text, channels.authors[i].uri)
        /\ rsv_get(channels'.text, channels.authors[i].name)
             = rsv_get(channels.text, channels.authors[i].name)
        /\ rsv_get(channels'.text, channels.authors[i].published)
             = rsv_get(channels.text, channels.authors[i].published)
    BY <1>1, <2>1, ReadsAreStable
  <2> QED
    BY <1>2, <2>2 DEF ReadAuthor
<1>3. ASSUME NEW i \in 1..Len(channels.entries), NEW j,
             channels'.entries[j] = channels.entries[i]
      PROVE  ReadEntry(channels', j) = ReadEntry(channels, i)
  <2>1. channels.entries[i] \in EntryRec /\ EntryInText(channels.entries[i], channels.text)
    BY <1>1, ElementOfSeq DEF IInv, RsvInText
  <2>2. /\ rsv_get(channels'.text, channels.entries[i].id)
             = rsv_get(channels.text, channels.entries[i].id)
        /\ rsv_get(channels'.text, channels.entries[i].title)
             = rsv_get(channels.text, channels.entries[i].title)
        /\ rsv_get(channels'.text, channels.entries[i].description)
             = rsv_get(channels.text, channels.entries[i].description)
    BY <1>1, <2>1, ReadsAreStable
  <2> QED
    BY <1>3, <2>2 DEF ReadEntry
<1> QED
  BY <1>2, <1>3

(* The list has one element per author, and as many entries for it as its  *)
(* run is long.                                                            *)
LEMMA ListShape ==
  ASSUME IInv
  PROVE  /\ Len(ReadList(channels)) = Len(channels.authors)
         /\ DOMAIN ReadList(channels) = 1..Len(channels.authors)
         /\ \A i \in 1..Len(channels.authors) :
              Len(ReadList(channels)[i].entries) = channels.offsets[i + 1] - channels.offsets[i]
<1>1. Len(channels.authors) \in Nat
  BY OffsetBounds
<1>2. ASSUME NEW i \in 1..Len(channels.authors)
      PROVE  Len(ReadList(channels)[i].entries) = channels.offsets[i + 1] - channels.offsets[i]
  <2>1. channels.offsets[i + 1] - channels.offsets[i] \in Nat
    <3>1. i \in 1..Len(channels.offsets) /\ i + 1 \in 1..Len(channels.offsets) /\ i <= i + 1
      BY OffsetBounds
    <3>2. channels.offsets[i] \in Nat /\ channels.offsets[i + 1] \in Nat
      BY <3>1, OffsetBounds
    <3>3. channels.offsets[i] <= channels.offsets[i + 1]
      BY <3>1 DEF IInv, OffsetsDelimitEntries
    <3> QED
      BY <3>2, <3>3
  <2> QED
    BY <2>1 DEF ReadList, ReadRun
<1>3. /\ DOMAIN ReadList(channels) = 1..Len(channels.authors)
      /\ Len(ReadList(channels)) = Len(channels.authors)
  BY <1>1 DEF ReadList
<1> QED
  BY <1>2, <1>3

(* A function on 1..n is a sequence. *)
LEMMA FunctionIsSeq ==
  ASSUME NEW n \in Nat, NEW S, NEW f \in [1..n -> S]
  PROVE  f \in Seq(S) /\ Len(f) = n
<1>1. f \in Seq(S)
  BY IsASeq
<1>2. DOMAIN f = 1..n
  OBVIOUS
<1> QED
  BY <1>1, <1>2, LenProperties

(* A sequence with one element more at its end is an Append. *)
LEMMA OneLonger ==
  ASSUME NEW n \in Nat, NEW S, NEW l \in [1..n -> S], NEW e \in S,
         NEW l2 \in [1..(n + 1) -> S],
         \A i \in 1..n : l2[i] = l[i], l2[n + 1] = e
  PROVE  l2 = Append(l, e)
<1>4. l \in Seq(S) /\ Len(l) = n
  BY FunctionIsSeq
<1>5. l2 \in Seq(S) /\ Len(l2) = n + 1
  <2>1. n + 1 \in Nat
    OBVIOUS
  <2> QED
    BY <2>1, FunctionIsSeq
<1>6. /\ Append(l, e) \in Seq(S) /\ Len(Append(l, e)) = n + 1
      /\ \A i \in 1..n : Append(l, e)[i] = l[i]
      /\ Append(l, e)[n + 1] = e
  BY <1>4, AppendProperties
<1>7. \A i \in 1..Len(l2) : l2[i] = Append(l, e)[i]
  <2>1. \A i \in 1..Len(l2) : i \in 1..n \/ i = n + 1
    BY <1>5
  <2> QED
    BY <1>6, <2>1
<1> QED
  BY <1>5, <1>6, <1>7, SeqEqual

(* Adding an author is NewAuthor of the list. *)
LEMMA AddAuthorMaps ==
  ASSUME IInv, IInv', NEW abs \in AuthorAbs,
         channels_find_author(channels, abs.uri) = 0,
         AddsAuthor(abs)
  PROVE  List!NewAuthor(abs)
<1> DEFINE t  == channels.text
           t1 == arena_append(t, abs.uri)
           t2 == arena_append(t1, abs.name)
           t3 == arena_append(t2, abs.published)
           author == [ uri |-> rsv_of(t, abs.uri), name |-> rsv_of(t1, abs.name),
                       published |-> rsv_of(t2, abs.published) ]
           last == channels.offsets[Len(channels.offsets)]
           n == Len(channels.authors)
<1>1. abs.uri \in Seq(Char) /\ abs.name \in Seq(Char) /\ abs.published \in Seq(Char)
  BY AuthorAssumption
<1>2. /\ channels.authors \in Seq(AuthorRec) /\ channels.offsets \in Seq(Nat)
      /\ t \in Text /\ n \in Nat /\ Len(channels.offsets) = n + 1
  BY Components, OffsetBounds DEF IInv
<1>3. FieldsStored(t, abs.uri, abs.name, abs.published, t3,
                   author.uri, author.name, author.published)
  BY <1>1, <1>2, ThreeFields DEF Sv
<1>4. /\ channels'.authors = Append(channels.authors, author)
      /\ channels'.offsets = Append(channels.offsets, last)
      /\ channels'.entries = channels.entries
      /\ channels'.text = t3
  BY DEF AddsAuthor, channels_add_author
<1> HIDE DEF t1, t2, t3
<1>5. author \in AuthorRec /\ last \in Nat
  <2>1. author \in AuthorRec
    BY <1>3 DEF FieldsStored, AuthorRec
  <2> QED
    BY <1>2, <2>1, OffsetBounds
<1> HIDE DEF author, last
<1>6. /\ Len(channels'.authors) = n + 1
      /\ \A i \in 1..n : channels'.authors[i] = channels.authors[i]
      /\ channels'.authors[n + 1] = author
  BY <1>2, <1>4, <1>5, AppendProperties
<1>7. /\ \A i \in 1..(n + 1) : channels'.offsets[i] = channels.offsets[i]
      /\ channels'.offsets[n + 2] = last
  <2>1. /\ \A i \in 1..Len(channels.offsets) :
             Append(channels.offsets, last)[i] = channels.offsets[i]
        /\ Append(channels.offsets, last)[Len(channels.offsets) + 1] = last
    BY <1>2, <1>5, AppendProperties
  <2>2. Len(channels.offsets) = n + 1 /\ n + 1 + 1 = n + 2
    BY <1>2
  <2> QED
    BY <1>4, <2>1, <2>2
<1>8. last = channels.offsets[n + 1]
  BY <1>2 DEF last
<1>9. /\ t3 \in Text /\ Len(t) <= Len(t3) /\ \A i \in 1..Len(t) : t3[i] = t[i]
      /\ rsv_get(t3, author.uri) = abs.uri
      /\ rsv_get(t3, author.name) = abs.name
      /\ rsv_get(t3, author.published) = abs.published
  BY <1>1, <1>3, NullAssumption DEF FieldsStored
<1>10. ReadAuthor(channels', n + 1) = abs
  BY <1>4, <1>6, <1>9, AuthorAssumption DEF ReadAuthor
<1>11. \A i \in 1..n : ReadAuthor(channels', i) = ReadAuthor(channels, i)
  BY <1>4, <1>6, <1>9, OldReads
<1>12. \A k \in 1..Len(channels.entries) : ReadEntry(channels', k) = ReadEntry(channels, k)
  BY <1>4, <1>9, OldReads
<1>13. \A i \in 1..n : ReadList(channels')[i] = ReadList(channels)[i]
  <2> SUFFICES ASSUME NEW i \in 1..n PROVE ReadList(channels')[i] = ReadList(channels)[i]
    OBVIOUS
  <2>1. channels'.offsets[i] = channels.offsets[i] /\ channels'.offsets[i + 1] = channels.offsets[i + 1]
    BY <1>2, <1>7
  <2>2. /\ channels.offsets[i] \in 0..Len(channels.entries)
        /\ channels.offsets[i + 1] \in 0..Len(channels.entries)
        /\ Len(channels.entries) \in Nat
    BY <1>2, OffsetBounds
  <2>3. \A k \in 1..(channels.offsets[i + 1] - channels.offsets[i]) :
          ReadEntry(channels', channels.offsets[i] + k) = ReadEntry(channels, channels.offsets[i] + k)
    <3>1. \A k \in 1..(channels.offsets[i + 1] - channels.offsets[i]) :
            channels.offsets[i] + k \in 1..Len(channels.entries)
      BY <2>2
    <3> QED
      BY <1>12, <3>1
  <2>4. ReadList(channels)[i] = [author |-> ReadAuthor(channels, i),
                                  entries |-> ReadRun(channels, i)]
    BY DEF ReadList
  <2>5. ReadList(channels')[i] = [author |-> ReadAuthor(channels', i),
                                   entries |-> ReadRun(channels', i)]
    BY <1>2, <1>6 DEF ReadList
  <2>6. ReadRun(channels', i) = ReadRun(channels, i)
    BY <2>1, <2>3 DEF ReadRun
  <2> QED
    BY <1>11, <2>4, <2>5, <2>6
<1>14. ReadList(channels')[n + 1] = [author |-> abs, entries |-> <<>>]
  <2>1. channels'.offsets[n + 1 + 1] = last /\ channels'.offsets[n + 1] = last
    BY <1>2, <1>7, <1>8
  <2> QED
    BY <1>2, <1>5, <1>6, <1>10, <2>1 DEF ReadList, ReadRun
<1>15. ReadList(channels') = Append(ReadList(channels), [author |-> abs, entries |-> <<>>])
  <2> DEFINE l == ReadList(channels)
             l2 == ReadList(channels')
             e == [author |-> abs, entries |-> <<>>]
  <2>1. l = [i \in 1..n |-> l[i]] /\ l2 = [i \in 1..(n + 1) |-> l2[i]]
    BY <1>2, <1>6 DEF ReadList
  <2>2. (\A i \in 1..n : l2[i] = l[i]) /\ l2[n + 1] = e
    BY <1>13, <1>14
  <2>3. n \in Nat
    BY <1>2
  <2> DEFINE S == {l[i] : i \in 1..n} \cup {e}
  <2> HIDE DEF l, l2, e, n
  <2>4. e \in S /\ \A i \in 1..n : l[i] \in S
    OBVIOUS
  <2>5. \A i \in 1..(n + 1) : l2[i] \in S
    <3>1. \A i \in 1..(n + 1) : i \in 1..n \/ i = n + 1
      BY <2>3
    <3> QED
      BY <2>2, <2>4, <3>1
  <2> HIDE DEF S
  <2>6. l \in [1..n -> S] /\ l2 \in [1..(n + 1) -> S]
    BY <2>1, <2>4, <2>5
  <2>7. l2 = Append(l, e)
    BY <2>2, <2>3, <2>4, <2>6, OneLonger
  <2> QED
    BY <2>7 DEF l, l2, e
<1>16. \A i \in 1..Len(ReadList(channels)) : ReadList(channels)[i].author.uri # abs.uri
  <2>1. \A i \in 1..n : ReadAuthor(channels, i).uri # abs.uri
    BY <1>2, FindAuthor
  <2>2. \A i \in 1..n : ReadList(channels)[i].author = ReadAuthor(channels, i)
    BY DEF ReadList
  <2> QED
    BY <2>1, <2>2, ListShape
<1> QED
  BY <1>15, <1>16 DEF List!NewAuthor
(* One element was put into `ent` at the end of the run of author a. *)
Inserted(n, len, a, off, off2, ent, ent2) ==
  /\ \A i \in 1..(n + 1) : off[i] \in 0..len
  /\ \A i, j \in 1..(n + 1) : i <= j => off[i] <= off[j]
  /\ \A i \in 1..(n + 1) : off2[i] = IF i > a THEN off[i] + 1 ELSE off[i]
  /\ \A k \in 1..len : k <= off[a + 1] => ent2[k] = ent[k]
  /\ \A k \in 1..len : k > off[a + 1] => ent2[k + 1] = ent[k]

(* Every other run keeps its length and elements, run a is one longer. *)
RunsKept(n, len, a, off, off2, ent, ent2) ==
  /\ \A i \in 1..n : i # a =>
       /\ off2[i + 1] - off2[i] = off[i + 1] - off[i]
       /\ \A k \in 1..(off[i + 1] - off[i]) :
            off[i] + k \in 1..len /\ ent2[off2[i] + k] = ent[off[i] + k]
  /\ off2[a] = off[a] /\ off2[a + 1] = off[a + 1] + 1
  /\ off[a + 1] - off[a] \in Nat
  /\ \A k \in 1..(off[a + 1] - off[a]) :
       off[a] + k \in 1..len /\ ent2[off[a] + k] = ent[off[a] + k]

(* After the insertion every run holds what it held, that of the author    *)
(* with the new entry at its end.                                          *)
LEMMA RunsAfterInsert ==
  ASSUME NEW n \in Nat, NEW len \in Nat, NEW a \in 1..n,
         NEW off, NEW off2, NEW ent, NEW ent2, Inserted(n, len, a, off, off2, ent, ent2)
  PROVE  RunsKept(n, len, a, off, off2, ent, ent2)
<1> USE DEF Inserted
<1>1. \A i \in 1..n : /\ i \in 1..(n + 1) /\ i + 1 \in 1..(n + 1)
                      /\ off[i] \in Nat /\ off[i + 1] \in Nat
                      /\ off[i + 1] <= len /\ off[i] <= off[i + 1]
  OBVIOUS
<1>2. ASSUME NEW i \in 1..n, i < a
      PROVE  /\ off2[i + 1] - off2[i] = off[i + 1] - off[i]
             /\ \A k \in 1..(off[i + 1] - off[i]) :
                  off[i] + k \in 1..len /\ ent2[off2[i] + k] = ent[off[i] + k]
  <2>1. off2[i] = off[i] /\ off2[i + 1] = off[i + 1]
    BY <1>1, <1>2
  <2>2. off[i + 1] <= off[a + 1]
    BY <1>1, <1>2
  <2>3. \A k \in 1..(off[i + 1] - off[i]) : off[i] + k \in 1..len /\ off[i] + k <= off[a + 1]
    BY <1>1, <2>2
  <2> QED
    BY <2>1, <2>3
<1>3. ASSUME NEW i \in 1..n, i > a
      PROVE  /\ off2[i + 1] - off2[i] = off[i + 1] - off[i]
             /\ \A k \in 1..(off[i + 1] - off[i]) :
                  off[i] + k \in 1..len /\ ent2[off2[i] + k] = ent[off[i] + k]
  <2>1. off2[i] = off[i] + 1 /\ off2[i + 1] = off[i + 1] + 1
    BY <1>1, <1>3
  <2>2. off[a + 1] <= off[i]
    BY <1>1, <1>3
  <2>3. ASSUME NEW k \in 1..(off[i + 1] - off[i])
        PROVE  off[i] + k \in 1..len /\ ent2[off2[i] + k] = ent[off[i] + k]
    <3> DEFINE m == off[i] + k
    <3>1. m \in 1..len /\ m > off[a + 1] /\ off2[i] + k = m + 1
      BY <1>1, <2>1, <2>2
    <3> HIDE DEF m
    <3>2. ent2[m + 1] = ent[m]
      BY <3>1
    <3> QED
      BY <3>1, <3>2 DEF m
  <2>4. off2[i + 1] - off2[i] = off[i + 1] - off[i]
    BY <1>1, <2>1
  <2> QED
    BY <2>3, <2>4
<1>4. /\ off2[a] = off[a] /\ off2[a + 1] = off[a + 1] + 1
      /\ off[a + 1] - off[a] \in Nat
      /\ \A k \in 1..(off[a + 1] - off[a]) :
           off[a] + k \in 1..len /\ ent2[off[a] + k] = ent[off[a] + k]
  <2>1. off2[a] = off[a] /\ off2[a + 1] = off[a + 1] + 1
    BY <1>1
  <2>2. \A k \in 1..(off[a + 1] - off[a]) : off[a] + k \in 1..len /\ off[a] + k <= off[a + 1]
    BY <1>1
  <2> QED
    BY <1>1, <2>1, <2>2
<1>5. \A i \in 1..n : i < a \/ i = a \/ i > a
  OBVIOUS
<1> QED
  BY <1>2, <1>3, <1>4, <1>5 DEF RunsKept

(* The parts of the table after an entry was added make the list after     *)
(* NewEntry.                                                               *)
LEMMA EntryAddedMaps ==
  ASSUME IInv, IInv', NEW a \in 1..Len(channels.authors), NEW abs \in EntryAbs,
         NEW curr, NEW index, NEW t3, NEW g,
         EntryAdded(abs, a, curr, index, t3, g)
  PROVE  List!NewEntry(abs, a)
<1> DEFINE n == Len(channels.authors)
           len == Len(channels.entries)
           off == channels.offsets
           off2 == channels'.offsets
           ent == channels.entries
           ent2 == channels'.entries
           l == ReadList(channels)
           l2 == ReadList(channels')
           added == off[a + 1] - off[a] + 1
<1>1. /\ n \in Nat /\ len \in Nat /\ Len(off) = n + 1
      /\ \A i \in 1..(n + 1) : off[i] \in 0..len
  BY OffsetBounds
<1>2. \A i, j \in 1..(n + 1) : i <= j => off[i] <= off[j]
  BY <1>1 DEF IInv, OffsetsDelimitEntries
<1>3. /\ channels'.authors = channels.authors
      /\ \A i \in 1..(n + 1) : off2[i] = IF i > a THEN off[i] + 1 ELSE off[i]
      /\ channels'.text = t3
      /\ index = off[a + 1] /\ index \in 0..len
      /\ ent2 = Shifted(ent, index + 1, curr)
  BY <1>1 DEF EntryAdded
<1>4. /\ \A k \in 1..len : k <= off[a + 1] => ent2[k] = ent[k]
      /\ \A k \in 1..len : k > off[a + 1] => ent2[k + 1] = ent[k]
      /\ ent2[index + 1] = curr
  <2>1. \A k \in 1..(len + 1) :
          ent2[k] = IF k < index + 1 THEN ent[k] ELSE IF k = index + 1 THEN curr ELSE ent[k - 1]
    BY <1>3 DEF Shifted
  <2>2. ASSUME NEW k \in 1..len, k <= index PROVE ent2[k] = ent[k]
    <3>1. k \in 1..(len + 1) /\ k < index + 1
      <4>1. len \in Nat /\ index \in Nat
        BY <1>1, <1>3
      <4> HIDE DEF len
      <4> QED
        BY <2>2, <4>1
    <3> QED
      BY <2>1, <3>1
  <2>3. ASSUME NEW k \in 1..len, k > index PROVE ent2[k + 1] = ent[k]
    <3>1. k + 1 \in 1..(len + 1) /\ ~ (k + 1 < index + 1) /\ k + 1 # index + 1 /\ (k + 1) - 1 = k
      <4>1. len \in Nat /\ index \in Nat
        BY <1>1, <1>3
      <4> HIDE DEF len
      <4> QED
        BY <2>3, <4>1
    <3> QED
      BY <2>1, <3>1
  <2>4. ent2[index + 1] = curr
    <3>1. index + 1 \in 1..(len + 1) /\ ~ (index + 1 < index + 1)
      <4>1. len \in Nat /\ index \in 0..len
        BY <1>1, <1>3
      <4> HIDE DEF len
      <4> QED
        BY <4>1
    <3> QED
      BY <2>1, <3>1
  <2> QED
    BY <1>3, <2>2, <2>3, <2>4
<1>5. /\ \A i \in 1..n : ReadAuthor(channels', i) = ReadAuthor(channels, i)
      /\ \A k \in 1..len : \A j : ent2[j] = ent[k] => ReadEntry(channels', j) = ReadEntry(channels, k)
  <2>1. /\ t3 \in Text /\ Len(channels.text) <= Len(t3)
        /\ \A i \in 1..Len(channels.text) : t3[i] = channels.text[i]
    BY DEF EntryAdded, FieldsStored
  <2> QED
    BY <1>3, <2>1, OldReads
<1>6. List!Agrees(ReadEntry(channels', index + 1), abs)
  <2>1. DOMAIN abs = {"id", "title", "description"}
    BY EntryAssumption
  <2>2. /\ abs.id # Null => ReadEntry(channels', index + 1).id = abs.id
        /\ abs.title # Null => ReadEntry(channels', index + 1).title = abs.title
        /\ abs.description # Null => ReadEntry(channels', index + 1).description = abs.description
    BY <1>3, <1>4 DEF EntryAdded, FieldsStored, ReadEntry
  <2> QED
    BY <2>1, <2>2 DEF List!Agrees
<1>7. /\ l = [i \in 1..n |-> [author |-> ReadAuthor(channels, i), entries |-> ReadRun(channels, i)]]
      /\ l2 = [i \in 1..n |-> [author |-> ReadAuthor(channels', i), entries |-> ReadRun(channels', i)]]
  BY <1>3 DEF ReadList
<1>8. /\ \A i \in 1..n : i # a =>
           /\ off2[i + 1] - off2[i] = off[i + 1] - off[i]
           /\ \A k \in 1..(off[i + 1] - off[i]) :
                off[i] + k \in 1..len /\ ent2[off2[i] + k] = ent[off[i] + k]
      /\ off2[a] = off[a] /\ off2[a + 1] = off[a + 1] + 1
      /\ off[a + 1] - off[a] \in Nat
      /\ \A k \in 1..(off[a + 1] - off[a]) :
           off[a] + k \in 1..len /\ ent2[off[a] + k] = ent[off[a] + k]
  <2>1. Inserted(n, len, a, off, off2, ent, ent2)
    BY <1>1, <1>2, <1>3, <1>4 DEF Inserted
  <2>2. a \in 1..n
    OBVIOUS
  <2> HIDE DEF n, len, off, off2, ent, ent2
  <2>3. RunsKept(n, len, a, off, off2, ent, ent2)
    BY <1>1, <2>1, <2>2, RunsAfterInsert
  <2> QED
    BY <2>3 DEF RunsKept
<1> HIDE DEF l, l2
<1>9. ASSUME NEW i \in 1..n, i # a PROVE ReadRun(channels', i) = ReadRun(channels, i)
  <2>1. off2[i + 1] - off2[i] = off[i + 1] - off[i]
    BY <1>8, <1>9
  <2>2. \A k \in 1..(off[i + 1] - off[i]) :
          ReadEntry(channels', off2[i] + k) = ReadEntry(channels, off[i] + k)
    BY <1>5, <1>8, <1>9
  <2> QED
    BY <2>1, <2>2 DEF ReadRun
<1>10. /\ off[a] \in Nat /\ off[a + 1] \in Nat /\ added \in Nat
       /\ off2[a + 1] - off2[a] = added
       /\ off2[a] = off[a] /\ off[a] + added = index + 1
  <2>1. off[a] \in Nat /\ off[a + 1] \in Nat
    BY <1>1
  <2>2. off[a + 1] + 1 - off[a] = added /\ added \in Nat /\ off[a] + added = off[a + 1] + 1
    <3>1. off[a + 1] - off[a] \in Nat
      BY <1>8
    <3> HIDE DEF off
    <3> QED
      BY <2>1, <3>1
  <2>3. off2[a + 1] - off2[a] = added
    <3> HIDE DEF off, off2, added
    <3>1. off2[a + 1] = off[a + 1] + 1 /\ off2[a] = off[a]
      BY <1>8
    <3> QED
      BY <2>1, <2>2, <3>1
  <2> QED
    BY <1>3, <1>8, <2>1, <2>2, <2>3
<1>11. ReadRun(channels', a) = [k \in 1..added |-> ReadEntry(channels', off[a] + k)]
  BY <1>10 DEF ReadRun
<1>12. ReadRun(channels, a) = [k \in 1..(added - 1) |-> ReadEntry(channels, off[a] + k)]
  <2>1. added - 1 = off[a + 1] - off[a]
    BY <1>10
  <2> QED
    BY <2>1 DEF ReadRun
<1>13. added - 1 \in Nat
  BY <1>8, <1>10
<1>14. /\ Len(ReadRun(channels', a)) = added
       /\ Len(ReadRun(channels, a)) = added - 1
  BY <1>10, <1>11, <1>12, <1>13
<1>15. \A k \in 1..(added - 1) : ReadRun(channels', a)[k] = ReadRun(channels, a)[k]
  <2>1. added - 1 = off[a + 1] - off[a]
    BY <1>10
  <2>2. \A k \in 1..(added - 1) : ReadEntry(channels', off[a] + k) = ReadEntry(channels, off[a] + k)
    BY <1>5, <1>8, <2>1
  <2>3. \A k \in 1..(added - 1) : k \in 1..added
    BY <1>10
  <2> HIDE DEF added
  <2> QED
    BY <1>11, <1>12, <2>2, <2>3
<1>16. ReadRun(channels', a)[added] = ReadEntry(channels', index + 1)
  <2>1. added \in 1..added
    BY <1>10, <1>13
  <2> HIDE DEF added
  <2> QED
    BY <1>10, <1>11, <2>1
<1>17. /\ l2[a].entries = ReadRun(channels', a) /\ l[a].entries = ReadRun(channels, a)
       /\ l2 = [l EXCEPT ![a].entries = l2[a].entries]
  <2>1. l2[a].entries = ReadRun(channels', a) /\ l[a].entries = ReadRun(channels, a)
    BY <1>7
  <2>2. [l[a] EXCEPT !.entries = ReadRun(channels', a)]
          = [author |-> ReadAuthor(channels, a), entries |-> ReadRun(channels', a)]
    BY <1>7
  <2>3. l2[a] = [l[a] EXCEPT !.entries = ReadRun(channels', a)]
    BY <1>5, <1>7, <2>2
  <2>4. \A i \in 1..n : i # a => l2[i] = l[i]
    BY <1>5, <1>7, <1>9
  <2>5. l2 = [i \in 1..n |-> l2[i]] /\ l = [i \in 1..n |-> l[i]]
    BY <1>7
  <2> HIDE DEF n
  <2>6. l2 = [l EXCEPT ![a] = [l[a] EXCEPT !.entries = ReadRun(channels', a)]]
    BY <2>3, <2>4, <2>5
  <2> QED
    BY <2>1, <2>6
<1>18. added = Len(l[a].entries) + 1 /\ Len(l2[a].entries) = Len(l[a].entries) + 1
  BY <1>10, <1>14, <1>17
<1>19. \A k \in 1..Len(l[a].entries) : l2[a].entries[k] = l[a].entries[k]
  BY <1>14, <1>15, <1>17
<1>20. List!Agrees(l2[a].entries[Len(l[a].entries) + 1], abs)
  <2> HIDE DEF added
  <2> QED
    BY <1>6, <1>16, <1>17, <1>18
<1> QED
  BY <1>17, <1>18, <1>19, <1>20 DEF List!NewEntry, l, l2

(* Adding an entry is NewEntry of the list. *)
LEMMA AddEntryMaps ==
  ASSUME IInv, IInv', NEW abs \in EntryAbs, NEW a \in 1..Len(channels.authors),
         AddsEntry(abs, a)
  PROVE  List!NewEntry(abs, a)
BY AddedParts, EntryAddedMaps

(* Every step of the table is one of the list. *)
LEMMA NextMaps == IInv /\ IInv' /\ [Next]_channels => [List!Next]_(ReadList(channels))
<1> SUFFICES ASSUME IInv, IInv', [Next]_channels
             PROVE  [List!Next]_(ReadList(channels))
  OBVIOUS
<1>1. ASSUME NEW abs \in AuthorAbs, NewAuthor(abs) PROVE List!Next
  BY <1>1, AddAuthorMaps DEF NewAuthor, AddsAuthor, List!Next
<1>2. ASSUME NEW abs \in EntryAbs, NEW a \in 1..Len(channels.authors), NewEntry(abs, a)
      PROVE  List!Next
  <2>1. List!NewEntry(abs, a)
    BY <1>2, AddEntryMaps DEF NewEntry, AddsEntry
  <2>2. a \in 1..Len(ReadList(channels))
    BY ListShape
  <2> QED
    BY <2>1, <2>2 DEF List!Next
<1>3. CASE UNCHANGED channels
  BY <1>3
<1> QED
  BY <1>1, <1>2, <1>3 DEF Next

(* The arrays, the offsets and the arena implement the abstract list: the  *)
(* in-place insertion loses, moves and changes nothing, for any table size.*)
THEOREM Refinement == Spec => ImplementsList
<1>1. IInv /\ [Next]_channels /\ IInv' => [List!Next]_(ReadList(channels))
  BY NextMaps
<1> QED
  BY <1>1, InitMaps, Invariant, PTL DEF Spec, ImplementsList, List!Spec

=============================================================================
