---------------------------- MODULE VidsProofs ------------------------------
(***************************************************************************)
(* Proofs about vids.c, for any link file, any size of its buffer and any  *)
(* feeds: however the ends of the buffer cut the file, the channels that   *)
(* load_channel_file updates are the links of the file, all of them, each  *)
(* once and in order; and the table that parse fills holds what the feeds  *)
(* said, and the page made of it shows it, as long as each document reaches*)
(* parse alone.                                                            *)
(***************************************************************************)
EXTENDS Vids, Integers, SequenceTheorems, FiniteSetTheorems, WellFoundedInduction, TLAPS

Text == Letter \cup {Space}

(* Where the buffer begins in the file. *)
Off == Len(content) - Len(file) - edge

\* No link goes on across this place of the file.
Between(d) == d = 0 \/ content[d] = Space

Window ==
  /\ Off >= 0
  /\ \A k \in 1..Len(file) : file[k] = content[Off + edge + k]
  /\ \A k \in 1..edge : buffer[k] = content[Off + k]

(* What would be moved if nothing is cut: nothing, or white space. *)
Start_behind ==
  \/ start >= edge
  \/ /\ start <= pos /\ Between(Off + start)
     /\ \A k \in start + 1..pos : buffer[k] = Space

Reading ==
  /\ pos = edge /\ Between(Off)
  /\ Len(updates) = Cardinality(Up_to(content, Off))
  /\ start = BufferSize \/ (start = 0 /\ Off = 0 /\ edge = 0)

Scanning ==
  /\ pos <= edge /\ Between(Off + pos)
  /\ Len(updates) = Cardinality(Up_to(content, Off + pos))
  /\ Start_behind
  /\ full => edge = BufferSize
  /\ ~full => file = <<>>

Updated ==
  \A n \in 1..Len(updates) : \E r \in Places(content) :
    Cardinality(Up_to(content, r[1])) = n /\ updates[n] = SubSeq(content, r[1], r[2])

LInv ==
  /\ TypeOK
  /\ Window
  /\ pc = "read" => Reading
  /\ pc = "scan" => Scanning
  /\ pc = "done" => Len(updates) = Cardinality(Places(content))
  /\ Updated

-----------------------------------------------------------------------------
(* The links of a text *)

(* Min of a set of numbers is its least. *)
LEMMA MinIsLeast ==
  ASSUME NEW S \in SUBSET Nat, S # {}
  PROVE  Min(S) \in S /\ \A y \in S : Min(S) <= y
<1>1. IsWellFoundedOn(OpToRel(<, Nat), Nat)
  BY NatLessThanWellFounded
<1>2. PICK x \in S : \A y \in S : ~ (<<y, x>> \in OpToRel(<, Nat))
  BY <1>1, WFMin
<1>3. \A y \in S : ~ (y < x)
  BY <1>2 DEF OpToRel
<1>4. \A y \in S : x <= y
  BY <1>3
<1> QED
  BY <1>4 DEF Min

(* What the place of a link is. *)
LEMMA PlaceFacts ==
  ASSUME NEW text \in Seq(Text), NEW r \in Places(text)
  PROVE  /\ r[1] \in Nat /\ r[2] \in Nat
         /\ 1 <= r[1] /\ r[1] <= r[2] /\ r[2] < Len(text)
         /\ \A k \in r[1]..r[2] : text[k] # Space
         /\ r[1] = 1 \/ text[r[1] - 1] = Space
         /\ text[r[2] + 1] = Space
         /\ r = <<r[1], r[2]>>
<1>1. Len(text) \in Nat
  BY LenProperties
<1> QED
  BY <1>1 DEF Places, IsLink

(* A text has finitely many links. *)
LEMMA PlacesFinite ==
  ASSUME NEW text \in Seq(Text)
  PROVE  /\ IsFiniteSet(Places(text)) /\ Cardinality(Places(text)) \in Nat
         /\ \A d : /\ IsFiniteSet(Up_to(text, d)) /\ Cardinality(Up_to(text, d)) \in Nat
                   /\ Cardinality(Up_to(text, d)) <= Cardinality(Places(text))
<1>1. IsFiniteSet(1..Len(text))
  BY LenProperties, FS_Interval
<1>2. IsFiniteSet((1..Len(text)) \X (1..Len(text)))
  BY <1>1, FS_Product
<1>3. IsFiniteSet(Places(text))
  BY <1>2, FS_Subset DEF Places
<1>4. ASSUME NEW d
      PROVE  /\ IsFiniteSet(Up_to(text, d))
             /\ Cardinality(Up_to(text, d)) <= Cardinality(Places(text))
  <2>1. Up_to(text, d) \in SUBSET Places(text)
    BY DEF Up_to
  <2> QED
    BY <1>3, <2>1, FS_Subset
<1> QED
  BY <1>3, <1>4, FS_CardinalityType

(* Two links do not begin at the same place. *)
LEMMA SameBegin ==
  ASSUME NEW text \in Seq(Text), NEW r \in Places(text), NEW q \in Places(text), r[1] = q[1]
  PROVE  r = q
<1>1. ~ (r[2] < q[2])
  <2> SUFFICES ASSUME r[2] < q[2]
               PROVE  FALSE
    OBVIOUS
  <2>1. r[2] + 1 \in q[1]..q[2]
    BY PlaceFacts
  <2> QED
    BY <2>1, PlaceFacts
<1>2. ~ (q[2] < r[2])
  <2> SUFFICES ASSUME q[2] < r[2]
               PROVE  FALSE
    OBVIOUS
  <2>1. q[2] + 1 \in r[1]..r[2]
    BY PlaceFacts
  <2> QED
    BY <2>1, PlaceFacts
<1>3. r[2] = q[2]
  BY <1>1, <1>2, PlaceFacts
<1> QED
  BY <1>3, PlaceFacts

(* No link begins in white space. *)
LEMMA NoneMore ==
  ASSUME NEW text \in Seq(Text), NEW d \in Nat, NEW e \in Nat, d <= e,
         \A k \in d + 1..e : text[k] = Space
  PROVE  Up_to(text, e) = Up_to(text, d)
<1>1. ASSUME NEW r \in Places(text), r[1] <= e
      PROVE  r[1] <= d
  <2> SUFFICES ASSUME r[1] > d
               PROVE  FALSE
    BY PlaceFacts
  <2>1. r[1] \in d + 1..e /\ r[1] \in r[1]..r[2]
    BY <1>1, PlaceFacts
  <2> QED
    BY <2>1, PlaceFacts
<1>2. \A r \in Places(text) : r[1] <= d => r[1] <= e
  BY PlaceFacts
<1> QED
  BY <1>1, <1>2 DEF Up_to

(* The next link, up to any place in it or the white space after it. *)
LEMMA OneMore ==
  ASSUME NEW text \in Seq(Text), NEW r \in Places(text), NEW d \in Nat, d < r[1],
         \A k \in d + 1..r[1] - 1 : text[k] = Space,
         NEW e \in Nat, r[1] <= e, e <= r[2] + 1
  PROVE  Cardinality(Up_to(text, e)) = Cardinality(Up_to(text, d)) + 1
<1>1. ASSUME NEW q \in Places(text), q[1] <= e, q[1] > d
      PROVE  q = r
  <2>1. q[1] >= r[1]
    <3> SUFFICES ASSUME q[1] < r[1]
                 PROVE  FALSE
      BY PlaceFacts
    <3>1. q[1] \in d + 1..r[1] - 1 /\ q[1] \in q[1]..q[2]
      BY <1>1, PlaceFacts
    <3> QED
      BY <3>1, PlaceFacts
  <2>2. q[1] <= r[1]
    <3> SUFFICES ASSUME q[1] > r[1]
                 PROVE  FALSE
      BY PlaceFacts
    <3>1. CASE q[1] = r[2] + 1
      <4>1. q[1] \in q[1]..q[2]
        BY PlaceFacts
      <4>2. text[q[1]] # Space
        BY <4>1, PlaceFacts
      <4>3. text[r[2] + 1] = Space
        BY PlaceFacts
      <4> QED
        BY <3>1, <4>2, <4>3
    <3>2. CASE q[1] <= r[2]
      <4>1. q[1] - 1 \in r[1]..r[2] /\ q[1] # 1
        BY <3>2, PlaceFacts
      <4> QED
        BY <4>1, PlaceFacts
    <3> QED
      BY <1>1, <3>1, <3>2, PlaceFacts
  <2>3. q[1] = r[1]
    BY <2>1, <2>2, PlaceFacts
  <2> QED
    BY <2>3, SameBegin
<1>2. \A q \in Places(text) : q[1] <= d => q[1] <= e
  BY PlaceFacts
<1>3. Up_to(text, e) = Up_to(text, d) \cup {r}
  BY <1>1, <1>2, PlaceFacts DEF Up_to
<1>4. r \notin Up_to(text, d)
  BY PlaceFacts DEF Up_to
<1> QED
  BY <1>3, <1>4, PlacesFinite, FS_AddElement

(* The number of links up to one's beginning tells which one it is. *)
LEMMA RankUnique ==
  ASSUME NEW text \in Seq(Text), NEW r \in Places(text), NEW q \in Places(text),
         Cardinality(Up_to(text, r[1])) = Cardinality(Up_to(text, q[1]))
  PROVE  r = q
<1>1. ASSUME NEW x \in Places(text), NEW y \in Places(text), x[1] < y[1]
      PROVE  Cardinality(Up_to(text, x[1])) # Cardinality(Up_to(text, y[1]))
  <2>1. Up_to(text, x[1]) \in SUBSET Up_to(text, y[1])
    BY <1>1, PlaceFacts DEF Up_to
  <2>2. y \in Up_to(text, y[1]) /\ y \notin Up_to(text, x[1])
    BY <1>1, PlaceFacts DEF Up_to
  <2>3. IsFiniteSet(Up_to(text, y[1]))
    BY PlacesFinite
  <2> QED
    BY <2>1, <2>2, <2>3, FS_Subset
<1>2. ~ (r[1] < q[1]) /\ ~ (q[1] < r[1])
  BY <1>1
<1>3. r[1] = q[1]
  BY <1>2, PlaceFacts
<1> QED
  BY <1>3, SameBegin

(* The links are a sequence, one for each place. *)
LEMMA LinksAreSeq ==
  ASSUME NEW text \in Seq(Text)
  PROVE  /\ Len(Links(text)) = Cardinality(Places(text))
         /\ \E S : Links(text) \in Seq(S)
<1> DEFINE n == Cardinality(Places(text))
           S == {Links(text)[k] : k \in 1..n}
<1>1. n \in Nat
  BY PlacesFinite
<1>2. Links(text) \in [1..n -> S]
  BY DEF Links
<1> HIDE DEF S, n
<1>3. Links(text) \in Seq(S) /\ Len(Links(text)) = n
  BY <1>1, <1>2
<1> QED
  BY <1>3 DEF n

(* An update is the link that as many links come up to as updates do. *)
LEMMA UpdatedHolds ==
  ASSUME TypeOK, Updated
  PROVE  /\ Len(updates) \in Nat
         /\ Len(updates) <= Cardinality(Places(content))
         /\ \A n \in 1..Len(updates) : updates[n] = Links(content)[n]
<1>1. content \in Seq(Text) /\ updates \in Seq(Seq(Letter)) /\ Len(updates) \in Nat
  BY LinkFileAssumption, LenProperties DEF TypeOK, Text
<1>2. ASSUME NEW n \in 1..Len(updates)
      PROVE  n <= Cardinality(Places(content)) /\ updates[n] = Links(content)[n]
  <2>1. PICK r \in Places(content) :
          Cardinality(Up_to(content, r[1])) = n /\ updates[n] = SubSeq(content, r[1], r[2])
    BY DEF Updated
  <2>2. n <= Cardinality(Places(content))
    BY <1>1, <2>1, PlacesFinite
  <2>3. Place(content, n) \in Places(content) /\ Cardinality(Up_to(content, Place(content, n)[1])) = n
    BY <2>1 DEF Place
  <2>4. Place(content, n) = r
    BY <1>1, <2>1, <2>3, RankUnique
  <2>5. n \in 1..Cardinality(Places(content))
    BY <1>1, <2>2, PlacesFinite
  <2>6. Links(content)[n] = SubSeq(content, Place(content, n)[1], Place(content, n)[2])
    BY <2>5 DEF Links
  <2> QED
    BY <2>1, <2>2, <2>4, <2>6
<1>3. Len(updates) <= Cardinality(Places(content))
  <2>1. CASE Len(updates) = 0
    BY <1>1, <2>1, PlacesFinite
  <2>2. CASE Len(updates) # 0
    <3>1. Len(updates) \in 1..Len(updates)
      BY <1>1, <2>2
    <3> QED
      BY <1>2, <3>1
  <2> QED
    BY <2>1, <2>2
<1> QED
  BY <1>1, <1>2, <1>3

(* Updates that are each the link of their rank are the first links. *)
LEMMA UpdatedIsPrefix ==
  ASSUME TypeOK, Updated
  PROVE  UpdatesAreLinks
<1>1. content \in Seq(Text) /\ updates \in Seq(Seq(Letter))
  BY LinkFileAssumption DEF TypeOK, Text
<1> DEFINE n == Len(updates)
           found == Links(content)
<1>2. PICK S : found \in Seq(S)
  BY <1>1, LinksAreSeq
<1>3. n \in Nat /\ n <= Len(found) /\ Len(found) \in Nat /\ \A k \in 1..n : updates[k] = found[k]
  BY <1>1, LinksAreSeq, UpdatedHolds, PlacesFinite
<1>4. \A k \in 1..n : found[k] \in S
  BY <1>2, <1>3, ElementOfSeq
<1> HIDE DEF found, n
<1>5. /\ SubSeq(found, 1, n) \in Seq(S) /\ Len(SubSeq(found, 1, n)) = n
      /\ \A k \in 1..n : SubSeq(found, 1, n)[k] = found[k]
  BY <1>3, <1>4, SubSeqProperties
<1>6. SubSeq(updates, 1, n) = updates
  BY <1>1, SubSeqFull DEF n
<1>7. updates \in Seq(S)
  <2>1. updates \in [1..n -> S]
    BY <1>1, <1>3, <1>4, LenProperties DEF n
  <2> QED
    BY <1>3, <2>1
<1>8. updates = SubSeq(found, 1, n)
  BY <1>3, <1>5, <1>7, SeqEqual DEF n
<1> QED
  BY <1>3, <1>6, <1>8 DEF UpdatesAreLinks, IsPrefix, n, found

(* As many as there are places, they are all the links. *)
LEMMA AllAreUpdated ==
  ASSUME TypeOK, Updated, Len(updates) = Cardinality(Places(content))
  PROVE  updates = Links(content)
<1>1. content \in Seq(Text) /\ updates \in Seq(Seq(Letter))
  BY LinkFileAssumption DEF TypeOK, Text
<1> DEFINE found == Links(content)
<1>2. PICK S : found \in Seq(S)
  BY <1>1, LinksAreSeq
<1>3. Len(found) = Len(updates) /\ \A k \in 1..Len(updates) : updates[k] = found[k]
  BY <1>1, LinksAreSeq, UpdatedHolds
<1> HIDE DEF found
<1>4. updates \in Seq(S)
  <2>1. \A k \in 1..Len(updates) : found[k] \in S
    BY <1>2, <1>3, ElementOfSeq
  <2>2. updates \in [1..Len(updates) -> S] /\ Len(updates) \in Nat
    BY <1>1, <1>3, <2>1, LenProperties
  <2> QED
    BY <2>2
<1> QED
  BY <1>2, <1>3, <1>4, SeqEqual DEF found

-----------------------------------------------------------------------------
(* What the buffer holds *)

(* What TypeOK says, with the sizes of everything. *)
LEMMA Types ==
  ASSUME TypeOK
  PROVE  /\ content \in Seq(Text) /\ Len(content) \in Nat
         /\ file \in Seq(Text) /\ Len(file) \in Nat
         /\ buffer \in Seq(Text) /\ edge \in Nat /\ edge <= BufferSize
         /\ BufferSize \in Nat /\ BufferSize >= 1
         /\ pos \in Nat /\ pos <= BufferSize /\ start \in Nat /\ start <= BufferSize
         /\ updates \in Seq(Seq(Letter)) /\ Len(updates) \in Nat
         /\ \A k \in 1..edge : buffer[k] \in Text
  BY LinkFileAssumption, LenProperties, ElementOfSeq DEF TypeOK, Text, edge

(* What the loop that looks for white space finds. *)
LEMMA FirstSpace ==
  ASSUME TypeOK, NEW from \in Nat, from <= edge
  PROVE  /\ First_space(from) \in Nat /\ from <= First_space(from) /\ First_space(from) <= edge
         /\ \A k \in from + 1..First_space(from) : buffer[k] # Space
         /\ First_space(from) < edge => buffer[First_space(from) + 1] = Space
<1> DEFINE T == {k \in from..edge - 1 : buffer[k + 1] = Space}
           S == T \cup {edge}
           m == First_space(from)
<1>1. edge \in Nat
  BY Types
<1>2. S \in SUBSET Nat /\ S # {} /\ \A k \in S : from <= k /\ k <= edge
  BY <1>1
<1>3. m = Min(S)
  BY DEF First_space
<1> HIDE DEF m, S
<1>4. m \in S /\ \A y \in S : m <= y
  BY <1>2, <1>3, MinIsLeast
<1>5. ASSUME NEW k \in from + 1..m
      PROVE  buffer[k] # Space
  <2> SUFFICES ASSUME buffer[k] = Space
               PROVE  FALSE
    OBVIOUS
  <2>1. k - 1 \in from..edge - 1 /\ (k - 1) + 1 = k /\ k - 1 < m
    BY <1>1, <1>2, <1>4
  <2>2. k - 1 \in S
    BY <2>1 DEF S
  <2> QED
    BY <1>2, <1>4, <2>1, <2>2
<1>6. m < edge => buffer[m + 1] = Space
  BY <1>1, <1>4 DEF S
<1> QED
  BY <1>2, <1>4, <1>5, <1>6 DEF m

(* What the loop that looks for a letter finds. *)
LEMMA FirstLetter ==
  ASSUME TypeOK, NEW from \in Nat, from <= edge
  PROVE  /\ First_letter(from) \in Nat /\ from <= First_letter(from) /\ First_letter(from) <= edge
         /\ \A k \in from + 1..First_letter(from) : buffer[k] = Space
         /\ First_letter(from) < edge => buffer[First_letter(from) + 1] # Space
<1> DEFINE T == {k \in from..edge - 1 : buffer[k + 1] # Space}
           S == T \cup {edge}
           m == First_letter(from)
<1>1. edge \in Nat
  BY Types
<1>2. S \in SUBSET Nat /\ S # {} /\ \A k \in S : from <= k /\ k <= edge
  BY <1>1
<1>3. m = Min(S)
  BY DEF First_letter
<1> HIDE DEF m, S
<1>4. m \in S /\ \A y \in S : m <= y
  BY <1>2, <1>3, MinIsLeast
<1>5. ASSUME NEW k \in from + 1..m
      PROVE  buffer[k] = Space
  <2> SUFFICES ASSUME buffer[k] # Space
               PROVE  FALSE
    OBVIOUS
  <2>1. k - 1 \in from..edge - 1 /\ (k - 1) + 1 = k /\ k - 1 < m
    BY <1>1, <1>2, <1>4
  <2>2. k - 1 \in S
    BY <2>1 DEF S
  <2> QED
    BY <1>2, <1>4, <2>1, <2>2
<1>6. m < edge => buffer[m + 1] # Space
  BY <1>1, <1>4 DEF S
<1> QED
  BY <1>2, <1>4, <1>5, <1>6 DEF m

-----------------------------------------------------------------------------
(* The steps of load_channel_file *)

(* Updates are judged by the file, which stays. *)
LEMMA SameUpdates ==
  ASSUME Updated, UNCHANGED <<content, updates>>
  PROVE  Updated'
BY DEF Updated

(* The start of load_channel_file. *)
LEMMA LinkInit == Init => LInv
<1> SUFFICES ASSUME Init
             PROVE  LInv
  OBVIOUS
<1>1. /\ content \in Files /\ content \in Seq(Text) /\ Len(content) \in Nat /\ file = content
      /\ BufferSize \in Nat /\ BufferSize >= 1
  BY LinkFileAssumption, LenProperties DEF Init, Text
<1>2. /\ buffer = <<>> /\ pos = 0 /\ start = 0 /\ full = TRUE /\ updates = <<>> /\ pc = "read"
      /\ edge = 0 /\ Off = 0
  <2>1. /\ buffer = <<>> /\ pos = 0 /\ start = 0 /\ full = TRUE /\ updates = <<>> /\ pc = "read"
    BY DEF Init
  <2>2. edge = 0
    BY <2>1 DEF edge
  <2> QED
    BY <1>1, <2>1, <2>2 DEF Off
<1>3. TypeOK
  BY <1>1, <1>2 DEF TypeOK, Text
<1>4. Window
  BY <1>1, <1>2 DEF Window
<1>5. Up_to(content, 0) = {}
  BY <1>1, PlaceFacts DEF Up_to
<1>6. Reading
  BY <1>2, <1>5, FS_EmptySet DEF Reading, Between
<1> QED
  BY <1>2, <1>3, <1>4, <1>6 DEF LInv, Updated

(* fread moves the window to where the file was read. *)
LEMMA FreadInv ==
  ASSUME LInv, fread
  PROVE  LInv'
<1> DEFINE read == Min({To_read, Len(file)})
<1>1. TypeOK /\ Window /\ Reading /\ Updated /\ pc = "read"
  BY DEF LInv, fread
<1>2. /\ content \in Seq(Text) /\ file \in Seq(Text) /\ buffer \in Seq(Text)
      /\ Len(content) \in Nat /\ Len(file) \in Nat /\ edge \in Nat /\ edge <= BufferSize
      /\ Len(buffer) = edge /\ BufferSize \in Nat /\ pos = edge /\ Off \in Nat
  BY <1>1, Types DEF Reading, edge, Off, Window
<1>3. To_read = BufferSize - edge
  BY <1>2 DEF To_read
<1>4. read \in Nat /\ read <= BufferSize - edge /\ read <= Len(file)
      /\ (read = BufferSize - edge \/ read = Len(file))
  <2>1. {To_read, Len(file)} \in SUBSET Nat /\ {To_read, Len(file)} # {}
    BY <1>2, <1>3
  <2> QED
    BY <1>2, <1>3, <2>1, MinIsLeast
<1>5. /\ buffer' = buffer \o SubSeq(file, 1, read)
      /\ file' = SubSeq(file, read + 1, Len(file))
      /\ full' = (read = BufferSize - edge)
      /\ pos' = 0 /\ pc' = "scan" /\ UNCHANGED <<content, start, updates>>
  BY <1>3 DEF fread, Filled
<1> HIDE DEF read
<1>6. \A k \in 1..Len(file) : file[k] \in Text
  BY <1>2, ElementOfSeq
<1>7. /\ SubSeq(file, 1, read) \in Seq(Text) /\ Len(SubSeq(file, 1, read)) = read
      /\ \A k \in 1..read : SubSeq(file, 1, read)[k] = file[k]
  BY <1>2, <1>4, <1>6, SubSeqProperties
<1>8. /\ file' \in Seq(Text) /\ Len(file') = Len(file) - read
      /\ \A k \in 1..Len(file) - read : file'[k] = file[read + k]
  <2>1. \A k \in read + 1..Len(file) : file[k] \in Text
    BY <1>2, <1>4, <1>6
  <2>2. /\ file' \in Seq(Text)
        /\ Len(file') = IF read + 1 <= Len(file) THEN Len(file) - (read + 1) + 1 ELSE 0
        /\ \A k \in 1..Len(file) - (read + 1) + 1 : file'[k] = file[(read + 1) + k - 1]
    BY <1>2, <1>4, <1>5, <2>1, SubSeqProperties
  <2>3. ASSUME NEW k \in 1..Len(file) - read
        PROVE  file'[k] = file[read + k]
    <3>1. k \in 1..Len(file) - (read + 1) + 1 /\ (read + 1) + k - 1 = read + k
      BY <1>2, <1>4
    <3> QED
      BY <2>2, <3>1
  <2> QED
    BY <1>2, <1>4, <2>2, <2>3
<1>9. /\ buffer' \in Seq(Text) /\ Len(buffer') = edge + read
      /\ \A k \in 1..edge : buffer'[k] = buffer[k]
      /\ \A k \in edge + 1..edge + read : buffer'[k] = file[k - edge]
  <2>1. /\ buffer' \in Seq(Text) /\ Len(buffer') = edge + read
        /\ \A k \in 1..edge + read :
             buffer'[k] = IF k <= edge THEN buffer[k] ELSE SubSeq(file, 1, read)[k - edge]
    <3> DEFINE more == SubSeq(file, 1, read)
    <3>1. more \in Seq(Text) /\ Len(more) = read /\ buffer' = buffer \o more
      BY <1>5, <1>7
    <3> HIDE DEF more
    <3>2. /\ buffer' \in Seq(Text) /\ Len(buffer') = edge + read
          /\ \A k \in 1..edge + read :
               buffer'[k] = IF k <= edge THEN buffer[k] ELSE more[k - edge]
      BY <1>2, <3>1, ConcatProperties
    <3> QED
      BY <3>2 DEF more
  <2>2. ASSUME NEW k \in 1..edge
        PROVE  buffer'[k] = buffer[k]
    BY <1>2, <1>4, <2>1
  <2>3. ASSUME NEW k \in edge + 1..edge + read
        PROVE  buffer'[k] = file[k - edge]
    <3>1. k \in 1..edge + read /\ ~ (k <= edge) /\ k - edge \in 1..read
      BY <1>2, <1>4
    <3> QED
      BY <1>7, <2>1, <3>1
  <2> QED
    BY <2>1, <2>2, <2>3
<1>10. edge' = edge + read /\ Off' = Off
  <2>1. edge' = edge + read
    BY <1>9 DEF edge
  <2>2. Off = Len(content) - Len(file) - edge
    BY DEF Off
  <2>3. Off' = Len(content) - Len(file') - edge'
    BY <1>5 DEF Off
  <2> QED
    BY <1>2, <1>4, <1>8, <2>1, <2>2, <2>3
<1>11. Window'
  <2>1. ASSUME NEW k \in 1..Len(file')
        PROVE  file'[k] = content[Off + (edge + read) + k]
    <3>1. read + k \in 1..Len(file) /\ Off + edge + (read + k) = Off + (edge + read) + k
      BY <1>2, <1>4, <1>8
    <3>2. file[read + k] = content[Off + edge + (read + k)]
      BY <1>1, <3>1 DEF Window
    <3> QED
      BY <1>8, <3>1, <3>2
  <2>2. ASSUME NEW k \in 1..edge + read
        PROVE  buffer'[k] = content[Off + k]
    <3>1. CASE k \in 1..edge
      BY <1>1, <1>9, <3>1 DEF Window
    <3>2. CASE k \in edge + 1..edge + read
      <4>1. k - edge \in 1..Len(file) /\ Off + edge + (k - edge) = Off + k
        BY <1>2, <1>4, <3>2
      <4>2. file[k - edge] = content[Off + edge + (k - edge)]
        BY <1>1, <4>1 DEF Window
      <4> QED
        BY <1>9, <3>2, <4>1, <4>2
    <3> QED
      BY <1>2, <1>4, <3>1, <3>2
  <2>3. \A k \in 1..Len(file') : file'[k] = content'[Off' + edge' + k]
    BY <1>5, <1>10, <2>1
  <2>4. \A k \in 1..edge' : buffer'[k] = content'[Off' + k]
    BY <1>5, <1>10, <2>2
  <2>5. Off' >= 0
    BY <1>2, <1>10
  <2> QED
    BY <2>3, <2>4, <2>5 DEF Window
<1>12. Scanning'
  <2>1. Between(Off) /\ Len(updates) = Cardinality(Up_to(content, Off))
    BY <1>1 DEF Reading
  <2>2. Off' + pos' = Off /\ pos' <= edge'
    BY <1>2, <1>4, <1>5, <1>10
  <2>3. Between(Off)'
    BY <1>5, <1>10, <2>1 DEF Between
  <2>4. (Between(Off + pos))'
    BY <1>5, <2>1, <2>2 DEF Between
  <2>5. Len(updates') = Cardinality(Up_to(content', Off' + pos'))
    BY <1>5, <2>1, <2>2
  <2>6. Start_behind'
    <3>1. CASE start = BufferSize
      BY <1>2, <1>4, <1>5, <1>10, <3>1 DEF Start_behind
    <3>2. CASE start = 0 /\ Off = 0
      BY <1>5, <1>10, <3>2 DEF Start_behind, Between
    <3> QED
      BY <1>1, <3>1, <3>2 DEF Reading
  <2>7. full' => edge' = BufferSize
    <3>1. full' => read = BufferSize - edge
      BY <1>5, Zenon
    <3> QED
      BY <1>2, <1>4, <1>10, <3>1
  <2>8. ~full' => file' = <<>>
    <3> SUFFICES ASSUME ~full'
                 PROVE  file' = <<>>
      OBVIOUS
    <3>2. read # BufferSize - edge
      BY <1>5, Zenon
    <3>1. Len(file') = 0
      BY <1>2, <1>4, <1>8, <3>2
    <3> QED
      BY <1>8, <3>1, EmptySeq
  <2> QED
    BY <2>2, <2>4, <2>5, <2>6, <2>7, <2>8 DEF Scanning, Up_to, Places, IsLink
<1>13. TypeOK'
  <2>1. full' \in BOOLEAN
    BY <1>5
  <2> QED
    BY <1>1, <1>2, <1>4, <1>5, <1>8, <1>9, <1>10, <2>1 DEF TypeOK, Text
<1> QED
  BY <1>1, <1>5, <1>11, <1>12, <1>13, SameUpdates DEF LInv

(* The white space before Begin, as the file has it. *)
LEMMA BeginFacts ==
  ASSUME TypeOK, Window, Scanning
  PROVE  /\ Off \in Nat /\ Off + edge + Len(file) = Len(content)
         /\ Begin \in Nat /\ pos <= Begin /\ Begin <= edge
         /\ \A k \in pos + 1..Begin : buffer[k] = Space
         /\ \A k \in Off + pos + 1..Off + Begin : content[k] = Space
         /\ Between(Off + Begin)
         /\ Up_to(content, Off + Begin) = Up_to(content, Off + pos)
         /\ Len(updates) = Cardinality(Up_to(content, Off + Begin))
         /\ Begin < edge => buffer[Begin + 1] # Space
<1>1. /\ content \in Seq(Text) /\ Len(content) \in Nat /\ Len(file) \in Nat /\ edge \in Nat
      /\ pos \in Nat
  BY Types
<1>2. Off \in Nat /\ Off + edge + Len(file) = Len(content)
  <2>1. Off = Len(content) - Len(file) - edge /\ Off >= 0
    BY DEF Off, Window
  <2> QED
    BY <1>1, <2>1
<1>3. pos <= edge /\ Between(Off + pos) /\ Len(updates) = Cardinality(Up_to(content, Off + pos))
  BY DEF Scanning
<1>4. /\ Begin \in Nat /\ pos <= Begin /\ Begin <= edge
      /\ \A k \in pos + 1..Begin : buffer[k] = Space
      /\ Begin < edge => buffer[Begin + 1] # Space
  BY <1>1, <1>3, FirstLetter DEF Begin
<1>5. ASSUME NEW k \in Off + pos + 1..Off + Begin
      PROVE  content[k] = Space
  <2>1. k - Off \in pos + 1..Begin /\ k - Off \in 1..edge /\ Off + (k - Off) = k
    BY <1>1, <1>2, <1>4
  <2>2. buffer[k - Off] = content[Off + (k - Off)]
    BY <2>1 DEF Window
  <2> QED
    BY <1>4, <2>1, <2>2
<1>6. Between(Off + Begin)
  <2>1. CASE Begin = pos
    BY <1>3, <2>1
  <2>2. CASE Begin # pos
    <3>1. Off + Begin \in Off + pos + 1..Off + Begin
      BY <1>1, <1>2, <1>4, <2>2
    <3> QED
      BY <1>5, <3>1 DEF Between
  <2> QED
    BY <2>1, <2>2
<1>7. Up_to(content, Off + Begin) = Up_to(content, Off + pos)
  <2>1. Off + pos \in Nat /\ Off + Begin \in Nat /\ Off + pos <= Off + Begin
    BY <1>1, <1>2, <1>4
  <2> QED
    BY <1>1, <1>5, <2>1, NoneMore
<1> QED
  BY <1>2, <1>3, <1>4, <1>5, <1>6, <1>7

(* The link found is the next one of the file. *)
LEMMA FoundLink ==
  ASSUME TypeOK, Window, Scanning, Begin < edge, Ended < edge
  PROVE  \E r \in Places(content) :
           /\ r[1] = Off + Begin + 1 /\ r[2] = Off + Ended
           /\ content[Off + Ended + 1] = Space
           /\ Ended \in Nat /\ Begin < Ended
           /\ SubSeq(buffer, Begin + 1, Ended) = SubSeq(content, r[1], r[2])
           /\ SubSeq(buffer, Begin + 1, Ended) \in Seq(Letter)
           /\ Cardinality(Up_to(content, r[1])) = Len(updates) + 1
           /\ Cardinality(Up_to(content, Off + Ended + 1)) = Len(updates) + 1
<1> DEFINE r == <<Off + Begin + 1, Off + Ended>>
<1>1. /\ content \in Seq(Text) /\ Len(content) \in Nat /\ Len(file) \in Nat /\ edge \in Nat
      /\ buffer \in Seq(Text) /\ Len(buffer) = edge
      /\ \A k \in 1..edge : buffer[k] \in Text
      /\ pos \in Nat
  BY Types DEF edge
<1>2. /\ Off \in Nat /\ Off + edge + Len(file) = Len(content)
      /\ Begin \in Nat /\ Begin <= edge /\ pos <= Begin
      /\ \A k \in Off + pos + 1..Off + Begin : content[k] = Space
      /\ Between(Off + Begin) /\ Len(updates) = Cardinality(Up_to(content, Off + pos))
      /\ buffer[Begin + 1] # Space
  BY BeginFacts
<1>3. /\ Ended \in Nat /\ Begin <= Ended
      /\ \A k \in Begin + 1..Ended : buffer[k] # Space
      /\ buffer[Ended + 1] = Space
  BY <1>2, FirstSpace DEF Ended
<1>4. Begin < Ended
  <2>1. Begin # Ended
    BY <1>2, <1>3
  <2> QED
    BY <1>2, <1>3, <2>1
<1>5. \A k \in 1..edge : content[Off + k] = buffer[k]
  BY DEF Window
<1> HIDE DEF r
<1>pair. r = <<r[1], r[2]>>
  BY DEF r
<1>6. r[1] = Off + Begin + 1 /\ r[2] = Off + Ended
  BY DEF r
<1>7. /\ r[1] \in 1..Len(content) /\ r[2] \in 1..Len(content) /\ r[1] <= r[2]
      /\ r[2] < Len(content)
  BY <1>1, <1>2, <1>3, <1>4, <1>6
<1>8. content[r[2] + 1] = Space /\ content[Off + Ended + 1] = Space
  <2>1. Ended + 1 \in 1..edge /\ r[2] + 1 = Off + (Ended + 1) /\ Off + Ended + 1 = Off + (Ended + 1)
    BY <1>1, <1>2, <1>3, <1>6
  <2> QED
    BY <1>3, <1>5, <2>1
<1>9. ASSUME NEW k \in r[1]..r[2]
      PROVE  content[k] # Space
  <2>1. k - Off \in Begin + 1..Ended /\ k - Off \in 1..edge /\ Off + (k - Off) = k
    BY <1>1, <1>2, <1>3, <1>6
  <2> QED
    BY <1>3, <1>5, <2>1
<1>10. r[1] = 1 \/ content[r[1] - 1] = Space
  <2>1. r[1] - 1 = Off + Begin
    BY <1>2, <1>6
  <2> QED
    BY <1>2, <1>6, <2>1 DEF Between
<1>11. r \in Places(content)
  <2>1. r \in (1..Len(content)) \X (1..Len(content))
    BY <1>pair, <1>7
  <2>2. IsLink(content, r[1], r[2])
    BY <1>7, <1>8, <1>9, <1>10 DEF IsLink
  <2> QED
    BY <1>7, <2>1, <2>2 DEF Places
<1>12. \A d \in Nat : r[1] <= d /\ d <= r[2] + 1 =>
         Cardinality(Up_to(content, d)) = Len(updates) + 1
  <2>1. Off + pos \in Nat /\ Off + pos < r[1] /\ r[1] - 1 = Off + Begin
    BY <1>1, <1>2, <1>6
  <2>2. \A k \in Off + pos + 1..r[1] - 1 : content[k] = Space
    BY <1>2, <2>1
  <2> QED
    <3> SUFFICES ASSUME NEW d \in Nat, r[1] <= d, d <= r[2] + 1
                 PROVE  Cardinality(Up_to(content, d)) = Len(updates) + 1
      OBVIOUS
    <3>1. Cardinality(Up_to(content, d)) = Cardinality(Up_to(content, Off + pos)) + 1
      BY <1>1, <1>11, <2>1, <2>2, OneMore
    <3> QED
      BY <1>2, <3>1
<1>13. /\ Cardinality(Up_to(content, r[1])) = Len(updates) + 1
       /\ Cardinality(Up_to(content, Off + Ended + 1)) = Len(updates) + 1
  <2>1. r[1] \in Nat /\ r[1] <= r[2] + 1 /\ r[2] + 1 = Off + Ended + 1 /\ Off + Ended + 1 \in Nat
    BY <1>2, <1>3, <1>6, <1>7
  <2> QED
    BY <1>7, <1>12, <2>1
<1> DEFINE n == Ended - Begin
<1>14. n \in Nat /\ n >= 1
  BY <1>2, <1>3, <1>4
<1>15. ASSUME NEW k \in 1..n
       PROVE  /\ Begin + k \in 1..edge /\ Begin + k \in Begin + 1..Ended
              /\ (Begin + 1) + k - 1 = Begin + k /\ r[1] + k - 1 = Off + (Begin + k)
  BY <1>1, <1>2, <1>3, <1>6
<1>16. /\ SubSeq(buffer, Begin + 1, Ended) \in Seq(Letter)
       /\ Len(SubSeq(buffer, Begin + 1, Ended)) = n
       /\ \A k \in 1..n : SubSeq(buffer, Begin + 1, Ended)[k] = buffer[Begin + k]
  <2>1. \A k \in Begin + 1..Ended : buffer[k] \in Letter
    <3>1. \A k \in Begin + 1..Ended : k \in 1..edge
      BY <1>1, <1>2, <1>3
    <3> QED
      BY <1>1, <1>3, <3>1 DEF Text
  <2>2. Ended - (Begin + 1) + 1 = n /\ Begin + 1 <= Ended /\ Begin + 1 \in Int /\ Ended \in Int
    BY <1>2, <1>3, <1>4
  <2> HIDE DEF n
  <2>3. /\ SubSeq(buffer, Begin + 1, Ended) \in Seq(Letter)
        /\ Len(SubSeq(buffer, Begin + 1, Ended)) = n
        /\ \A k \in 1..n : SubSeq(buffer, Begin + 1, Ended)[k] = buffer[(Begin + 1) + k - 1]
    BY <2>1, <2>2, SubSeqProperties
  <2> QED
    BY <1>15, <2>3
<1>17. /\ SubSeq(content, r[1], r[2]) \in Seq(Text)
       /\ Len(SubSeq(content, r[1], r[2])) = n
       /\ \A k \in 1..n : SubSeq(content, r[1], r[2])[k] = content[Off + (Begin + k)]
  <2>1. \A k \in r[1]..r[2] : content[k] \in Text
    BY <1>1, <1>7, ElementOfSeq
  <2>2. r[2] - r[1] + 1 = n /\ r[1] <= r[2] /\ r[1] \in Int /\ r[2] \in Int
    BY <1>2, <1>3, <1>6, <1>7
  <2> HIDE DEF n
  <2>3. /\ SubSeq(content, r[1], r[2]) \in Seq(Text)
        /\ Len(SubSeq(content, r[1], r[2])) = n
        /\ \A k \in 1..n : SubSeq(content, r[1], r[2])[k] = content[r[1] + k - 1]
    BY <2>1, <2>2, SubSeqProperties
  <2> QED
    BY <1>15, <2>3
<1>18. SubSeq(buffer, Begin + 1, Ended) = SubSeq(content, r[1], r[2])
  <2> DEFINE s == SubSeq(buffer, Begin + 1, Ended)
             t == SubSeq(content, r[1], r[2])
  <2>1. \A k \in 1..n : s[k] = t[k]
    BY <1>5, <1>15, <1>16, <1>17
  <2>2. s \in Seq(Text)
    <3>1. Letter \subseteq Text
      BY DEF Text
    <3> QED
      BY <1>16, <3>1
  <2>3. t \in Seq(Text) /\ Len(s) = Len(t)
    BY <1>16, <1>17
  <2> HIDE DEF s, t, n
  <2>4. Len(s) = n
    BY <1>16 DEF s
  <2>5. s = t
    BY <2>1, <2>2, <2>3, <2>4, SeqEqual
  <2> QED
    BY <2>5 DEF s, t
<1> QED
  BY <1>3, <1>4, <1>6, <1>8, <1>11, <1>13, <1>16, <1>18

(* A link found in the buffer is the next one of the file. *)
LEMMA ScanLinkInv ==
  ASSUME LInv, scan_link
  PROVE  LInv'
<1>1. TypeOK /\ Window /\ Scanning /\ Updated /\ pc = "scan"
  BY DEF LInv, scan_link
<1>2. /\ Begin < edge /\ Ended < edge
      /\ updates' = Append(updates, SubSeq(buffer, Begin + 1, Ended))
      /\ pos' = Ended + 1 /\ start' = Ended + 1
      /\ UNCHANGED <<content, file, buffer, full, pc>>
  BY DEF scan_link
<1>3. PICK r \in Places(content) :
        /\ r[1] = Off + Begin + 1 /\ r[2] = Off + Ended
        /\ content[Off + Ended + 1] = Space
        /\ Ended \in Nat /\ Begin < Ended
        /\ SubSeq(buffer, Begin + 1, Ended) = SubSeq(content, r[1], r[2])
        /\ SubSeq(buffer, Begin + 1, Ended) \in Seq(Letter)
        /\ Cardinality(Up_to(content, r[1])) = Len(updates) + 1
        /\ Cardinality(Up_to(content, Off + Ended + 1)) = Len(updates) + 1
  BY <1>1, <1>2, FoundLink
<1>4. /\ edge \in Nat /\ edge <= BufferSize /\ BufferSize \in Nat
      /\ updates \in Seq(Seq(Letter)) /\ Len(updates) \in Nat /\ Off \in Nat
  BY <1>1, Types, BeginFacts
<1>5. edge' = edge /\ Off' = Off
  BY <1>2 DEF edge, Off
<1>6. /\ updates' \in Seq(Seq(Letter)) /\ Len(updates') = Len(updates) + 1
      /\ \A k \in 1..Len(updates) : updates'[k] = updates[k]
      /\ updates'[Len(updates) + 1] = SubSeq(content, r[1], r[2])
  <2> DEFINE link == SubSeq(content, r[1], r[2])
  <2>1. link \in Seq(Letter) /\ updates' = Append(updates, link)
    BY <1>2, <1>3
  <2> HIDE DEF link
  <2>2. /\ updates' \in Seq(Seq(Letter)) /\ Len(updates') = Len(updates) + 1
        /\ \A k \in 1..Len(updates) : updates'[k] = updates[k]
        /\ updates'[Len(updates) + 1] = link
    BY <1>4, <2>1, AppendProperties
  <2> QED
    BY <2>2 DEF link
<1>7. TypeOK'
  <2>1. pos' \in 0..BufferSize /\ start' \in 0..BufferSize
    BY <1>2, <1>3, <1>4
  <2> QED
    BY <1>1, <1>2, <1>5, <1>6, <2>1 DEF TypeOK
<1>8. Window'
  BY <1>1, <1>2, <1>5 DEF Window
<1>9. Scanning'
  <2>1. pos' <= edge' /\ Off' + pos' = Off + Ended + 1 /\ start' = pos'
    BY <1>2, <1>3, <1>4, <1>5
  <2>2. (Between(Off + pos))'
    BY <1>2, <1>3, <2>1 DEF Between
  <2>3. Len(updates') = Cardinality(Up_to(content', Off' + pos'))
    BY <1>2, <1>3, <1>6, <2>1
  <2>4. Start_behind'
    <3>1. \A k \in start' + 1..pos' : FALSE
      BY <1>2, <1>3
    <3>2. start' <= pos' /\ (Between(Off + start))'
      BY <1>2, <1>3, <2>1, <2>2
    <3> QED
      BY <3>1, <3>2 DEF Start_behind
  <2>5. (full' => edge' = BufferSize) /\ (~full' => file' = <<>>)
    BY <1>1, <1>2, <1>5 DEF Scanning
  <2> QED
    BY <2>1, <2>2, <2>3, <2>4, <2>5 DEF Scanning
<1>10. Updated'
  <2>1. ASSUME NEW n \in 1..Len(updates) + 1
        PROVE  \E q \in Places(content) :
                 Cardinality(Up_to(content, q[1])) = n /\ updates'[n] = SubSeq(content, q[1], q[2])
    <3>1. CASE n \in 1..Len(updates)
      BY <1>1, <1>6, <3>1 DEF Updated
    <3>2. CASE n = Len(updates) + 1
      BY <1>3, <1>6, <3>2
    <3> QED
      BY <1>4, <3>1, <3>2
  <2>2. content' = content /\ Len(updates') = Len(updates) + 1
    BY <1>2, <1>6
  <2> QED
    BY <2>1, <2>2 DEF Updated
<1> QED
  BY <1>1, <1>2, <1>7, <1>8, <1>9, <1>10 DEF LInv

(* Max of two numbers. *)
LEMMA MaxOfTwo ==
  ASSUME NEW x \in Nat, NEW y \in Nat
  PROVE  Max({x, y}) = IF x >= y THEN x ELSE y
<1>1. \E m \in {x, y} : \A z \in {x, y} : m >= z
  OBVIOUS
<1>2. Max({x, y}) \in {x, y} /\ \A z \in {x, y} : Max({x, y}) >= z
  BY <1>1 DEF Max
<1> QED
  BY <1>2

(* What is cut at the end of the buffer begins where no link goes on, and  *)
(* every link before it was updated.                                       *)
LEMMA CutFacts ==
  ASSUME TypeOK, Window, Scanning, Begin = edge \/ Ended = edge
  PROVE  /\ Cut \in Nat /\ Cut <= BufferSize
         /\ Cut < edge => /\ Between(Off + Cut)
                          /\ Len(updates) = Cardinality(Up_to(content, Off + Cut))
         /\ Cut >= edge => /\ Between(Off + edge)
                           /\ Len(updates) = Cardinality(Up_to(content, Off + edge))
         /\ Off + edge = Len(content) => Len(updates) = Cardinality(Places(content))
<1>1. /\ content \in Seq(Text) /\ Len(content) \in Nat /\ edge \in Nat /\ edge <= BufferSize
      /\ pos \in Nat /\ start \in Nat /\ start <= BufferSize /\ BufferSize \in Nat
  BY Types
<1>2. /\ Off \in Nat /\ Off + edge + Len(file) = Len(content)
      /\ Begin \in Nat /\ pos <= Begin /\ Begin <= edge
      /\ \A k \in pos + 1..Begin : buffer[k] = Space
      /\ Between(Off + Begin)
      /\ Len(updates) = Cardinality(Up_to(content, Off + Begin))
  BY BeginFacts
<1>3. \A k \in 1..edge : content[Off + k] = buffer[k]
  BY DEF Window
<1>4. CASE Begin < edge
  <2>1. Ended = edge /\ Cut = Begin
    BY <1>1, <1>2, <1>4 DEF Cut
  <2>2. \A k \in Begin + 1..edge : buffer[k] # Space
    BY <1>2, <2>1, FirstSpace DEF Ended
  <2>3. ASSUME Off + edge = Len(content), NEW r \in Places(content)
        PROVE  r[1] <= Off + Begin
    <3>1. /\ r[1] \in Nat /\ r[2] \in Nat /\ r[1] <= r[2] /\ r[2] < Len(content)
          /\ content[r[2] + 1] = Space
      BY <1>1, PlaceFacts
    <3>2. Off + Begin \in Nat
      BY <1>2
    <3>3. ASSUME r[1] > Off + Begin
          PROVE  FALSE
      <4> DEFINE e == r[2] + 1
                 k == e - Off
      <4>1. e \in Nat /\ Off + Begin < e /\ e <= Off + edge
        BY <2>3, <3>1, <3>2, <3>3
      <4> HIDE DEF e
      <4>2. k \in Begin + 1..edge /\ k \in 1..edge /\ Off + k = e
        BY <1>1, <1>2, <4>1
      <4>3. content[e] = Space
        BY <3>1 DEF e
      <4> QED
        BY <1>3, <2>2, <4>2, <4>3
    <3> QED
      BY <3>1, <3>2, <3>3
  <2>4. Off + edge = Len(content) => Up_to(content, Off + Begin) = Places(content)
    BY <2>3 DEF Up_to
  <2> QED
    BY <1>1, <1>2, <1>4, <2>1, <2>4
<1>5. CASE ~ (Begin < edge)
  <2>1. Begin = edge /\ Cut = start
    BY <1>1, <1>2, <1>5 DEF Cut
  <2>2. Between(Off + edge) /\ Len(updates) = Cardinality(Up_to(content, Off + edge))
    BY <1>2, <2>1
  <2>3. ASSUME start < edge
        PROVE  /\ Between(Off + start)
               /\ Len(updates) = Cardinality(Up_to(content, Off + start))
    <3>1. /\ start <= pos /\ Between(Off + start)
          /\ \A k \in start + 1..pos : buffer[k] = Space
      BY <1>1, <2>3 DEF Scanning, Start_behind
    <3>2. \A k \in start + 1..edge : buffer[k] = Space
      BY <1>1, <1>2, <2>1, <3>1
    <3>3. ASSUME NEW k \in Off + start + 1..Off + edge
          PROVE  content[k] = Space
      <4>1. k - Off \in start + 1..edge /\ k - Off \in 1..edge /\ Off + (k - Off) = k
        BY <1>1, <1>2
      <4> QED
        BY <1>3, <3>2, <4>1
    <3>4. Off + start \in Nat /\ Off + edge \in Nat /\ Off + start <= Off + edge
      BY <1>1, <1>2, <2>3
    <3>5. Up_to(content, Off + edge) = Up_to(content, Off + start)
      BY <1>1, <3>3, <3>4, NoneMore
    <3> QED
      BY <2>2, <3>1, <3>5
  <2>4. ASSUME Off + edge = Len(content)
        PROVE  Up_to(content, Off + edge) = Places(content)
    <3>1. \A r \in Places(content) : r[1] <= Len(content)
      BY <1>1, PlaceFacts
    <3> QED
      BY <2>4, <3>1 DEF Up_to
  <2> QED
    BY <1>1, <2>1, <2>2, <2>3, <2>4
<1> QED
  BY <1>4, <1>5

(* What is moved to the start of the buffer is where the window begins     *)
(* next.                                                                   *)
LEMMA ScanEndInv ==
  ASSUME LInv, scan_end
  PROVE  LInv'
<1>1. TypeOK /\ Window /\ Scanning /\ Updated /\ pc = "scan"
  BY DEF LInv, scan_end
<1>2. /\ Begin = edge \/ Ended = edge
      /\ buffer' = SubSeq(buffer, Cut + 1, edge)
      /\ pos' = edge' /\ start' = Max({Cut, edge})
      /\ pc' = IF full THEN "read" ELSE "done"
      /\ UNCHANGED <<content, file, full, updates>>
  BY DEF scan_end, edge
<1>3. /\ Cut \in Nat /\ Cut <= BufferSize
      /\ Cut < edge => /\ Between(Off + Cut)
                       /\ Len(updates) = Cardinality(Up_to(content, Off + Cut))
      /\ Cut >= edge => /\ Between(Off + edge)
                        /\ Len(updates) = Cardinality(Up_to(content, Off + edge))
      /\ Off + edge = Len(content) => Len(updates) = Cardinality(Places(content))
  BY <1>1, <1>2, CutFacts
<1>4. /\ edge \in Nat /\ edge <= BufferSize /\ BufferSize \in Nat /\ BufferSize >= 1
      /\ buffer \in Seq(Text) /\ Len(buffer) = edge /\ Len(content) \in Nat /\ Len(file) \in Nat
      /\ \A k \in 1..edge : buffer[k] \in Text
      /\ Off \in Nat /\ Off + edge + Len(file) = Len(content)
  BY <1>1, Types, BeginFacts DEF edge
<1> DEFINE kept == IF Cut < edge THEN edge - Cut ELSE 0
<1>5. /\ kept \in Nat /\ kept <= edge
      /\ \A k \in 1..kept : Cut < edge /\ Cut + k \in 1..edge /\ (Cut + 1) + k - 1 = Cut + k
  BY <1>3, <1>4
<1>6. /\ buffer' \in Seq(Text) /\ Len(buffer') = kept
      /\ \A k \in 1..kept : buffer'[k] = buffer[Cut + k]
  <2>1. \A k \in Cut + 1..edge : buffer[k] \in Text
    BY <1>3, <1>4
  <2>2. /\ buffer' \in Seq(Text)
        /\ Len(buffer') = IF Cut + 1 <= edge THEN edge - (Cut + 1) + 1 ELSE 0
        /\ \A k \in 1..edge - (Cut + 1) + 1 : buffer'[k] = buffer[(Cut + 1) + k - 1]
    BY <1>2, <1>3, <1>4, <2>1, SubSeqProperties
  <2>3. Len(buffer') = kept
    BY <1>3, <1>4, <2>2
  <2>4. ASSUME NEW k \in 1..kept
        PROVE  buffer'[k] = buffer[Cut + k]
    <3>1. k \in 1..edge - (Cut + 1) + 1
      BY <1>3, <1>4, <1>5
    <3> QED
      BY <1>5, <2>2, <3>1
  <2> QED
    BY <2>2, <2>3, <2>4
<1>7. start' \in Nat /\ start' <= BufferSize /\ start' >= edge
  <2>1. start' = IF Cut >= edge THEN Cut ELSE edge
    BY <1>2, <1>3, <1>4, MaxOfTwo
  <2> QED
    BY <1>3, <1>4, <2>1
<1>8. edge' = kept
  BY <1>6 DEF edge
<1>9. Off' = Off + (edge - kept) /\ (Cut < edge => Off' = Off + Cut)
      /\ (Cut >= edge => Off' = Off + edge)
  <2>1. Off' = Len(content) - Len(file) - kept
    BY <1>2, <1>8 DEF Off
  <2> QED
    BY <1>3, <1>4, <2>1
<1> HIDE DEF kept
<1>10. TypeOK'
  <2>1. pos' \in 0..BufferSize /\ start' \in 0..BufferSize /\ edge' <= BufferSize
    BY <1>2, <1>4, <1>5, <1>7, <1>8
  <2>2. pc' \in {"read", "scan", "done"}
    BY <1>2
  <2>3. buffer' \in Seq(Letter \cup {Space})
    BY <1>6 DEF Text
  <2> QED
    BY <1>1, <1>2, <2>1, <2>2, <2>3 DEF TypeOK
<1>11. Window'
  <2>1. Off' \in Nat /\ Off' + edge' = Off + edge
    BY <1>4, <1>5, <1>8, <1>9
  <2>2. \A k \in 1..Len(file') : file'[k] = content'[Off' + edge' + k]
    BY <1>1, <1>2, <2>1 DEF Window
  <2>3. ASSUME NEW k \in 1..kept
        PROVE  buffer'[k] = content[Off' + k]
    <3>1. Off' + k = Off + (Cut + k)
      BY <1>3, <1>4, <1>5, <1>9
    <3>2. buffer[Cut + k] = content[Off + (Cut + k)]
      BY <1>1, <1>5 DEF Window
    <3> QED
      BY <1>6, <3>1, <3>2
  <2>4. \A k \in 1..edge' : buffer'[k] = content'[Off' + k]
    BY <1>2, <1>8, <2>3
  <2> QED
    BY <2>1, <2>2, <2>4 DEF Window
<1>12. Between(Off)' /\ Len(updates') = Cardinality(Up_to(content', Off'))
  <2>1. CASE Cut < edge
    BY <1>2, <1>3, <1>9, <2>1 DEF Between
  <2>2. CASE Cut >= edge
    BY <1>2, <1>3, <1>9, <2>2 DEF Between
  <2> QED
    BY <1>3, <1>4, <2>1, <2>2
<1>13. CASE full
  <2>1. edge = BufferSize
    BY <1>1, <1>13 DEF Scanning
  <2>2. start' = BufferSize
    BY <1>4, <1>7, <2>1
  <2>3. Reading'
    BY <1>2, <1>12, <2>2 DEF Reading
  <2>4. pc' = "read"
    BY <1>2, <1>13
  <2> QED
    BY <1>1, <1>2, <1>10, <1>11, <2>3, <2>4, SameUpdates DEF LInv
<1>14. CASE ~full
  <2>1. Len(file) = 0
    BY <1>1, <1>14 DEF Scanning
  <2>2. Len(updates') = Cardinality(Places(content'))
    BY <1>2, <1>3, <1>4, <2>1
  <2>3. pc' = "done"
    BY <1>2, <1>14
  <2> QED
    BY <1>1, <1>2, <1>10, <1>11, <2>2, <2>3, SameUpdates DEF LInv
<1> QED
  BY <1>13, <1>14

(* Every step of vids.c keeps the invariant of load_channel_file. *)
LEMMA LinkStep == LInv /\ [VidsNext]_vidsVars => LInv'
<1> SUFFICES ASSUME LInv, [VidsNext]_vidsVars
             PROVE  LInv'
  OBVIOUS
<1>1. ASSUME UNCHANGED vars
      PROVE  LInv'
  <2>1. TypeOK' /\ edge' = edge /\ Off' = Off
    BY <1>1 DEF LInv, TypeOK, vars, edge, Off
  <2>2. Window'
    BY <1>1, <2>1 DEF LInv, Window, vars
  <2>3. pc = "read" => Reading'
    BY <1>1, <2>1 DEF LInv, Reading, Between, vars
  <2>4. pc = "scan" => Scanning'
    BY <1>1, <2>1 DEF LInv, Scanning, Start_behind, Between, vars
  <2> QED
    BY <1>1, <2>1, <2>2, <2>3, <2>4, SameUpdates DEF LInv, vars
<1>2. fread \/ scan_link \/ scan_end \/ UNCHANGED vars
  BY DEF VidsNext, vidsVars, update_channel, update_channel_failed, channels_write, serve_vids
<1> QED
  BY <1>1, <1>2, FreadInv, ScanLinkInv, ScanEndInv

(* Where load_channel_file is in the file and in its buffer, and which     *)
(* links it has updated: how many begin before that place, and that each   *)
(* is the link of its rank.                                                *)
THEOREM LinkInvariant == VidsSpec => []LInv
<1>1. VidsInit => LInv
  BY LinkInit DEF VidsInit
<1>2. LInv /\ [VidsNext]_vidsVars => LInv'
  BY LinkStep
<1> QED
  BY <1>1, <1>2, PTL DEF VidsSpec

(* However the links fall on the ends of the buffer of load_channel_file,  *)
(* and whatever becomes of the transfers: the channels updated so far are  *)
(* the first links of the file, whole and in order.                        *)
THEOREM UpdatesInOrder == VidsSpec => []UpdatesAreLinks
<1>1. LInv => UpdatesAreLinks
  BY UpdatedIsPrefix DEF LInv
<1> QED
  BY <1>1, LinkInvariant, PTL

(* When load_channel_file returns it has updated every link that white     *)
(* space follows.                                                          *)
THEOREM NoneMissed == VidsSpec => []AllUpdated
<1>1. LInv => AllUpdated
  BY AllAreUpdated DEF LInv, AllUpdated
<1> QED
  BY <1>1, LinkInvariant, PTL

-----------------------------------------------------------------------------
(* The elements of a document *)

(* The elements an entry begins and ends with. *)
Border == {"entry", "/entry"}

(* Between the borders of entries: what a part says of an author.          *)
Describes(s, a) ==
  /\ s \in Seq(Scrape!Unit)
  /\ \A k \in 1..Len(s) :
       /\ s[k].tag \notin Border
       /\ s[k].tag \in Scrape!AuthorField => s[k].text = a[s[k].tag]

(* The elements of s after the first m say what e says of the fields in F. *)
Gives(s, m, e, F) ==
  /\ \A k \in m + 1..Len(s) :
       /\ s[k].tag \notin Border
       /\ s[k].tag \in Scrape!EntryField => s[k].text = e[s[k].tag]
  /\ \A f \in F : e[f] # Null => \E k \in m + 1..Len(s) : s[k].tag = f

(* Two sequences, one behind the other: where the elements of each are. *)
LEMMA Joined ==
  ASSUME NEW S, NEW s \in Seq(S), NEW t \in Seq(S)
  PROVE  /\ s \o t \in Seq(S)
         /\ Len(s) \in Nat /\ Len(t) \in Nat /\ Len(s \o t) = Len(s) + Len(t)
         /\ \A k \in 1..Len(s) : k \in 1..Len(s \o t) /\ (s \o t)[k] = s[k]
         /\ \A k \in 1..Len(t) : Len(s) + k \in 1..Len(s \o t) /\ (s \o t)[Len(s) + k] = t[k]
         /\ \A k \in 1..Len(s \o t) :
              \/ k \in 1..Len(s)
              \/ k - Len(s) \in 1..Len(t) /\ (s \o t)[k] = t[k - Len(s)]
<1>1. Len(s) \in Nat /\ Len(t) \in Nat
  BY LenProperties
<1>2. /\ s \o t \in Seq(S) /\ Len(s \o t) = Len(s) + Len(t)
      /\ \A k \in 1..Len(s) + Len(t) :
           (s \o t)[k] = IF k <= Len(s) THEN s[k] ELSE t[k - Len(s)]
  BY ConcatProperties
<1>3. ASSUME NEW k \in 1..Len(s)
      PROVE  k \in 1..Len(s \o t) /\ (s \o t)[k] = s[k]
  BY <1>1, <1>2
<1>4. ASSUME NEW k \in 1..Len(t)
      PROVE  Len(s) + k \in 1..Len(s \o t) /\ (s \o t)[Len(s) + k] = t[k]
  <2>1. Len(s) + k \in 1..Len(s) + Len(t) /\ ~ (Len(s) + k <= Len(s)) /\ Len(s) + k - Len(s) = k
    BY <1>1
  <2> QED
    BY <1>2, <2>1
<1>5. ASSUME NEW k \in 1..Len(s \o t), k \notin 1..Len(s)
      PROVE  k - Len(s) \in 1..Len(t) /\ (s \o t)[k] = t[k - Len(s)]
  BY <1>1, <1>2, <1>5
<1> QED
  BY <1>1, <1>2, <1>3, <1>4, <1>5

(* Three parts joined, whichever two first. *)
LEMMA JoinedTwice ==
  ASSUME NEW s \in Seq(Scrape!Unit), NEW t \in Seq(Scrape!Unit), NEW u \in Seq(Scrape!Unit)
  PROVE  (s \o t) \o u = s \o (t \o u)
<1>1. PICK S : S = Scrape!Unit
  OBVIOUS
<1>2. s \in Seq(S) /\ t \in Seq(S) /\ u \in Seq(S)
  BY <1>1
<1> QED
  BY <1>2, ConcatAssociative

(* Two parts that agree with an author agree with it together. *)
LEMMA DescribesJoined ==
  ASSUME NEW a, NEW s, NEW t, Describes(s, a), Describes(t, a)
  PROVE  Describes(s \o t, a)
<1>1. s \in Seq(Scrape!Unit) /\ t \in Seq(Scrape!Unit)
  BY DEF Describes
<1>2. ASSUME NEW k \in 1..Len(s \o t)
      PROVE  /\ (s \o t)[k].tag \notin Border
             /\ (s \o t)[k].tag \in Scrape!AuthorField => (s \o t)[k].text = a[(s \o t)[k].tag]
  <2>1. CASE k \in 1..Len(s)
    BY <1>1, <2>1, Joined DEF Describes
  <2>2. CASE k - Len(s) \in 1..Len(t) /\ (s \o t)[k] = t[k - Len(s)]
    BY <2>2 DEF Describes
  <2> QED
    BY <1>1, <2>1, <2>2, Joined
<1> QED
  BY <1>1, <1>2, Joined DEF Describes

(* What two parts give of an entry, the two together give. *)
LEMMA GivesJoined ==
  ASSUME NEW e, NEW F, NEW G, NEW s \in Seq(Scrape!Unit), NEW t \in Seq(Scrape!Unit), NEW m \in 0..Len(s),
         Gives(s, m, e, F), Gives(t, 0, e, G)
  PROVE  Gives(s \o t, m, e, F \cup G)
<1>1. Len(s) \in Nat /\ Len(t) \in Nat /\ Len(s \o t) = Len(s) + Len(t)
  BY Joined
<1>2. ASSUME NEW k \in m + 1..Len(s \o t)
      PROVE  /\ (s \o t)[k].tag \notin Border
             /\ (s \o t)[k].tag \in Scrape!EntryField => (s \o t)[k].text = e[(s \o t)[k].tag]
  <2>1. CASE k \in 1..Len(s)
    <3>1. k \in m + 1..Len(s) /\ (s \o t)[k] = s[k]
      BY <1>1, <2>1, Joined
    <3> QED
      BY <3>1 DEF Gives
  <2>2. CASE k - Len(s) \in 1..Len(t) /\ (s \o t)[k] = t[k - Len(s)]
    <3>1. k - Len(s) \in 0 + 1..Len(t)
      BY <2>2
    <3> QED
      BY <2>2, <3>1 DEF Gives
  <2>3. k \in 1..Len(s \o t)
    BY <1>1
  <2> QED
    BY <2>1, <2>2, <2>3, Joined
<1>3. ASSUME NEW f \in F \cup G, e[f] # Null
      PROVE  \E k \in m + 1..Len(s \o t) : (s \o t)[k].tag = f
  <2>1. CASE f \in F
    <3>1. PICK k \in m + 1..Len(s) : s[k].tag = f
      BY <1>3, <2>1 DEF Gives
    <3>2. k \in 1..Len(s) /\ k \in m + 1..Len(s \o t)
      BY <1>1
    <3> QED
      BY <3>1, <3>2, Joined
  <2>2. CASE f \in G
    <3>1. PICK k \in 0 + 1..Len(t) : t[k].tag = f
      BY <1>3, <2>2 DEF Gives
    <3>2. k \in 1..Len(t) /\ Len(s) + k \in m + 1..Len(s \o t)
      BY <1>1
    <3>3. (s \o t)[Len(s) + k] = t[k]
      BY <3>2, Joined
    <3> QED
      BY <3>1, <3>2, <3>3
  <2> QED
    BY <2>1, <2>2
<1> QED
  BY <1>2, <1>3 DEF Gives

(* An element with a text is one unit; a field that is missing has none. *)
LEMMA ElementShape ==
  ASSUME NEW tag \in Scrape!Tags, NEW text \in Scrape!Sv
  PROVE  /\ Scrape!Element(tag, text) \in Seq(Scrape!Unit)
         /\ text = Null => Len(Scrape!Element(tag, text)) = 0
         /\ text # Null => /\ Len(Scrape!Element(tag, text)) = 1
                           /\ Scrape!Element(tag, text)[1] = [tag |-> tag, text |-> text]
<1>1. CASE text = Null
  BY <1>1, EmptySeq DEF Scrape!Element
<1>2. CASE text # Null
  <2>1. Scrape!Element(tag, text) = << [tag |-> tag, text |-> text] >>
    BY <1>2 DEF Scrape!Element
  <2>2. [tag |-> tag, text |-> text] \in Scrape!Unit
    BY DEF Scrape!Unit
  <2> QED
    BY <1>2, <2>1, <2>2
<1> QED
  BY <1>1, <1>2

(* A tag alone is one unit. *)
LEMMA TagShape ==
  ASSUME NEW tag \in Scrape!Tags
  PROVE  /\ Scrape!Tag(tag) \in Seq(Scrape!Unit) /\ Len(Scrape!Tag(tag)) = 1
         /\ Scrape!Tag(tag)[1] = [tag |-> tag, text |-> Null]
<1>1. [tag |-> tag, text |-> Null] \in Scrape!Unit
  BY DEF Scrape!Unit, Scrape!Sv
<1> QED
  BY <1>1 DEF Scrape!Tag

(* An element with the text of one of an author's or an entry's fields. *)
LEMMA ElementSays ==
  ASSUME NEW a, NEW e, NEW tag \in Scrape!Tags, NEW text \in Scrape!Sv, tag \notin Border,
         tag \in Scrape!AuthorField => text = a[tag]
  PROVE  /\ Describes(Scrape!Element(tag, text), a)
         /\ tag \notin Scrape!EntryField => Gives(Scrape!Element(tag, text), 0, e, {})
         /\ text = e[tag] => Gives(Scrape!Element(tag, text), 0, e, {tag})
<1> DEFINE s == Scrape!Element(tag, text)
<1>1. /\ s \in Seq(Scrape!Unit)
      /\ text = Null => Len(s) = 0
      /\ text # Null => Len(s) = 1 /\ s[1] = [tag |-> tag, text |-> text]
  BY ElementShape
<1> HIDE DEF s
<1>2. ASSUME NEW k \in 1..Len(s)
      PROVE  k = 1 /\ s[k].tag = tag /\ s[k].text = text /\ text # Null
  <2>1. text # Null
    BY <1>1
  <2>2. Len(s) = 1 /\ s[1] = [tag |-> tag, text |-> text]
    BY <1>1, <2>1
  <2>3. k = 1
    BY <2>2
  <2> QED
    BY <2>1, <2>2, <2>3
<1>3. ASSUME text # Null PROVE 1 \in 1..Len(s) /\ s[1].tag = tag
  <2>1. Len(s) = 1 /\ s[1] = [tag |-> tag, text |-> text]
    BY <1>1, <1>3
  <2> QED
    BY <2>1
<1>4. 0 + 1 = 1
  OBVIOUS
<1>5. Describes(s, a)
  BY <1>1, <1>2 DEF Describes
<1>6. ASSUME tag \notin Scrape!EntryField PROVE Gives(s, 0, e, {})
  BY <1>2, <1>4, <1>6 DEF Gives
<1>7. ASSUME text = e[tag] PROVE Gives(s, 0, e, {tag})
  BY <1>2, <1>3, <1>4, <1>7 DEF Gives
<1> QED
  BY <1>5, <1>6, <1>7 DEF s

(* A tag that is no field says nothing. *)
LEMMA TagSays ==
  ASSUME NEW a, NEW e, NEW tag \in Scrape!Tags, tag \notin Border,
         tag \notin Scrape!AuthorField, tag \notin Scrape!EntryField
  PROVE  Describes(Scrape!Tag(tag), a) /\ Gives(Scrape!Tag(tag), 0, e, {})
<1> DEFINE s == Scrape!Tag(tag)
<1>1. s \in Seq(Scrape!Unit) /\ Len(s) = 1 /\ s[1].tag = tag
  <2>1. s \in Seq(Scrape!Unit) /\ Len(s) = 1 /\ s[1] = [tag |-> tag, text |-> Null]
    BY TagShape
  <2> HIDE DEF s
  <2> QED
    BY <2>1
<1> HIDE DEF s
<1>2. \A k \in 1..Len(s) : k = 1 /\ s[k].tag = tag
  BY <1>1
<1>3. 0 + 1 = 1
  OBVIOUS
<1> QED
  BY <1>1, <1>2, <1>3 DEF Describes, Gives, s

(* Which elements are fields of an author, of an entry, of neither. *)
LEMMA TagKinds ==
  /\ \A tag \in {"author", "/author"} :
       /\ tag \in Scrape!Tags /\ tag \notin Border
       /\ tag \notin Scrape!AuthorField /\ tag \notin Scrape!EntryField
  /\ \A tag \in Scrape!AuthorField :
       tag \in Scrape!Tags /\ tag \notin Border /\ tag \notin Scrape!EntryField
  /\ \A tag \in Scrape!EntryField :
       tag \in Scrape!Tags /\ tag \notin Border /\ tag \notin Scrape!AuthorField
  /\ Scrape!AuthorField = {"uri", "name", "published"}
  /\ Scrape!EntryField = {"id", "title", "description"}
BY DEF Border, Scrape!Tags, Scrape!AuthorField, Scrape!EntryField

(* The fields of authors and entries are string views. *)
LEMMA FieldsOf ==
  /\ \A a \in Scrape!Author : a.uri \in Scrape!Sv /\ a.name \in Scrape!Sv /\ a.published \in Scrape!Sv
  /\ \A e \in Scrape!Entry : e.id \in Scrape!Sv /\ e.title \in Scrape!Sv /\ e.description \in Scrape!Sv
BY DEF Scrape!Author, Scrape!Entry, Scrape!AuthorField, Scrape!EntryField

(* The author's element tells the author's name and uri, and nothing of an *)
(* entry.                                                                  *)
LEMMA AuthorElementSays ==
  ASSUME NEW a \in Scrape!Author, NEW e
  PROVE  Describes(Scrape!AuthorElement(a), a) /\ Gives(Scrape!AuthorElement(a), 0, e, {})
<1> DEFINE s1 == Scrape!Tag("author")
           s2 == Scrape!Element("name", a.name)
           s3 == Scrape!Element("uri", a.uri)
           s4 == Scrape!Tag("/author")
<1>1. /\ Describes(s1, a) /\ Gives(s1, 0, e, {})
      /\ Describes(s4, a) /\ Gives(s4, 0, e, {})
  BY TagKinds, TagSays
<1>2. /\ Describes(s2, a) /\ Gives(s2, 0, e, {})
      /\ Describes(s3, a) /\ Gives(s3, 0, e, {})
  <2>1. /\ "name" \in Scrape!AuthorField /\ a["name"] = a.name /\ a.name \in Scrape!Sv
        /\ "uri" \in Scrape!AuthorField /\ a["uri"] = a.uri /\ a.uri \in Scrape!Sv
    BY TagKinds, FieldsOf
  <2> QED
    BY <2>1, TagKinds, ElementSays
<1>3. /\ s1 \in Seq(Scrape!Unit) /\ s2 \in Seq(Scrape!Unit) /\ s3 \in Seq(Scrape!Unit) /\ s4 \in Seq(Scrape!Unit)
      /\ s1 \o s2 \in Seq(Scrape!Unit) /\ s1 \o s2 \o s3 \in Seq(Scrape!Unit)
  BY <1>1, <1>2, Joined DEF Describes
<1> HIDE DEF s1, s2, s3, s4
<1>4. \A s \in Seq(Scrape!Unit) : 0 \in 0..Len(s)
  BY LenProperties
<1>5. Describes(s1 \o s2, a) /\ Describes(s1 \o s2 \o s3, a) /\ Describes(s1 \o s2 \o s3 \o s4, a)
  BY <1>1, <1>2, DescribesJoined
<1>6. Gives(s1 \o s2, 0, e, {})
  BY <1>1, <1>2, <1>3, <1>4, GivesJoined, {} \cup {} = {}
<1>7. Gives(s1 \o s2 \o s3, 0, e, {})
  BY <1>2, <1>3, <1>4, <1>6, GivesJoined, {} \cup {} = {}
<1>8. Gives(s1 \o s2 \o s3 \o s4, 0, e, {})
  BY <1>1, <1>3, <1>4, <1>7, GivesJoined, {} \cup {} = {}
<1> QED
  BY <1>5, <1>8 DEF Scrape!AuthorElement, s1, s2, s3, s4

(* An entry from its tag to its closing tag. *)
EntryAt(s, lo, hi, e) ==
  /\ lo + 2 <= hi /\ hi <= Len(s)
  /\ s[lo + 1].tag = "entry" /\ s[hi].tag = "/entry"
  /\ \A k \in lo + 2..hi - 1 :
       /\ s[k].tag \notin Border
       /\ s[k].tag \in Scrape!EntryField => s[k].text = e[s[k].tag]
  /\ \A f \in Scrape!EntryField : e[f] # Null => \E k \in lo + 2..hi - 1 : s[k].tag = f

(* An entry's element holds the entry's fields, and the author's inside it. *)
LEMMA EntryElementShape ==
  ASSUME NEW a \in Scrape!Author, NEW e \in Scrape!Entry
  PROVE  /\ Scrape!EntryElement(e, a) \in Seq(Scrape!Unit)
         /\ EntryAt(Scrape!EntryElement(e, a), 0, Len(Scrape!EntryElement(e, a)), e)
<1> DEFINE s0 == Scrape!Tag("entry")
           s1 == Scrape!Element("id", e.id)
           s2 == Scrape!Element("title", e.title)
           s3 == Scrape!AuthorElement(a)
           s4 == Scrape!Element("published", a.published)
           s5 == Scrape!Element("description", e.description)
           s6 == Scrape!Tag("/entry")
           p1 == s0 \o s1
           p2 == p1 \o s2
           p3 == p2 \o s3
           p4 == p3 \o s4
           p5 == p4 \o s5
<1>1. /\ s0 \in Seq(Scrape!Unit) /\ Len(s0) = 1 /\ s0[1] = [tag |-> "entry", text |-> Null]
      /\ s6 \in Seq(Scrape!Unit) /\ Len(s6) = 1 /\ s6[1] = [tag |-> "/entry", text |-> Null]
  <2>1. "entry" \in Scrape!Tags /\ "/entry" \in Scrape!Tags
    BY DEF Scrape!Tags
  <2> QED
    BY <2>1, TagShape
<1>2. /\ s1 \in Seq(Scrape!Unit) /\ Gives(s1, 0, e, {"id"})
      /\ s2 \in Seq(Scrape!Unit) /\ Gives(s2, 0, e, {"title"})
      /\ s4 \in Seq(Scrape!Unit) /\ Gives(s4, 0, e, {})
      /\ s5 \in Seq(Scrape!Unit) /\ Gives(s5, 0, e, {"description"})
  <2>1. /\ "published" \in Scrape!AuthorField
        /\ a["published"] = a.published /\ a.published \in Scrape!Sv
    BY TagKinds, FieldsOf
  <2>2. /\ "id" \in Scrape!EntryField /\ e["id"] = e.id /\ e.id \in Scrape!Sv
        /\ "title" \in Scrape!EntryField /\ e["title"] = e.title /\ e.title \in Scrape!Sv
        /\ "description" \in Scrape!EntryField
        /\ e["description"] = e.description /\ e.description \in Scrape!Sv
    BY TagKinds, FieldsOf
  <2>3. s4 \in Seq(Scrape!Unit) /\ Gives(s4, 0, e, {})
    BY <2>1, TagKinds, ElementSays, ElementShape
  <2>4. s1 \in Seq(Scrape!Unit) /\ Gives(s1, 0, e, {"id"})
    BY <2>2, TagKinds, ElementSays, ElementShape
  <2>5. s2 \in Seq(Scrape!Unit) /\ Gives(s2, 0, e, {"title"})
    BY <2>2, TagKinds, ElementSays, ElementShape
  <2>6. s5 \in Seq(Scrape!Unit) /\ Gives(s5, 0, e, {"description"})
    BY <2>2, TagKinds, ElementSays, ElementShape
  <2> QED
    BY <2>3, <2>4, <2>5, <2>6
<1>3. s3 \in Seq(Scrape!Unit) /\ Gives(s3, 0, e, {})
  BY AuthorElementSays DEF Describes
<1> HIDE DEF s0, s1, s2, s3, s4, s5, s6
<1>4. /\ p1 \in Seq(Scrape!Unit) /\ p2 \in Seq(Scrape!Unit) /\ p3 \in Seq(Scrape!Unit) /\ p4 \in Seq(Scrape!Unit)
      /\ p5 \in Seq(Scrape!Unit)
  BY <1>1, <1>2, <1>3, Joined
<1>5. 1 \in 0..Len(s0) /\ 1 \in 0..Len(p1) /\ 1 \in 0..Len(p2) /\ 1 \in 0..Len(p3) /\ 1 \in 0..Len(p4)
  <2>1. \A s, t \in Seq(Scrape!Unit) : 1 \in 0..Len(s) => 1 \in 0..Len(s \o t)
    BY Joined
  <2>2. 1 \in 0..Len(s0)
    BY <1>1
  <2> QED
    BY <1>1, <1>2, <1>3, <1>4, <2>1, <2>2
<1>6. Gives(s0, 1, e, {})
  BY <1>1 DEF Gives
<1>7. Gives(p1, 1, e, {"id"})
  <2>1. Gives(p1, 1, e, {} \cup {"id"})
    BY <1>1, <1>2, <1>5, <1>6, GivesJoined
  <2> QED
    BY <2>1 DEF Gives
<1>8. Gives(p2, 1, e, {"id", "title"})
  <2>1. Gives(p2, 1, e, {"id"} \cup {"title"})
    BY <1>2, <1>4, <1>5, <1>7, GivesJoined
  <2> QED
    BY <2>1 DEF Gives
<1>9. Gives(p3, 1, e, {"id", "title"})
  <2>1. Gives(p3, 1, e, {"id", "title"} \cup {})
    BY <1>3, <1>4, <1>5, <1>8, GivesJoined
  <2> QED
    BY <2>1 DEF Gives
<1>10. Gives(p4, 1, e, {"id", "title"})
  <2>1. Gives(p4, 1, e, {"id", "title"} \cup {})
    BY <1>2, <1>4, <1>5, <1>9, GivesJoined
  <2> QED
    BY <2>1 DEF Gives
<1>11. Gives(p5, 1, e, Scrape!EntryField)
  <2>1. Gives(p5, 1, e, {"id", "title"} \cup {"description"})
    BY <1>2, <1>4, <1>5, <1>10, GivesJoined
  <2> QED
    BY <2>1 DEF Gives, Scrape!EntryField
<1>12. p5[1].tag = "entry" /\ Len(p5) \in Nat /\ Len(p5) >= 1
  <2>1. \A s, t \in Seq(Scrape!Unit) : Len(s) >= 1 => Len(s \o t) >= 1 /\ (s \o t)[1] = s[1]
    BY Joined
  <2>2. Len(s0) >= 1
    BY <1>1
  <2>3. Len(p1) >= 1 /\ p1[1] = s0[1]
    BY <1>1, <1>2, <2>1, <2>2
  <2>4. Len(p2) >= 1 /\ p2[1] = s0[1]
    BY <1>2, <1>4, <2>1, <2>3
  <2>5. Len(p3) >= 1 /\ p3[1] = s0[1]
    BY <1>3, <1>4, <2>1, <2>4
  <2>6. Len(p4) >= 1 /\ p4[1] = s0[1]
    BY <1>2, <1>4, <2>1, <2>5
  <2>7. Len(p5) >= 1 /\ p5[1] = s0[1]
    BY <1>2, <1>4, <2>1, <2>6
  <2> QED
    BY <1>1, <1>4, <2>7, LenProperties
<1> HIDE DEF p5
<1> DEFINE whole == p5 \o s6
<1>13. /\ whole \in Seq(Scrape!Unit) /\ Len(whole) = Len(p5) + 1
       /\ \A k \in 1..Len(p5) : whole[k] = p5[k]
       /\ whole[Len(p5) + 1].tag = "/entry"
  <2>9. p5 \in Seq(Scrape!Unit) /\ s6 \in Seq(Scrape!Unit)
    BY <1>1, <1>4
  <2>1. /\ whole \in Seq(Scrape!Unit) /\ Len(whole) = Len(p5) + Len(s6)
        /\ \A k \in 1..Len(p5) : whole[k] = p5[k]
        /\ \A k \in 1..Len(s6) : whole[Len(p5) + k] = s6[k]
    BY <2>9, Joined
  <2>2. 1 \in 1..Len(s6)
    BY <1>1
  <2> HIDE DEF whole
  <2> QED
    BY <1>1, <2>1, <2>2
<1> HIDE DEF whole
<1>14. EntryAt(whole, 0, Len(whole), e)
  <2>1. 0 + 2 <= Len(whole) /\ 0 + 1 \in 1..Len(p5) /\ 0 + 1 = 1 /\ Len(whole) <= Len(whole)
    BY <1>12, <1>13
  <2>2. whole[0 + 1].tag = "entry" /\ whole[Len(whole)].tag = "/entry"
    BY <1>12, <1>13, <2>1
  <2>3. 0 + 2..Len(whole) - 1 = 1 + 1..Len(p5) /\ \A k \in 0 + 2..Len(whole) - 1 : k \in 1..Len(p5)
    BY <1>12, <1>13
  <2>4. \A k \in 0 + 2..Len(whole) - 1 : whole[k] = p5[k]
    BY <1>13, <2>3
  <2> QED
    BY <1>11, <2>1, <2>2, <2>3, <2>4 DEF EntryAt, Gives
<1> QED
  BY <1>13, <1>14 DEF Scrape!EntryElement, whole, p5, s0, s1, s2, s3, s4, s5, s6


-----------------------------------------------------------------------------
(* The heading of a document *)

(* What stands before the entries. *)
Heading(f) ==
  Scrape!Element("title", f.author.name) \o Scrape!AuthorElement(f.author)
  \o Scrape!Element("published", f.author.published)

\* A valid author's is complete.
Complete(s, n) ==
  /\ n = 6
  /\ s[1].tag = "title" /\ s[2].tag = "author" /\ s[3].tag = "name"
  /\ s[4].tag = "uri" /\ s[5].tag = "/author" /\ s[6].tag = "published"

(* u is s with t behind it. *)
Joins(u, s, t) ==
  /\ s \in Seq(Scrape!Unit) /\ t \in Seq(Scrape!Unit) /\ u \in Seq(Scrape!Unit)
  /\ Len(s) \in Nat /\ Len(t) \in Nat /\ Len(u) = Len(s) + Len(t)
  /\ \A k \in 1..Len(s) : u[k] = s[k]
  /\ \A k \in 1..Len(t) : u[Len(s) + k] = t[k]

(* Joins is what joining sequences of units does. *)
LEMMA UnitsJoined ==
  ASSUME NEW s \in Seq(Scrape!Unit), NEW t \in Seq(Scrape!Unit), NEW u, u = s \o t
  PROVE  Joins(u, s, t)
BY Joined DEF Joins

\* ... where t is one element.
Longer(u, s, t, n) ==
  /\ Len(u) = n + 1 /\ u[n + 1] = t[1]
  /\ \A k \in 1..n : u[k] = s[k]

(* Joining one element makes the sequence longer by it. *)
LEMMA OneLonger ==
  ASSUME NEW s, NEW t, NEW u, Joins(u, s, t), Len(t) = 1
  PROVE  Longer(u, s, t, Len(s))
<1>1. 1 \in 1..Len(t)
  OBVIOUS
<1> QED
  BY <1>1 DEF Joins, Longer

(* The element of a field that is there. *)
LEMMA Present ==
  ASSUME NEW tag \in Scrape!Tags, NEW text \in Scrape!Sv, text # Null
  PROVE  /\ Scrape!Element(tag, text) \in Seq(Scrape!Unit)
         /\ Len(Scrape!Element(tag, text)) = 1
         /\ Scrape!Element(tag, text)[1].tag = tag
<1>1. /\ Scrape!Element(tag, text) \in Seq(Scrape!Unit)
      /\ Len(Scrape!Element(tag, text)) = 1
      /\ Scrape!Element(tag, text)[1] = [tag |-> tag, text |-> text]
  BY ElementShape
<1> QED
  BY <1>1

(* The same of a tag alone. *)
LEMMA PresentTag ==
  ASSUME NEW tag \in Scrape!Tags
  PROVE  /\ Scrape!Tag(tag) \in Seq(Scrape!Unit) /\ Len(Scrape!Tag(tag)) = 1
         /\ Scrape!Tag(tag)[1].tag = tag
<1>1. /\ Scrape!Tag(tag) \in Seq(Scrape!Unit) /\ Len(Scrape!Tag(tag)) = 1
      /\ Scrape!Tag(tag)[1] = [tag |-> tag, text |-> Null]
  BY TagShape
<1> QED
  BY <1>1

(* A valid author has all its fields. *)
LEMMA ValidFields ==
  ASSUME NEW a \in Scrape!Author, Scrape!author_is_valid(a)
  PROVE  /\ a.uri \in Seq(Char) \ {<<>>} /\ a.uri # Null
         /\ a.name \in Seq(Char) \ {<<>>} /\ a.name # Null
         /\ a.published \in Seq(Char) \ {<<>>} /\ a.published # Null
<1>1. \A f \in Scrape!AuthorField : a[f] \notin {Null, <<>>} /\ a[f] \in Seq(Char) \cup {Null}
  BY DEF Scrape!author_is_valid, Scrape!sv_empty, Scrape!Author, Scrape!Sv
<1> QED
  BY <1>1, TagKinds

(* The element of a valid author has four units. *)
LEMMA AuthorComplete ==
  ASSUME NEW a \in Scrape!Author, Scrape!author_is_valid(a), NEW s, s = Scrape!AuthorElement(a)
  PROVE  /\ s \in Seq(Scrape!Unit) /\ Len(s) = 4
         /\ s[1].tag = "author" /\ s[2].tag = "name" /\ s[3].tag = "uri" /\ s[4].tag = "/author"
<1> DEFINE s1 == Scrape!Tag("author")
           s2 == Scrape!Element("name", a.name)
           s3 == Scrape!Element("uri", a.uri)
           s4 == Scrape!Tag("/author")
<1>1. /\ s1 \in Seq(Scrape!Unit) /\ Len(s1) = 1 /\ s1[1].tag = "author"
      /\ s4 \in Seq(Scrape!Unit) /\ Len(s4) = 1 /\ s4[1].tag = "/author"
  BY TagKinds, PresentTag
<1>2. /\ "name" \in Scrape!Tags /\ a.name \in Scrape!Sv /\ a.name # Null
      /\ "uri" \in Scrape!Tags /\ a.uri \in Scrape!Sv /\ a.uri # Null
  BY TagKinds, FieldsOf, ValidFields
<1>3. /\ s2 \in Seq(Scrape!Unit) /\ Len(s2) = 1 /\ s2[1].tag = "name"
      /\ s3 \in Seq(Scrape!Unit) /\ Len(s3) = 1 /\ s3[1].tag = "uri"
  BY <1>2, Present
<1>4. s = ((s1 \o s2) \o s3) \o s4
  BY DEF Scrape!AuthorElement
<1> HIDE DEF s1, s2, s3, s4
<1>5. PICK t : t = s1 \o s2
  OBVIOUS
<1>6. PICK u : u = t \o s3
  OBVIOUS
<1>7. Joins(t, s1, s2)
  BY <1>1, <1>3, <1>5, UnitsJoined
<1>8. Joins(u, t, s3)
  <2>1. t \in Seq(Scrape!Unit)
    BY <1>7 DEF Joins
  <2> QED
    BY <1>3, <1>6, <2>1, UnitsJoined
<1>9. Joins(s, u, s4)
  <2>1. u \in Seq(Scrape!Unit)
    BY <1>8 DEF Joins
  <2> QED
    BY <1>1, <1>4, <1>5, <1>6, <2>1, UnitsJoined
<1>10. Len(t) = 2 /\ t[1].tag = "author" /\ t[2].tag = "name"
  <2>1. Longer(t, s1, s2, Len(s1))
    BY <1>3, <1>7, OneLonger
  <2>2. Longer(t, s1, s2, 1)
    BY <1>1, <2>1
  <2> QED
    BY <1>1, <1>3, <2>2 DEF Longer
<1>11. Len(u) = 3 /\ u[1].tag = "author" /\ u[2].tag = "name" /\ u[3].tag = "uri"
  <2>1. Longer(u, t, s3, Len(t))
    BY <1>3, <1>8, OneLonger
  <2>2. Longer(u, t, s3, 2)
    BY <1>10, <2>1
  <2> QED
    BY <1>3, <1>10, <2>2 DEF Longer
<1>12. Longer(s, u, s4, 3)
  <2>1. Longer(s, u, s4, Len(u))
    BY <1>1, <1>9, OneLonger
  <2> QED
    BY <1>11, <2>1
<1>13. s \in Seq(Scrape!Unit)
  BY <1>9 DEF Joins
<1> QED
  BY <1>1, <1>11, <1>12, <1>13 DEF Longer

(* The heading of a feed with a valid author has the six units that parse  *)
(* reads.                                                                  *)
LEMMA HeadingComplete ==
  ASSUME NEW f, f.author \in Scrape!Author, Scrape!author_is_valid(f.author)
  PROVE  Complete(Heading(f), Len(Heading(f)))
<1> DEFINE a == f.author
           s1 == Scrape!Element("title", a.name)
           s2 == Scrape!AuthorElement(a)
           s3 == Scrape!Element("published", a.published)
<1>1. /\ "title" \in Scrape!Tags /\ a.name \in Scrape!Sv /\ a.name # Null
      /\ "published" \in Scrape!Tags /\ a.published \in Scrape!Sv /\ a.published # Null
  BY TagKinds, FieldsOf, ValidFields
<1>2. /\ s1 \in Seq(Scrape!Unit) /\ Len(s1) = 1 /\ s1[1].tag = "title"
      /\ s3 \in Seq(Scrape!Unit) /\ Len(s3) = 1 /\ s3[1].tag = "published"
  BY <1>1, Present
<1>3. /\ s2 \in Seq(Scrape!Unit) /\ Len(s2) = 4
      /\ s2[1].tag = "author" /\ s2[2].tag = "name" /\ s2[3].tag = "uri" /\ s2[4].tag = "/author"
  BY AuthorComplete
<1>4. Heading(f) = (s1 \o s2) \o s3
  BY DEF Heading
<1> HIDE DEF s1, s2, s3
<1>5. PICK t : t = s1 \o s2
  OBVIOUS
<1>6. PICK u : u = t \o s3
  OBVIOUS
<1>7. Joins(t, s1, s2)
  BY <1>2, <1>3, <1>5, UnitsJoined
<1>8. Joins(u, t, s3)
  <2>1. t \in Seq(Scrape!Unit)
    BY <1>7 DEF Joins
  <2> QED
    BY <1>2, <1>6, <2>1, UnitsJoined
<1>9. /\ Len(t) = 5 /\ t[1].tag = "title" /\ t[2].tag = "author" /\ t[3].tag = "name"
      /\ t[4].tag = "uri" /\ t[5].tag = "/author"
  <2>1. Len(t) = 5 /\ t[1] = s1[1] /\ \A k \in 1..4 : t[1 + k] = s2[k]
    BY <1>2, <1>3, <1>7 DEF Joins
  <2>2. t[1 + 1] = s2[1] /\ t[1 + 2] = s2[2] /\ t[1 + 3] = s2[3] /\ t[1 + 4] = s2[4]
    BY <2>1
  <2> QED
    BY <1>2, <1>3, <2>1, <2>2
<1>10. /\ Len(u) = 5 + 1 /\ u[5 + 1] = s3[1]
       /\ \A k \in 1..5 : u[k] = t[k]
  <2>1. Longer(u, t, s3, Len(t))
    BY <1>2, <1>8, OneLonger
  <2>2. Longer(u, t, s3, 5)
    BY <1>9, <2>1
  <2> QED
    BY <2>2 DEF Longer
<1>11. Complete(u, 6)
  <2>1. u[1] = t[1] /\ u[2] = t[2] /\ u[3] = t[3] /\ u[4] = t[4] /\ u[5] = t[5] /\ u[6] = s3[1]
    BY <1>10
  <2> QED
    BY <1>2, <1>9, <2>1 DEF Complete
<1> QED
  BY <1>4, <1>5, <1>6, <1>10, <1>11

(* A heading says of the author what the feed says. *)
LEMMA HeadingDescribes ==
  ASSUME NEW f, f.author \in Scrape!Author
  PROVE  Describes(Heading(f), f.author)
<1> DEFINE a == f.author
           s1 == Scrape!Element("title", a.name)
           s2 == Scrape!AuthorElement(a)
           s3 == Scrape!Element("published", a.published)
<1>1. /\ "title" \in Scrape!EntryField /\ a.name \in Scrape!Sv
      /\ "published" \in Scrape!AuthorField
      /\ a["published"] = a.published /\ a.published \in Scrape!Sv
  BY TagKinds, FieldsOf
<1>2. Describes(s1, a) /\ Describes(s3, a)
  BY <1>1, TagKinds, ElementSays
<1>3. Describes(s2, a)
  BY AuthorElementSays
<1> HIDE DEF s1, s2, s3
<1>4. Describes((s1 \o s2) \o s3, a)
  BY <1>2, <1>3, DescribesJoined
<1> QED
  BY <1>4 DEF Heading, s1, s2, s3


-----------------------------------------------------------------------------
(* A document: the heading and the entries, one behind the other *)

(* f[i] is the first i sequences of s, one behind the other. *)
IsJoined(s, n, f) ==
  f = [i \in 1..n |-> IF i = 1 THEN s[i] ELSE f[i - 1] \o s[i]]

(* Such a function exists, though its definition is recursive. *)
LEMMA JoinedExists ==
  ASSUME NEW s, NEW n \in Nat
  PROVE  \E f : IsJoined(s, n, f)
<1> DEFINE Bad == {m \in 0..n : ~ \E f : IsJoined(s, m, f)}
<1> SUFFICES ASSUME Bad # {}
             PROVE  FALSE
  OBVIOUS
<1>1. PICK m \in Bad : \A y \in Bad : m <= y
  <2>1. Bad \in SUBSET Nat
    OBVIOUS
  <2> QED
    BY <2>1, MinIsLeast
<1>2. m \in 0..n /\ ~ \E f : IsJoined(s, m, f)
  BY <1>1
<1>3. m # 0
  <2> SUFFICES ASSUME m = 0
               PROVE  \E f : IsJoined(s, m, f)
    BY <1>2
  <2>1. 1..0 = {}
    OBVIOUS
  <2> DEFINE f == [i \in 1..0 |-> 0]
  <2>2. IsJoined(s, 0, f)
    BY <2>1 DEF IsJoined
  <2> QED
    BY <2>2
<1>4. PICK f : IsJoined(s, m - 1, f)
  <2>1. m - 1 \notin Bad /\ m - 1 \in 0..n
    BY <1>1, <1>2, <1>3
  <2> QED
    BY <2>1
<1> DEFINE g == [i \in 1..m |-> IF i = m THEN (IF i = 1 THEN s[i] ELSE f[i - 1] \o s[i]) ELSE f[i]]
<1>5. IsJoined(s, m, g)
  <2>1. m \in Nat /\ m >= 1
    BY <1>2, <1>3
  <2>2. ASSUME NEW i \in 1..m
        PROVE  g[i] = IF i = 1 THEN s[i] ELSE g[i - 1] \o s[i]
    <3>1. CASE i = m
      <4>1. i # 1 => g[i - 1] = f[i - 1]
        BY <2>1, <3>1
      <4> QED
        BY <3>1, <4>1
    <3>2. CASE i # m
      <4>1. i \in 1..m - 1 /\ g[i] = f[i]
        BY <2>1, <3>2
      <4>2. f[i] = IF i = 1 THEN s[i] ELSE f[i - 1] \o s[i]
        BY <1>4, <4>1 DEF IsJoined
      <4>3. i # 1 => g[i - 1] = f[i - 1]
        BY <2>1, <4>1
      <4> QED
        BY <4>1, <4>2, <4>3
    <3> QED
      BY <3>1, <3>2
  <2> QED
    BY <2>2 DEF IsJoined
<1> QED
  BY <1>2, <1>5

(* FlattenSeq of SequencesExt is its last value. *)
LEMMA FlattenIsJoined ==
  ASSUME NEW s, Len(s) \in Nat, Len(s) # 0
  PROVE  \E f : IsJoined(s, Len(s), f) /\ FlattenSeq(s) = f[Len(s)]
<1> DEFINE h == CHOOSE f : f = [i \in 1..Len(s) |-> IF i = 1 THEN s[i] ELSE f[i - 1] \o s[i]]
<1>1. \E f : f = [i \in 1..Len(s) |-> IF i = 1 THEN s[i] ELSE f[i - 1] \o s[i]]
  BY JoinedExists DEF IsJoined
<1>2. h = [i \in 1..Len(s) |-> IF i = 1 THEN s[i] ELSE h[i - 1] \o s[i]]
  BY <1>1
<1>3. FlattenSeq(s) = h[Len(s)]
  BY DEF FlattenSeq
<1>4. IsJoined(s, Len(s), h)
  <2> HIDE DEF h
  <2> QED
    BY <1>2 DEF IsJoined
<1> QED
  BY <1>3, <1>4

(* What parse is given: s is what a feed f is delivered as, up to its n-th *)
(* entry, which ends at b[n].                                              *)
Laid(s, n, b, f) ==
  /\ s \in Seq(Scrape!Unit) /\ n \in Nat
  /\ b \in [0..n -> Nat] /\ b[n] = Len(s)
  /\ \A i, j \in 0..n : i <= j => b[i] <= b[j]
  /\ \A k \in 1..b[0] :
       /\ s[k].tag \notin Border
       /\ s[k].tag \in Scrape!AuthorField => s[k].text = f.author[s[k].tag]
  /\ Scrape!author_is_valid(f.author) => Complete(s, b[0])
  /\ \A i \in 1..n : EntryAt(s, b[i - 1], b[i], f.entries[i])

(* A heading is a document without entries. *)
LEMMA HeadingLaid ==
  ASSUME NEW f, f.author \in Scrape!Author
  PROVE  Laid(Heading(f), 0, [i \in 0..0 |-> Len(Heading(f))], f)
<1> DEFINE s == Heading(f)
           b == [i \in 0..0 |-> Len(s)]
<1>1. Describes(s, f.author)
  BY HeadingDescribes
<1>2. Scrape!author_is_valid(f.author) => Complete(s, Len(s))
  BY HeadingComplete
<1> HIDE DEF s
<1>3. s \in Seq(Scrape!Unit) /\ Len(s) \in Nat
  BY <1>1, LenProperties DEF Describes
<1>4. b \in [0..0 -> Nat] /\ b[0] = Len(s) /\ 0 \in Nat
  BY <1>3
<1>5. \A i, j \in 0..0 : i <= j => b[i] <= b[j]
  BY <1>3
<1>6. Scrape!author_is_valid(f.author) => Complete(s, b[0])
  BY <1>2, <1>4
<1>7. \A k \in 1..b[0] :
       /\ s[k].tag \notin Border
       /\ s[k].tag \in Scrape!AuthorField => s[k].text = f.author[s[k].tag]
  BY <1>1, <1>4 DEF Describes
<1>8. \A i \in 1..0 : EntryAt(s, b[i - 1], b[i], f.entries[i])
  OBVIOUS
<1> HIDE DEF b
<1>9. Laid(s, 0, b, f)
  BY <1>3, <1>4, <1>5, <1>6, <1>7, <1>8 DEF Laid
<1> QED
  BY <1>9 DEF s, b

(* An entry stays where it is, and moves with what it is part of. *)
LEMMA EntryStays ==
  ASSUME NEW s, NEW t, NEW u, Joins(u, s, t), NEW lo \in Nat, NEW hi \in Nat, NEW e,
         EntryAt(s, lo, hi, e)
  PROVE  EntryAt(u, lo, hi, e)
<1>1. lo + 2 <= hi /\ hi <= Len(s) /\ Len(s) \in Nat /\ Len(t) \in Nat /\ Len(u) = Len(s) + Len(t)
  BY DEF EntryAt, Joins
<1>2. \A k \in 1..Len(s) : u[k] = s[k]
  BY DEF Joins
<1>3. u[lo + 1] = s[lo + 1] /\ u[hi] = s[hi]
  BY <1>1, <1>2
<1>4. \A k \in lo + 2..hi - 1 : u[k] = s[k]
  BY <1>1, <1>2
<1>5. hi <= Len(u)
  BY <1>1
<1> QED
  BY <1>3, <1>4, <1>5 DEF EntryAt

(* t is the element of entry e. *)
IsEntry(t, e) == EntryAt(t, 0, Len(t), e)

(* An entry joined behind s lies behind s. *)
LEMMA EntryMoves ==
  ASSUME NEW s, NEW t, NEW u, Joins(u, s, t), NEW e, IsEntry(t, e)
  PROVE  EntryAt(u, Len(s), Len(s) + Len(t), e)
<1> DEFINE m == Len(s)
           n == Len(t)
<1>1. m \in Nat /\ n \in Nat /\ Len(u) = m + n /\ 2 <= n
  BY DEF IsEntry, EntryAt, Joins
<1>2. \A k \in 1..n : u[m + k] = t[k]
  BY DEF Joins
<1>3. t[0 + 1].tag = "entry" /\ t[n].tag = "/entry"
  BY DEF IsEntry, EntryAt
<1>4. /\ \A k \in 0 + 2..n - 1 :
           /\ t[k].tag \notin Border
           /\ t[k].tag \in Scrape!EntryField => t[k].text = e[t[k].tag]
      /\ \A f \in Scrape!EntryField : e[f] # Null => \E k \in 0 + 2..n - 1 : t[k].tag = f
  BY DEF IsEntry, EntryAt
<1> HIDE DEF m, n
<1>5. u[m + 1] = t[0 + 1] /\ u[m + n] = t[n]
  BY <1>1, <1>2
<1>6. ASSUME NEW k \in m + 2..(m + n) - 1
      PROVE  /\ u[k].tag \notin Border
             /\ u[k].tag \in Scrape!EntryField => u[k].text = e[u[k].tag]
  <2>1. k - m \in 0 + 2..n - 1 /\ k - m \in 1..n /\ m + (k - m) = k
    BY <1>1
  <2>2. u[k] = t[k - m]
    BY <1>2, <2>1
  <2> QED
    BY <1>4, <2>1, <2>2
<1>7. ASSUME NEW f \in Scrape!EntryField, e[f] # Null
      PROVE  \E k \in m + 2..(m + n) - 1 : u[k].tag = f
  <2>1. PICK k \in 0 + 2..n - 1 : t[k].tag = f
    BY <1>4, <1>7
  <2>2. m + k \in m + 2..(m + n) - 1 /\ k \in 1..n
    BY <1>1
  <2>3. u[m + k] = t[k]
    BY <1>2, <2>2
  <2> QED
    BY <2>1, <2>2, <2>3
<1>8. m + 2 <= m + n /\ m + n <= Len(u)
  BY <1>1
<1>9. EntryAt(u, m, m + n, e)
  <2>1. u[m + 1].tag = "entry" /\ u[m + n].tag = "/entry"
    BY <1>3, <1>5
  <2>2. \A f \in Scrape!EntryField : e[f] # Null => \E k \in m + 2..(m + n) - 1 : u[k].tag = f
    BY <1>7
  <2> QED
    BY <1>6, <1>8, <2>1, <2>2 DEF EntryAt
<1> QED
  BY <1>9 DEF m, n

(* A document with one entry joined is a document with one entry more. *)
LEMMA EntryLaid ==
  ASSUME NEW s, NEW t, NEW u, Joins(u, s, t), NEW n, NEW b, NEW f, Laid(s, n, b, f),
         IsEntry(t, f.entries[n + 1])
  PROVE  \E c : Laid(u, n + 1, c, f)
<1> DEFINE c == [i \in 0..n + 1 |-> IF i <= n THEN b[i] ELSE Len(s) + Len(t)]
<1>1. /\ n \in Nat /\ b \in [0..n -> Nat] /\ b[n] = Len(s)
      /\ \A i, j \in 0..n : i <= j => b[i] <= b[j]
  BY DEF Laid
<1>2. /\ Len(s) \in Nat /\ Len(t) \in Nat /\ Len(u) = Len(s) + Len(t) /\ u \in Seq(Scrape!Unit)
      /\ \A k \in 1..Len(s) : u[k] = s[k]
  BY DEF Joins
<1>3. /\ c \in [0..n + 1 -> Nat] /\ c[n + 1] = Len(u) /\ n + 1 \in Nat
      /\ \A i \in 0..n : c[i] = b[i]
  BY <1>1, <1>2
<1> HIDE DEF c
<1>4. \A i \in 0..n : b[i] <= Len(s) /\ b[i] \in Nat
  BY <1>1
<1>5. \A i, j \in 0..n + 1 : i <= j => c[i] <= c[j]
  <2> SUFFICES ASSUME NEW i \in 0..n + 1, NEW j \in 0..n + 1, i <= j
               PROVE  c[i] <= c[j]
    OBVIOUS
  <2>1. CASE j \in 0..n
    BY <1>1, <1>3, <2>1
  <2>2. CASE j = n + 1 /\ i \in 0..n
    BY <1>2, <1>3, <1>4, <2>2
  <2>3. CASE j = n + 1 /\ i = n + 1
    BY <1>3, <2>3
  <2> QED
    BY <1>1, <2>1, <2>2, <2>3
<1>6. \A k \in 1..b[0] : u[k] = s[k]
  <2>1. b[0] <= Len(s) /\ b[0] \in Nat
    BY <1>1, <1>4
  <2> QED
    BY <1>2, <2>1
<1>7. c[0] = b[0] /\ b[0] \in Nat
  BY <1>1, <1>3
<1>8. \A k \in 1..c[0] :
       /\ u[k].tag \notin Border
       /\ u[k].tag \in Scrape!AuthorField => u[k].text = f.author[u[k].tag]
  BY <1>6, <1>7 DEF Laid
<1>9. ASSUME Scrape!author_is_valid(f.author) PROVE Complete(u, c[0])
  <2>1. Complete(s, b[0])
    BY <1>9 DEF Laid
  <2>2. \A k \in 1..6 : u[k] = s[k]
    BY <1>6, <2>1 DEF Complete
  <2>3. u[1] = s[1] /\ u[2] = s[2] /\ u[3] = s[3] /\ u[4] = s[4] /\ u[5] = s[5] /\ u[6] = s[6]
    BY <2>2
  <2> QED
    BY <1>7, <2>1, <2>3 DEF Complete
<1>10. ASSUME NEW i \in 1..n + 1 PROVE EntryAt(u, c[i - 1], c[i], f.entries[i])
  <2>1. CASE i \in 1..n
    <3>1. EntryAt(s, b[i - 1], b[i], f.entries[i])
      BY <2>1 DEF Laid
    <3>2. i - 1 \in 0..n /\ i \in 0..n
      BY <1>1, <2>1
    <3>3. b[i - 1] \in Nat /\ b[i] \in Nat /\ c[i - 1] = b[i - 1] /\ c[i] = b[i]
      BY <1>3, <1>4, <3>2
    <3>4. EntryAt(u, b[i - 1], b[i], f.entries[i])
      BY <3>1, <3>3, EntryStays
    <3> QED
      BY <3>3, <3>4
  <2>2. CASE i = n + 1
    <3>1. EntryAt(u, Len(s), Len(s) + Len(t), f.entries[n + 1])
      BY EntryMoves
    <3>2. i - 1 = n /\ n \in 0..n
      BY <1>1, <2>2
    <3>3. c[i - 1] = Len(s) /\ c[i] = Len(s) + Len(t)
      BY <1>1, <1>2, <1>3, <2>2, <3>2
    <3> QED
      BY <2>2, <3>1, <3>3
  <2> QED
    BY <1>1, <2>1, <2>2
<1>11. Laid(u, n + 1, c, f)
  BY <1>2, <1>3, <1>5, <1>8, <1>9, <1>10 DEF Laid
<1> QED
  BY <1>11

(* A feed's document is its heading and its entries, one behind the other. *)
LEMMA DocumentLaid ==
  ASSUME NEW f, f.author \in Scrape!Author, f.entries \in Seq(Scrape!Entry)
  PROVE  \E b : Laid(Scrape!Document(f), Len(f.entries), b, f)
<1> DEFINE N == Len(f.entries)
           es == [n \in 1..N |-> Scrape!EntryElement(f.entries[n], f.author)]
<1>1. N \in Nat
  BY LenProperties
<1>2. ASSUME NEW n \in 1..N
      PROVE  es[n] \in Seq(Scrape!Unit) /\ IsEntry(es[n], f.entries[n])
  <2>1. f.entries[n] \in Scrape!Entry
    BY ElementOfSeq
  <2>2. es[n] = Scrape!EntryElement(f.entries[n], f.author)
    OBVIOUS
  <2> HIDE DEF es
  <2> QED
    BY <2>1, <2>2, EntryElementShape DEF IsEntry
<1>3. Scrape!Document(f) = Heading(f) \o FlattenSeq(es)
  <2>1. Scrape!FlattenSeq(es) = FlattenSeq(es)
    BY DEF Scrape!FlattenSeq, FlattenSeq
  <2>2. Scrape!Document(f) = Heading(f) \o Scrape!FlattenSeq(es)
    BY Zenon DEF Scrape!Document, Heading
  <2> HIDE DEF es
  <2> QED
    BY <2>1, <2>2
<1>4. es \in Seq(Seq(Scrape!Unit)) /\ Len(es) = N
  <2>1. es \in [1..N -> Seq(Scrape!Unit)]
    BY <1>2
  <2> HIDE DEF es, N
  <2> QED
    BY <1>1, <2>1
<1>5. es = <<>> \/ N # 0
  BY <1>4, EmptySeq
<1> HIDE DEF es, N
<1>6. Heading(f) \in Seq(Scrape!Unit)
  BY HeadingDescribes DEF Describes
<1>7. CASE N = 0
  <2>1. FlattenSeq(es) = <<>>
    BY <1>4, <1>5, <1>7, EmptySeq DEF FlattenSeq
  <2>2. Heading(f) \o <<>> = Heading(f)
    BY <1>6, ConcatEmptySeq
  <2>3. \E b : Laid(Heading(f), 0, b, f)
    BY HeadingLaid
  <2> QED
    BY <1>3, <1>7, <2>1, <2>2, <2>3 DEF N
<1>8. CASE N # 0
  <2>1. PICK g : IsJoined(es, N, g) /\ FlattenSeq(es) = g[N]
    BY <1>1, <1>4, <1>8, FlattenIsJoined
  <2>2. \A i \in 1..N : g[i] = IF i = 1 THEN es[i] ELSE g[i - 1] \o es[i]
    BY <2>1 DEF IsJoined
  <2> DEFINE Good(m) == g[m] \in Seq(Scrape!Unit) /\ \E b : Laid(Heading(f) \o g[m], m, b, f)
             Bad == {m \in 1..N : ~ Good(m)}
  <2>3. Bad = {}
    <3> SUFFICES ASSUME Bad # {}
                 PROVE  FALSE
      OBVIOUS
    <3>1. PICK m \in Bad : \A y \in Bad : m <= y
      <4>1. Bad \in SUBSET Nat
        BY <1>1
      <4> QED
        BY <4>1, MinIsLeast
    <3>2. m \in 1..N /\ ~ Good(m)
      OBVIOUS
    <3>3. es[m] \in Seq(Scrape!Unit) /\ IsEntry(es[m], f.entries[m])
      BY <1>2, <3>2
    <3>4. CASE m = 1
      <4>1. g[m] = es[m]
        BY <2>2, <3>2, <3>4
      <4>2. PICK b : Laid(Heading(f), 0, b, f)
        BY HeadingLaid
      <4>3. Joins(Heading(f) \o es[m], Heading(f), es[m])
        BY <1>6, <3>3, UnitsJoined
      <4>4. IsEntry(es[m], f.entries[0 + 1])
        BY <3>3, <3>4
      <4>5. \E c : Laid(Heading(f) \o es[m], 0 + 1, c, f)
        BY <4>2, <4>3, <4>4, EntryLaid
      <4> QED
        BY <3>2, <3>3, <3>4, <4>1, <4>5
    <3>5. CASE m # 1
      <4>1. m - 1 \in 1..N /\ (m - 1) + 1 = m
        BY <1>1, <3>2, <3>5
      <4>2. Good(m - 1)
        <5>1. m - 1 \notin Bad
          <6>1. ~ (m <= m - 1)
            BY <3>2
          <6> HIDE DEF Bad
          <6> QED
            BY <3>1, <6>1
        <5> QED
          BY <4>1, <5>1
      <4>3. g[m] = g[m - 1] \o es[m]
        BY <2>2, <3>2, <3>5
      <4>4. PICK p : p = Heading(f) \o g[m - 1]
        OBVIOUS
      <4>5. PICK b : Laid(p, m - 1, b, f)
        BY <4>2, <4>4
      <4>6. p \in Seq(Scrape!Unit) /\ g[m - 1] \in Seq(Scrape!Unit)
        BY <4>2, <4>5 DEF Laid
      <4>7. Heading(f) \o g[m] = p \o es[m]
        <5>1. PICK x : x = Heading(f)
          OBVIOUS
        <5>2. PICK y : y = g[m - 1]
          OBVIOUS
        <5>3. PICK z : z = es[m]
          OBVIOUS
        <5>4. (x \o y) \o z = x \o (y \o z)
          BY <1>6, <3>3, <4>6, <5>1, <5>2, <5>3, JoinedTwice
        <5> QED
          BY <4>3, <4>4, <5>1, <5>2, <5>3, <5>4
      <4>8. Joins(p \o es[m], p, es[m])
        BY <3>3, <4>6, UnitsJoined
      <4>9. IsEntry(es[m], f.entries[(m - 1) + 1])
        BY <3>3, <4>1
      <4>10. \E c : Laid(p \o es[m], (m - 1) + 1, c, f)
        BY <4>5, <4>8, <4>9, EntryLaid
      <4>11. g[m] \in Seq(Scrape!Unit)
        BY <3>3, <4>3, <4>6, Joined
      <4> QED
        BY <3>2, <4>1, <4>7, <4>10, <4>11
    <3> QED
      BY <3>4, <3>5
  <2>4. Good(N)
    BY <1>1, <1>8, <2>3
  <2> QED
    BY <1>3, <2>1, <2>4 DEF N
<1> QED
  BY <1>7, <1>8


-----------------------------------------------------------------------------
(* The table, with what module ChannelsProofs shows about it *)

(* The authors that parse accepts. *)
Valid == {a \in Scrape!Author : Scrape!author_is_valid(a)}

(* The table, and what module ChannelsProofs shows about it. *)
TP == INSTANCE ChannelsProofs WITH AuthorAbs <- Valid, EntryAbs <- Scrape!Entry

(* The assumptions of module Channels, for these authors and entries. *)
LEMMA TableAssumptions ==
  /\ Null \notin Seq(Char)
  /\ Valid \subseteq [uri : Seq(Char) \ {<<>>}, name : Seq(Char) \ {<<>>},
                      published : Seq(Char) \ {<<>>}]
  /\ Scrape!Entry \subseteq [id : TP!Sv, title : TP!Sv, description : TP!Sv]
  /\ AuthorCapacity \in Nat /\ MaxAuthors \in Nat /\ MaxEntries \in Nat
<1>1. ASSUME NEW a \in Valid
      PROVE  a \in [uri : Seq(Char) \ {<<>>}, name : Seq(Char) \ {<<>>},
                    published : Seq(Char) \ {<<>>}]
  <2>1. a \in Scrape!Author /\ Scrape!author_is_valid(a)
    BY DEF Valid
  <2>2. /\ a.uri \in Seq(Char) \ {<<>>} /\ a.name \in Seq(Char) \ {<<>>}
        /\ a.published \in Seq(Char) \ {<<>>}
    BY <2>1, ValidFields
  <2>3. a = [f \in {"uri", "name", "published"} |-> a[f]]
    BY <2>1 DEF Scrape!Author, Scrape!AuthorField
  <2>4. a = [uri |-> a.uri, name |-> a.name, published |-> a.published]
    BY <2>3
  <2> QED
    BY <2>2, <2>4
<1>2. ASSUME NEW e \in Scrape!Entry
      PROVE  e \in [id : TP!Sv, title : TP!Sv, description : TP!Sv]
  <2>1. e.id \in TP!Sv /\ e.title \in TP!Sv /\ e.description \in TP!Sv
    BY FieldsOf DEF TP!Sv, Scrape!Sv
  <2>2. e = [f \in {"id", "title", "description"} |-> e[f]]
    BY DEF Scrape!Entry, Scrape!EntryField
  <2>3. e = [id |-> e.id, title |-> e.title, description |-> e.description]
    BY <2>2
  <2> QED
    BY <2>1, <2>3
<1> QED
  BY <1>1, <1>2, VidsAssumption

(* The calls of parse are those of that module. *)
LEMMA SameTable ==
  /\ Scrape!Table!channels_create = TP!channels_create
  /\ \A ch, uri : Scrape!Table!channels_find_author(ch, uri) = TP!channels_find_author(ch, uri)
  /\ \A ch, a : Scrape!Table!channels_add_author(ch, a) = TP!channels_add_author(ch, a)
  /\ \A ch, e, k : Scrape!Table!channels_add_entry(ch, e, k) = TP!channels_add_entry(ch, e, k)
<1>1. Scrape!Table!channels_create = TP!channels_create
  BY DEF Scrape!Table!channels_create, TP!channels_create
<1>2. \A ch, uri : Scrape!Table!channels_find_author(ch, uri) = TP!channels_find_author(ch, uri)
  BY DEF Scrape!Table!channels_find_author, TP!channels_find_author,
         Scrape!Table!rsv_get, TP!rsv_get
<1>3. \A ch, a : Scrape!Table!channels_add_author(ch, a) = TP!channels_add_author(ch, a)
  BY DEF Scrape!Table!channels_add_author, TP!channels_add_author,
         Scrape!Table!arena_append, TP!arena_append, Scrape!Table!rsv_of, TP!rsv_of,
         Scrape!Table!arena_grown, TP!arena_grown, Scrape!Table!pushed, TP!pushed
<1>4. \A ch, e, k : Scrape!Table!channels_add_entry(ch, e, k) = TP!channels_add_entry(ch, e, k)
  BY DEF Scrape!Table!channels_add_entry, TP!channels_add_entry,
         Scrape!Table!arena_append, TP!arena_append, Scrape!Table!rsv_of, TP!rsv_of,
         Scrape!Table!arena_grown, TP!arena_grown, Scrape!Table!pushed, TP!pushed,
         Scrape!Table!Raised, TP!Raised, Scrape!Table!Shifted, TP!Shifted
<1> QED
  BY <1>1, <1>2, <1>3, <1>4

(* The table is read back as in that module. *)
LEMMA SameReading ==
  \A ch : Scrape!Table!ReadList(ch) = TP!ReadList(ch)
BY DEF Scrape!Table!ReadList, TP!ReadList, Scrape!Table!ReadAuthor, TP!ReadAuthor,
       Scrape!Table!ReadRun, TP!ReadRun, Scrape!Table!ReadEntry, TP!ReadEntry,
       Scrape!Table!rsv_get, TP!rsv_get

(* A new table is sound. *)
LEMMA TableCreated ==
  ASSUME channels = Scrape!Table!channels_create
  PROVE  TP!IInv
BY TableAssumptions, SameTable, TP!InitInv DEF TP!Init

(* channels_add_author keeps it sound and adds one author. *)
LEMMA TableAuthor ==
  ASSUME TP!IInv, NEW a \in Valid, channels' = Scrape!Table!channels_add_author(channels, a)
  PROVE  /\ TP!IInv'
         /\ Len(channels.authors) \in Nat
         /\ Len(channels'.authors) = Len(channels.authors) + 1
<1>1. TP!AddsAuthor(a)
  BY SameTable DEF TP!AddsAuthor
<1>2. TP!IInv'
  BY <1>1, TableAssumptions, TP!AddAuthorInv
<1>3. \E r : channels'.authors = Append(channels.authors, r)
  BY <1>1 DEF TP!AddsAuthor, TP!channels_add_author
<1>4. channels.authors \in Seq([uri : TP!Rsv, name : TP!Rsv, published : TP!Rsv])
  BY DEF TP!IInv, TP!TypeOK
<1> QED
  BY <1>2, <1>3, <1>4

(* channels_add_entry keeps it sound and adds one entry. *)
LEMMA TableEntry ==
  ASSUME TP!IInv, NEW e \in Scrape!Entry, NEW k \in 1..Len(channels.authors),
         channels' = Scrape!Table!channels_add_entry(channels, e, k)
  PROVE  /\ TP!IInv' /\ channels'.authors = channels.authors
         /\ Len(channels.entries) \in Nat /\ Len(channels'.entries) = Len(channels.entries) + 1
<1>1. TP!AddsEntry(e, k)
  BY SameTable DEF TP!AddsEntry
<1>2. TP!IInv'
  BY <1>1, TableAssumptions, TP!AddEntryInv
<1>3. channels'.authors = channels.authors
  BY <1>1 DEF TP!AddsEntry, TP!channels_add_entry
<1>4. PICK curr, index, t3, g : TP!EntryAdded(e, k, curr, index, t3, g)
  BY <1>1, TableAssumptions, TP!AddedParts
<1>5. /\ channels'.entries = TP!Shifted(channels.entries, index + 1, curr)
      /\ curr \in TP!EntryRec /\ index \in 0..Len(channels.entries)
  BY <1>4 DEF TP!EntryAdded
<1>6. channels.entries \in Seq(TP!EntryRec) /\ Len(channels.entries) \in Nat
  BY TableAssumptions, TP!Components DEF TP!IInv
<1>7. Len(channels'.entries) = Len(channels.entries) + 1
  <2>1. index + 1 \in 1..(Len(channels.entries) + 1)
    BY <1>5, <1>6
  <2> QED
    BY <1>5, <1>6, <2>1, TableAssumptions, TP!ShiftedProperties
<1> QED
  BY <1>2, <1>3, <1>6, <1>7

(* An author found is one of the table's. *)
LEMMA TableFind ==
  ASSUME TP!IInv, NEW uri, Scrape!Found(uri) # 0
  PROVE  Scrape!Found(uri) \in 1..Len(channels.authors)
<1>1. Len(channels.authors) \in Nat
  BY DEF TP!IInv, TP!TypeOK
<1>2. Scrape!Found(uri) = TP!channels_find_author(channels, uri)
  BY SameTable DEF Scrape!Found
<1> QED
  BY <1>1, <1>2, TableAssumptions, TP!FoundAuthor


-----------------------------------------------------------------------------
(* The scraper's state *)

(* The scraper's state is typed, and its table is sound. *)
FeedInv == Scrape!TypeOK /\ TP!IInv

(* What a feed is, and how its document is laid out. *)
LEMMA FeedFacts ==
  ASSUME NEW f \in Feeds
  PROVE  /\ f.author \in Scrape!Author /\ f.entries \in Seq(Scrape!Entry)
         /\ Scrape!Document(f) \in Seq(Scrape!Unit)
         /\ \E b : Laid(Scrape!Document(f), Len(f.entries), b, f)
<1>1. f.author \in Scrape!Author /\ f.entries \in Seq(Scrape!Entry)
  BY VidsAssumption
<1>2. PICK b : Laid(Scrape!Document(f), Len(f.entries), b, f)
  BY <1>1, DocumentLaid
<1> QED
  BY <1>1, <1>2 DEF Laid

(* The locals of parse start typed. *)
LEMMA NothingKnown ==
  Scrape!NoEntry \in Scrape!Entry /\ Scrape!NoAuthor \in Scrape!Author
BY DEF Scrape!NoEntry, Scrape!NoAuthor, Scrape!Entry, Scrape!Author, Scrape!Sv

(* The element that parse reads is a unit of the arena. *)
LEMMA ElementRead ==
  ASSUME Scrape!TypeOK, NEW tags, Scrape!Element_is(tags)
  PROVE  /\ parse_pc = "parse" /\ parse_pos \in 1..Len(arena) /\ Len(arena) \in Nat
         /\ arena[parse_pos] \in Scrape!Unit /\ arena[parse_pos].tag \in tags
         /\ Scrape!Text = arena[parse_pos].text /\ Scrape!Text \in Scrape!Sv
<1>1. /\ arena \in Seq(Scrape!Unit) /\ parse_pos \in Nat \ {0} /\ parse_pos <= Len(arena)
      /\ parse_pc = "parse" /\ arena[parse_pos].tag \in tags
  BY DEF Scrape!TypeOK, Scrape!Element_is
<1>2. Len(arena) \in Nat
  BY <1>1, LenProperties
<1>3. parse_pos \in 1..Len(arena)
  BY <1>1, <1>2
<1>4. arena[parse_pos] \in Scrape!Unit
  BY <1>1, <1>3, ElementOfSeq
<1> QED
  BY <1>1, <1>2, <1>3, <1>4 DEF Scrape!Text, Scrape!Unit

(* update_channel keeps the state typed, whether the transfer fails or not. *)
LEMMA FetchTyped ==
  ASSUME FeedInv, NEW f \in Feeds,
         Scrape!update_channel(f) \/ Scrape!update_channel_failed(f)
  PROVE  FeedInv'
<1> DEFINE d == Scrape!Document(f)
<1>1. d \in Seq(Scrape!Unit) /\ arena \in Seq(Scrape!Unit)
  BY FeedFacts DEF FeedInv, Scrape!TypeOK
<1> HIDE DEF d
<1>2. links \in 0..MaxLinks /\ links < MaxLinks /\ MaxLinks \in Nat /\ links' = links + 1
  BY VidsAssumption DEF FeedInv, Scrape!TypeOK, Scrape!update_channel, Scrape!update_channel_failed
<1>3. links' \in 0..MaxLinks
  BY <1>2
<1>4. UNCHANGED channels
  BY DEF Scrape!update_channel, Scrape!update_channel_failed
<1>5. TP!IInv'
  BY <1>4 DEF FeedInv, TP!IInv, TP!TypeOK, TP!OffsetsDelimitEntries, TP!RsvInText, TP!WithinCapacity
<1>6. CASE Scrape!update_channel(f)
  <2>1. /\ arena' = arena \o d /\ delivered' = Append(delivered, f)
        /\ parse_pos' = 1 /\ entry' = Scrape!NoEntry /\ in_entry' = FALSE
        /\ author' = Scrape!NoAuthor /\ in_author' = FALSE /\ author_id' = 0
        /\ parse_pc' = "parse"
    BY <1>6 DEF Scrape!update_channel, d
  <2>2. arena' \in Seq(Scrape!Unit)
    BY <1>1, <2>1, ConcatProperties
  <2>3. delivered' \in Seq(Feeds)
    <3>1. delivered \in Seq(Feeds)
      BY DEF FeedInv, Scrape!TypeOK
    <3> QED
      BY <2>1, <3>1, AppendProperties
  <2>4. author_id' \in 0..Len(channels'.authors)
    <3>1. Len(channels'.authors) \in Nat
      BY <1>5 DEF TP!IInv, TP!TypeOK
    <3> QED
      BY <2>1, <3>1
  <2>5. /\ parse_pc' \in {"link", "parse"} /\ parse_pos' \in Nat \ {0}
        /\ entry' \in Scrape!Entry /\ author' \in Scrape!Author
    BY <2>1, NothingKnown
  <2>6. in_entry' \in BOOLEAN /\ in_author' \in BOOLEAN
    BY <2>1
  <2> QED
    BY <1>3, <1>5, <2>2, <2>3, <2>4, <2>5, <2>6 DEF FeedInv, Scrape!TypeOK
<1>7. CASE Scrape!update_channel_failed(f)
  <2>1. PICK n \in IF Partial THEN 0..Len(d) ELSE {0} : arena' = arena \o SubSeq(d, 1, n)
    BY <1>7 DEF Scrape!update_channel_failed, d
  <2>2. n \in 0..Len(d)
    BY <1>1, <2>1, LenProperties
  <2>3. SubSeq(d, 1, n) \in Seq(Scrape!Unit)
    <3>1. \A k \in 1..n : d[k] \in Scrape!Unit
      BY <1>1, <2>2, ElementOfSeq, LenProperties
    <3> QED
      BY <2>2, <3>1, SubSeqProperties
  <2>4. arena' \in Seq(Scrape!Unit)
    BY <1>1, <2>1, <2>3, ConcatProperties
  <2>5. UNCHANGED <<channels, parse_pc, parse_pos, entry, in_entry, author, in_author, author_id, delivered>>
    BY <1>7 DEF Scrape!update_channel_failed, Scrape!locals
  <2> QED
    BY <1>3, <1>5, <2>4, <2>5 DEF FeedInv, Scrape!TypeOK
<1> QED
  BY <1>6, <1>7

(* A table left alone stays sound. *)
LEMMA SameTableSound ==
  ASSUME TP!IInv, UNCHANGED channels
  PROVE  TP!IInv' /\ Len(channels'.authors) = Len(channels.authors)
BY DEF TP!IInv, TP!TypeOK, TP!OffsetsDelimitEntries, TP!RsvInText, TP!WithinCapacity

(* Every step of parse keeps the state typed and the table sound. *)
LEMMA ParseTyped ==
  ASSUME FeedInv, Scrape!Parse
  PROVE  FeedInv'
<1>1. /\ Scrape!TypeOK /\ TP!IInv
      /\ entry \in Scrape!Entry /\ author \in Scrape!Author
      /\ author_id \in 0..Len(channels.authors) /\ Len(channels.authors) \in Nat
      /\ parse_pos \in Nat \ {0}
  BY DEF FeedInv, Scrape!TypeOK, TP!IInv, TP!TypeOK
<1>2. UNCHANGED <<links, delivered>>
  BY DEF Scrape!Parse, Scrape!parse_returns, Scrape!entry_begin, Scrape!entry_field,
         Scrape!find_author, Scrape!entry_end, Scrape!author_begin, Scrape!author_end,
         Scrape!author_field, Scrape!other_element, Scrape!Passed
<1>3. parse_pos' \in Nat \ {0}
  <2>1. parse_pos' = parse_pos \/ parse_pos' = parse_pos + 1
    BY DEF Scrape!Parse, Scrape!parse_returns, Scrape!entry_begin, Scrape!entry_field,
           Scrape!find_author, Scrape!entry_end, Scrape!author_begin, Scrape!author_end,
           Scrape!author_field, Scrape!other_element, Scrape!Passed
  <2> QED
    BY <1>1, <2>1
<1>4. arena' \in Seq(Scrape!Unit) /\ parse_pc' \in {"link", "parse"}
  <2>1. (arena' = <<>> /\ parse_pc' = "link") \/ UNCHANGED <<arena, parse_pc>>
    BY DEF Scrape!Parse, Scrape!parse_returns, Scrape!entry_begin, Scrape!entry_field,
           Scrape!find_author, Scrape!entry_end, Scrape!author_begin, Scrape!author_end,
           Scrape!author_field, Scrape!other_element, Scrape!Passed, Scrape!Emptied
  <2> QED
    BY <1>1, <2>1, EmptySeq DEF Scrape!TypeOK
<1>5. in_entry' \in BOOLEAN /\ in_author' \in BOOLEAN
  <2>1. /\ in_entry' = in_entry \/ in_entry' = TRUE \/ in_entry' = FALSE
        /\ in_author' = in_author \/ in_author' = TRUE \/ in_author' = FALSE
    BY Zenon DEF Scrape!Parse, Scrape!parse_returns, Scrape!entry_begin, Scrape!entry_field,
           Scrape!find_author, Scrape!entry_end, Scrape!author_begin, Scrape!author_end,
           Scrape!author_field, Scrape!other_element, Scrape!Passed, Scrape!locals
  <2>2. in_entry \in BOOLEAN /\ in_author \in BOOLEAN
    BY <1>1 DEF Scrape!TypeOK
  <2> QED
    BY <2>1, <2>2
<1>6. entry' \in Scrape!Entry /\ author' \in Scrape!Author
  <2>1. CASE Scrape!entry_field
    <3>1. /\ entry' = [entry EXCEPT ![arena[parse_pos].tag] = Scrape!Text] /\ author' = author
          /\ Scrape!Element_is(Scrape!EntryField)
      BY <2>1 DEF Scrape!entry_field
    <3>2. Scrape!Text \in Scrape!Sv
      BY <1>1, <3>1, ElementRead
    <3> QED
      BY <1>1, <3>1, <3>2 DEF Scrape!Entry
  <2>2. CASE Scrape!entry_end
    <3>1. entry' = Scrape!NoEntry /\ author' = author
      BY <2>2 DEF Scrape!entry_end
    <3> QED
      BY <1>1, <3>1, NothingKnown
  <2>3. CASE Scrape!author_field
    <3>1. /\ author' = [author EXCEPT ![arena[parse_pos].tag] = Scrape!Text] /\ entry' = entry
          /\ Scrape!Element_is({"uri", "name"}) \/ Scrape!Element_is({"published"})
      BY <2>3 DEF Scrape!author_field
    <3>2. Scrape!Text \in Scrape!Sv
      BY <1>1, <3>1, ElementRead
    <3> QED
      BY <1>1, <3>1, <3>2 DEF Scrape!Author
  <2>4. CASE ~ (Scrape!entry_field \/ Scrape!entry_end \/ Scrape!author_field)
    <3>1. UNCHANGED <<entry, author>>
      BY <2>4 DEF Scrape!Parse, Scrape!parse_returns, Scrape!entry_begin,
           Scrape!find_author, Scrape!author_begin, Scrape!author_end,
           Scrape!other_element, Scrape!locals
    <3> QED
      BY <1>1, <3>1
  <2> QED
    BY <2>1, <2>2, <2>3, <2>4
<1>7. TP!IInv' /\ author_id' \in 0..Len(channels'.authors)
  <2>1. CASE Scrape!find_author
    <3>1. CASE Scrape!Found(author.uri) # 0 /\ author_id' = Scrape!Found(author.uri) /\ UNCHANGED channels
      <4>1. Scrape!Found(author.uri) \in 1..Len(channels.authors)
        BY <1>1, <3>1, TableFind
      <4> QED
        BY <1>1, <3>1, <4>1, SameTableSound
    <3>2. CASE /\ channels' = Scrape!Table!channels_add_author(channels, author)
               /\ author_id' = Scrape!Added_id
      <4>1. author \in Valid
        BY <1>1, <2>1 DEF Scrape!find_author, Scrape!Accepted, Valid
      <4>2. TP!IInv' /\ Len(channels'.authors) = Len(channels.authors) + 1
        BY <1>1, <3>2, <4>1, TableAuthor
      <4> QED
        BY <1>1, <3>2, <4>2 DEF Scrape!Added_id
    <3> QED
      BY <2>1, <3>1, <3>2 DEF Scrape!find_author
  <2>2. CASE Scrape!entry_end
    <3>1. author_id' = author_id
      BY <2>2 DEF Scrape!entry_end
    <3>2. CASE UNCHANGED channels
      BY <1>1, <3>1, <3>2, SameTableSound
    <3>3. CASE /\ author_id # 0
               /\ channels' = Scrape!Table!channels_add_entry(channels, entry, author_id)
      <4>1. author_id \in 1..Len(channels.authors)
        BY <1>1, <3>3
      <4>2. TP!IInv' /\ channels'.authors = channels.authors
        BY <1>1, <3>3, <4>1, TableEntry
      <4> QED
        BY <1>1, <3>1, <4>2
    <3> QED
      BY <2>2, <3>2, <3>3 DEF Scrape!entry_end
  <2>3. CASE ~ (Scrape!find_author \/ Scrape!entry_end)
    <3>1. UNCHANGED <<channels, author_id>>
      BY <2>3 DEF Scrape!Parse, Scrape!parse_returns, Scrape!entry_begin, Scrape!entry_field,
           Scrape!author_begin, Scrape!author_end,
           Scrape!author_field, Scrape!other_element, Scrape!locals
    <3> QED
      BY <1>1, <3>1, SameTableSound
  <2> QED
    BY <2>1, <2>2, <2>3
<1> QED
  BY <1>1, <1>2, <1>3, <1>4, <1>5, <1>6, <1>7 DEF FeedInv, Scrape!TypeOK

(* main starts typed. *)
LEMMA FeedInit == VidsInit => FeedInv
<1> SUFFICES ASSUME Scrape!Init
             PROVE  FeedInv
  BY DEF VidsInit
<1>1. TP!IInv
  BY TableCreated DEF Scrape!Init
<1>2. Len(channels.authors) \in Nat
  BY <1>1 DEF TP!IInv, TP!TypeOK
<1>3. arena \in Seq(Scrape!Unit) /\ delivered \in Seq(Feeds) /\ links \in 0..MaxLinks
  BY EmptySeq, VidsAssumption DEF Scrape!Init
<1>4. parse_pos \in Nat \ {0} /\ parse_pc \in {"link", "parse"} /\ author_id \in 0..Len(channels.authors)
  BY <1>2 DEF Scrape!Init
<1>5. entry \in Scrape!Entry /\ author \in Scrape!Author
  BY NothingKnown DEF Scrape!Init
<1>6. in_entry \in BOOLEAN /\ in_author \in BOOLEAN
  BY DEF Scrape!Init
<1> QED
  BY <1>1, <1>3, <1>4, <1>5, <1>6 DEF FeedInv, Scrape!TypeOK

(* Every step of vids.c keeps the scraper typed. *)
LEMMA FeedStep == FeedInv /\ [VidsNext]_vidsVars => FeedInv'
<1> SUFFICES ASSUME FeedInv, [VidsNext]_vidsVars
             PROVE  FeedInv'
  OBVIOUS
<1>1. CASE update_channel
  <2>1. PICK f : f = FeedAt[Last(updates')]
    OBVIOUS
  <2>2. Scrape!update_channel(f) /\ f \in Feeds
    BY <1>1, <2>1, VidsAssumption DEF update_channel
  <2> QED
    BY <2>2, FetchTyped
<1>2. CASE update_channel_failed
  BY <1>2, FetchTyped DEF update_channel_failed
<1>3. CASE Scrape!Parse
  BY <1>3, ParseTyped
<1>4. CASE UNCHANGED feed
  <2>1. UNCHANGED <<channels, arena, parse_pc, links, parse_pos,
                    entry, in_entry, author, in_author, author_id, delivered>>
    BY <1>4 DEF feed
  <2>2. TP!IInv'
    BY <2>1, SameTableSound DEF FeedInv
  <2> QED
    BY <2>1, <2>2 DEF FeedInv, Scrape!TypeOK
<1> QED
  BY <1>1, <1>2, <1>3, <1>4 DEF VidsNext, vidsVars, channels_write, serve_vids


-----------------------------------------------------------------------------
(* Where parse is in the document, and what it does there *)

(* What the author's fields hold before parse reads element h of a heading *)
(* that is complete.                                                       *)
Known(f, h) ==
  /\ h > 3 => author.name = f.author.name
  /\ h > 4 => author.uri = f.author.uri
  /\ h > 6 => author.published = f.author.published

(* The entry being read has what the elements up to the next said of e. *)
Given(lo, e) ==
  /\ \A g \in Scrape!EntryField : entry[g] \in {Null, e[g]}
  /\ \A k \in lo..parse_pos - 1 :
       arena[k].tag \in Scrape!EntryField => entry[arena[k].tag] = e[arena[k].tag]

(* parse is in the heading: of a valid author it has read what comes before. *)
InHeading(b, n, f) ==
  /\ ~in_entry /\ entry = Scrape!NoEntry /\ n = 0 /\ parse_pos \in 1..b[0]
  /\ Scrape!author_is_valid(f.author) =>
       Known(f, parse_pos) /\ (in_author <=> parse_pos \in 3..5)

(* parse is between two entries, or behind the heading or the last entry. *)
AtBorder(b, n, f) ==
  /\ ~in_entry /\ entry = Scrape!NoEntry /\ parse_pos = b[n] + 1
  /\ Scrape!author_is_valid(f.author) => Known(f, 7)

(* parse is inside the entry that comes after n others. *)
InEntry(b, n, f) ==
  /\ in_entry /\ n < Len(f.entries) /\ parse_pos \in b[n] + 2..b[n + 1]
  /\ Given(b[n] + 2, f.entries[n + 1])
  /\ Scrape!author_is_valid(f.author) => Known(f, 7)

(* Where parse is in the document of f: n of its entries have ended. *)
ParseAt(b, n, f) ==
  /\ parse_pc = "parse" /\ Laid(arena, Len(f.entries), b, f) /\ n \in 0..Len(f.entries)
  /\ InHeading(b, n, f) \/ AtBorder(b, n, f) \/ InEntry(b, n, f)
  /\ \A g \in Scrape!AuthorField : author[g] \in {Null, f.author[g]}
  /\ author_id # 0 => Scrape!author_is_valid(f.author) /\ (n > 0 \/ in_entry)
  /\ n > 0 /\ Scrape!author_is_valid(f.author) => author_id # 0

(* What a step of parse may do to the table. *)
Quiet == UNCHANGED <<channels, author_id>>

(* parse returns; only behind the last entry. *)
Returns_from(n, f) == parse_pc' = "link" /\ n = Len(f.entries)

(* parse is again in the document, n entries having ended. *)
Goes_on(b, n, f) == ParseAt(b, n, f)'

(* parse looks for the author of f, and adds it when it is new. *)
Finds(f) ==
  /\ author_id = 0 /\ f.entries # <<>> /\ Scrape!author_is_valid(f.author)
  /\ \/ /\ Scrape!Found(f.author.uri) # 0
        /\ author_id' = Scrape!Found(f.author.uri)
        /\ UNCHANGED channels
     \/ /\ Scrape!Found(f.author.uri) = 0
        /\ channels' = Scrape!Table!channels_add_author(channels, f.author)
        /\ author_id' = Len(channels.authors) + 1

(* parse adds the next entry of f to the author found. *)
Adds(n, f) ==
  /\ author_id # 0 /\ n < Len(f.entries) /\ author_id' = author_id
  /\ channels' = Scrape!Table!channels_add_entry(channels, f.entries[n + 1], author_id)

(* A step of parse in the document of f. *)
Moves(b, n, f) ==
  /\ UNCHANGED delivered
  /\ \/ Quiet /\ Returns_from(n, f)
     \/ Quiet /\ Goes_on(b, n, f)
     \/ Finds(f) /\ Goes_on(b, n, f)
     \/ Quiet /\ author_id = 0 /\ Goes_on(b, n + 1, f)
     \/ Adds(n, f) /\ Goes_on(b, n + 1, f)

(* The numbers of a layout. *)
LEMMA LaidFacts ==
  ASSUME NEW s, NEW n, NEW b, NEW f, Laid(s, n, b, f)
  PROVE  /\ n \in Nat /\ s \in Seq(Scrape!Unit) /\ Len(s) \in Nat /\ b[n] = Len(s)
         /\ \A i \in 0..n : b[i] \in Nat /\ b[i] <= Len(s)
         /\ \A i \in 0..n - 1 : b[i] + 2 <= b[i + 1]
         /\ \A i \in 0..n - 1 : EntryAt(s, b[i], b[i + 1], f.entries[i + 1])
<1>1. /\ n \in Nat /\ s \in Seq(Scrape!Unit) /\ Len(s) \in Nat /\ b[n] = Len(s)
      /\ b \in [0..n -> Nat] /\ \A i, j \in 0..n : i <= j => b[i] <= b[j]
  BY LenProperties DEF Laid
<1>2. \A i \in 0..n : b[i] \in Nat /\ b[i] <= Len(s)
  BY <1>1
<1>3. ASSUME NEW i \in 0..n - 1
      PROVE  EntryAt(s, b[i], b[i + 1], f.entries[i + 1]) /\ b[i] + 2 <= b[i + 1]
  <2>1. i + 1 \in 1..n /\ (i + 1) - 1 = i
    BY <1>1
  <2>2. EntryAt(s, b[(i + 1) - 1], b[i + 1], f.entries[i + 1])
    BY <2>1 DEF Laid
  <2>3. EntryAt(s, b[i], b[i + 1], f.entries[i + 1])
    BY <2>1, <2>2
  <2> QED
    BY <2>3 DEF EntryAt
<1> QED
  BY <1>1, <1>2, <1>3

\* At the border of an entry parse enters it or, behind the last, returns.
LEMMA BorderMoves ==
  ASSUME FeedInv, NEW b, NEW n, NEW f, ParseAt(b, n, f), AtBorder(b, n, f), Scrape!Parse
  PROVE  Moves(b, n, f)
<1>1. /\ Laid(arena, Len(f.entries), b, f) /\ n \in 0..Len(f.entries) /\ parse_pc = "parse"
      /\ ~in_entry /\ entry = Scrape!NoEntry /\ parse_pos = b[n] + 1
  BY DEF ParseAt, AtBorder
<1>2. /\ Len(f.entries) \in Nat /\ arena \in Seq(Scrape!Unit) /\ Len(arena) \in Nat
      /\ b[Len(f.entries)] = Len(arena) /\ b[n] \in Nat /\ b[n] <= Len(arena)
  BY <1>1, LaidFacts
<1>3. CASE n = Len(f.entries)
  <2>1. parse_pos > Len(arena)
    BY <1>1, <1>2, <1>3
  <2>2. Scrape!parse_returns
    <3>1. \A tags : ~ Scrape!Element_is(tags)
      BY <1>1, <1>2, <2>1 DEF Scrape!Element_is
    <3>2. ~ (parse_pos <= Len(arena))
      BY <1>1, <1>2, <2>1
    <3> QED
      BY <3>1, <3>2 DEF Scrape!Parse, Scrape!entry_begin, Scrape!entry_field,
         Scrape!find_author, Scrape!entry_end, Scrape!author_begin, Scrape!author_end,
         Scrape!author_field, Scrape!other_element
  <2> QED
    BY <1>3, <2>2 DEF Scrape!parse_returns, Scrape!locals, Moves, Quiet, Returns_from
<1>4. CASE n # Len(f.entries)
  <2>1. n \in 0..Len(f.entries) - 1 /\ n < Len(f.entries)
    BY <1>1, <1>2, <1>4
  <2>2. EntryAt(arena, b[n], b[n + 1], f.entries[n + 1])
    BY <1>1, <2>1, LaidFacts
  <2>3. arena[parse_pos].tag = "entry" /\ b[n] + 2 <= b[n + 1] /\ b[n + 1] <= Len(arena)
    BY <1>1, <2>2 DEF EntryAt
  <2>4. b[n + 1] \in Nat
    <3>1. n + 1 \in 0..Len(f.entries)
      BY <1>2, <2>1
    <3> QED
      BY <1>1, <3>1, LaidFacts
  <2>5. ~ (parse_pos > Len(arena)) /\ parse_pos <= Len(arena)
    BY <1>1, <1>2, <2>3, <2>4
  <2>6. \A tags : Scrape!Element_is(tags) <=> "entry" \in tags
    BY <1>1, <2>3, <2>5 DEF Scrape!Element_is
  <2>7. Scrape!entry_begin
    BY <1>1, <2>5, <2>6 DEF Scrape!Parse, Scrape!parse_returns, Scrape!entry_field,
         Scrape!find_author, Scrape!entry_end, Scrape!author_begin, Scrape!author_end,
         Scrape!author_field, Scrape!other_element
  <2>8. /\ in_entry' = TRUE /\ parse_pos' = b[n] + 2
        /\ UNCHANGED <<arena, parse_pc, delivered, channels, entry, author, in_author, author_id>>
    <3>1. /\ in_entry' = TRUE /\ parse_pos' = parse_pos + 1
          /\ UNCHANGED <<arena, parse_pc, delivered, channels, entry, author, in_author, author_id>>
      BY <2>7 DEF Scrape!entry_begin, Scrape!Passed
    <3> QED
      BY <1>1, <1>2, <3>1
  <2>9. InEntry(b, n, f)'
    <3>1. (Scrape!author_is_valid(f.author) => Known(f, 7))'
      BY <2>8 DEF AtBorder, Known
    <3>2. Given(b[n] + 2, f.entries[n + 1])'
      <4>1. \A k \in b[n] + 2..parse_pos' - 1 : FALSE
        BY <1>2, <2>8
      <4>2. \A g \in Scrape!EntryField : entry'[g] = Null
        BY <1>1, <2>8 DEF Scrape!NoEntry
      <4> QED
        BY <4>1, <4>2 DEF Given
    <3>3. parse_pos' \in b[n] + 2..b[n + 1]
      BY <1>2, <2>3, <2>4, <2>8
    <3> QED
      BY <2>1, <2>8, <3>1, <3>2, <3>3 DEF InEntry
  <2>10. ParseAt(b, n, f)'
    BY <1>1, <2>8, <2>9 DEF ParseAt
  <2> QED
    BY <2>8, <2>10 DEF Moves, Quiet, Goes_on
<1> QED
  BY <1>3, <1>4

(* The numbers inside an entry. *)
LEMMA EntryFacts ==
  ASSUME FeedInv, NEW b, NEW n, NEW f, ParseAt(b, n, f), InEntry(b, n, f)
  PROVE  /\ Laid(arena, Len(f.entries), b, f) /\ n \in Nat /\ n + 1 \in 0..Len(f.entries)
         /\ n < Len(f.entries) /\ Len(f.entries) \in Nat
         /\ parse_pc = "parse" /\ in_entry /\ Len(arena) \in Nat
         /\ b[n] \in Nat /\ b[n + 1] \in Nat /\ b[n + 1] <= Len(arena)
         /\ parse_pos \in b[n] + 2..b[n + 1] /\ parse_pos \in Nat /\ parse_pos <= Len(arena)
         /\ EntryAt(arena, b[n], b[n + 1], f.entries[n + 1])
         /\ \A tags : Scrape!Element_is(tags) <=> arena[parse_pos].tag \in tags
<1>1. /\ Laid(arena, Len(f.entries), b, f) /\ n \in 0..Len(f.entries) /\ parse_pc = "parse"
      /\ in_entry /\ n < Len(f.entries) /\ parse_pos \in b[n] + 2..b[n + 1]
  BY DEF ParseAt, InEntry
<1>2. Len(f.entries) \in Nat /\ Len(arena) \in Nat
  BY <1>1, LaidFacts
<1>3. n \in Nat /\ n \in 0..Len(f.entries) - 1 /\ n + 1 \in 0..Len(f.entries)
  BY <1>1, <1>2
<1>4. /\ b[n] \in Nat /\ b[n + 1] \in Nat /\ b[n + 1] <= Len(arena)
      /\ EntryAt(arena, b[n], b[n + 1], f.entries[n + 1])
  BY <1>1, <1>3, LaidFacts
<1>5. parse_pos \in Nat /\ parse_pos <= Len(arena)
  BY <1>1, <1>2, <1>4
<1>6. \A tags : Scrape!Element_is(tags) <=> arena[parse_pos].tag \in tags
  BY <1>1, <1>5 DEF Scrape!Element_is
<1> QED
  BY <1>1, <1>2, <1>3, <1>4, <1>5, <1>6

\* Inside an entry parse takes its fields and passes over all else.
LEMMA EntryMoves_inside ==
  ASSUME FeedInv, NEW b, NEW n, NEW f, ParseAt(b, n, f), InEntry(b, n, f),
         parse_pos # b[n + 1], Scrape!Parse
  PROVE  Moves(b, n, f)
<1> DEFINE e == f.entries[n + 1]
           tag == arena[parse_pos].tag
<1>1. /\ Laid(arena, Len(f.entries), b, f) /\ n \in Nat
      /\ n < Len(f.entries) /\ Len(f.entries) \in Nat
      /\ parse_pc = "parse" /\ in_entry /\ Len(arena) \in Nat
      /\ b[n] \in Nat /\ b[n + 1] \in Nat /\ b[n + 1] <= Len(arena)
      /\ parse_pos \in b[n] + 2..b[n + 1] /\ parse_pos \in Nat /\ parse_pos <= Len(arena)
      /\ EntryAt(arena, b[n], b[n + 1], e)
      /\ \A tags : Scrape!Element_is(tags) <=> tag \in tags
  BY EntryFacts
<1>2. /\ tag \notin Border
      /\ tag \in Scrape!EntryField => arena[parse_pos].text = e[tag]
  <2>1. parse_pos \in b[n] + 2..b[n + 1] - 1
    BY <1>1
  <2> QED
    BY <1>1, <2>1 DEF EntryAt
<1>3. Given(b[n] + 2, e) /\ (Scrape!author_is_valid(f.author) => Known(f, 7))
  BY DEF InEntry
<1>4. entry \in Scrape!Entry
  BY DEF FeedInv, Scrape!TypeOK
<1> HIDE DEF e
<1>5. ~ (parse_pos > Len(arena)) /\ tag # "entry" /\ tag # "/entry"
  BY <1>1, <1>2 DEF Border
<1> HIDE DEF tag
<1>6. /\ parse_pos' = parse_pos + 1
      /\ UNCHANGED <<arena, parse_pc, delivered, channels, in_entry, author, author_id>>
      /\ entry' = IF tag \in Scrape!EntryField THEN [entry EXCEPT ![tag] = arena[parse_pos].text]
                  ELSE entry
  <2>1. CASE Scrape!entry_field
    <3>1. tag \in Scrape!EntryField
      BY <1>1, <2>1 DEF Scrape!entry_field
    <3>2. entry' = [entry EXCEPT ![tag] = arena[parse_pos].text]
      BY <2>1 DEF Scrape!entry_field, Scrape!Text, tag
    <3> QED
      BY <2>1, <3>1, <3>2 DEF Scrape!entry_field, Scrape!Passed
  <2>2. CASE Scrape!other_element
    <3>1. tag \notin Scrape!EntryField
      BY <1>1, <2>2 DEF Scrape!other_element
    <3> QED
      BY <2>2, <3>1 DEF Scrape!other_element, Scrape!Passed, Scrape!locals
  <2>3. in_entry /\ ~ Scrape!Element_is({"/entry"}) /\ ~ (parse_pos > Len(arena))
    BY <1>1, <1>5
  <2>4. Scrape!entry_field \/ Scrape!other_element
    BY <2>3, Zenon DEF Scrape!Parse, Scrape!parse_returns, Scrape!entry_begin,
         Scrape!find_author, Scrape!entry_end, Scrape!author_begin, Scrape!author_end,
         Scrape!author_field
  <2> QED
    BY <2>1, <2>2, <2>4
<1>7. \A g \in Scrape!EntryField :
        entry'[g] = IF g = tag THEN arena[parse_pos].text ELSE entry[g]
  BY <1>4, <1>6 DEF Scrape!Entry
<1>8. Given(b[n] + 2, e)'
  <2>1. ASSUME NEW g \in Scrape!EntryField PROVE entry'[g] \in {Null, e[g]}
    BY <1>2, <1>3, <1>7 DEF Given
  <2>2. ASSUME NEW k \in b[n] + 2..parse_pos' - 1, arena[k].tag \in Scrape!EntryField
        PROVE  entry'[arena[k].tag] = e[arena[k].tag]
    <3>1. CASE k = parse_pos
      BY <1>2, <1>7, <2>2, <3>1 DEF tag
    <3>2. CASE k # parse_pos
      <4>1. k \in b[n] + 2..parse_pos - 1
        BY <1>1, <1>6, <3>2
      <4>2. entry[arena[k].tag] = e[arena[k].tag]
        BY <1>3, <2>2, <4>1 DEF Given
      <4> QED
        BY <1>2, <1>7, <2>2, <4>2
    <3> QED
      BY <3>1, <3>2
  <2>3. arena' = arena
    BY <1>6
  <2> QED
    BY <2>1, <2>2, <2>3 DEF Given
<1>9. InEntry(b, n, f)'
  <2>1. parse_pos' \in b[n] + 2..b[n + 1]
    BY <1>1, <1>6
  <2>2. (Scrape!author_is_valid(f.author) => Known(f, 7))'
    BY <1>3, <1>6 DEF Known
  <2> QED
    BY <1>1, <1>6, <1>8, <2>1, <2>2 DEF InEntry, e
<1>10. ParseAt(b, n, f)'
  BY <1>6, <1>9 DEF ParseAt
<1> QED
  BY <1>6, <1>10 DEF Moves, Quiet, Goes_on

(* The author described is the feed's, as soon as it is valid. *)
LEMMA ValidIsWhole ==
  ASSUME FeedInv, NEW f, f.author \in Scrape!Author,
         \A g \in Scrape!AuthorField : author[g] \in {Null, f.author[g]},
         Scrape!Accepted(author)
  PROVE  author = f.author /\ Scrape!author_is_valid(f.author)
<1>1. author \in Scrape!Author
  BY DEF FeedInv, Scrape!TypeOK
<1>2. \A g \in Scrape!AuthorField : ~ Scrape!sv_empty(author[g]) /\ author[g] = f.author[g]
  BY DEF Scrape!Accepted, Scrape!author_is_valid, Scrape!sv_empty
<1>3. author = f.author
  BY <1>1, <1>2 DEF Scrape!Author
<1> QED
  BY <1>2, <1>3 DEF Scrape!author_is_valid

(* Behind the heading nothing of the author is missing. *)
LEMMA KnownIsWhole ==
  ASSUME FeedInv, NEW f, f.author \in Scrape!Author, Known(f, 7)
  PROVE  author = f.author
<1>1. author \in Scrape!Author
  BY DEF FeedInv, Scrape!TypeOK
<1>2. author.name = f.author.name /\ author.uri = f.author.uri /\ author.published = f.author.published
  BY DEF Known
<1>3. \A g \in Scrape!AuthorField : author[g] = f.author[g]
  BY <1>2, TagKinds
<1> QED
  BY <1>1, <1>3 DEF Scrape!Author

(* At the end of an entry nothing of it is missing. *)
LEMMA GivenIsWhole ==
  ASSUME FeedInv, NEW b, NEW n, NEW f, ParseAt(b, n, f), InEntry(b, n, f),
         parse_pos = b[n + 1], f.entries[n + 1] \in Scrape!Entry
  PROVE  entry = f.entries[n + 1]
<1> DEFINE e == f.entries[n + 1]
<1>1. EntryAt(arena, b[n], b[n + 1], e) /\ b[n] \in Nat /\ b[n + 1] \in Nat
  BY EntryFacts
<1>2. Given(b[n] + 2, e) /\ entry \in Scrape!Entry /\ e \in Scrape!Entry
  BY DEF InEntry, FeedInv, Scrape!TypeOK
<1> HIDE DEF e
<1>3. ASSUME NEW g \in Scrape!EntryField
      PROVE  entry[g] = e[g]
  <2>1. entry[g] \in {Null, e[g]}
    BY <1>2 DEF Given
  <2>2. CASE e[g] # Null
    <3>1. PICK k \in b[n] + 2..b[n + 1] - 1 : arena[k].tag = g
      BY <1>1, <2>2 DEF EntryAt
    <3> QED
      BY <1>2, <3>1 DEF Given
  <2> QED
    BY <2>1, <2>2
<1>4. entry = e
  BY <1>2, <1>3 DEF Scrape!Entry
<1> QED
  BY <1>4 DEF e

\* At the end of an entry parse finds the author, or adds or drops the entry.
LEMMA EntryMoves_end ==
  ASSUME FeedInv, NEW b, NEW n, NEW f \in Feeds, ParseAt(b, n, f), InEntry(b, n, f),
         parse_pos = b[n + 1], Scrape!Parse
  PROVE  Moves(b, n, f)
<1>1. /\ Laid(arena, Len(f.entries), b, f) /\ n \in Nat /\ n + 1 \in 0..Len(f.entries)
      /\ n < Len(f.entries) /\ Len(f.entries) \in Nat
      /\ parse_pc = "parse" /\ in_entry /\ Len(arena) \in Nat
      /\ b[n] \in Nat /\ b[n + 1] \in Nat /\ b[n + 1] <= Len(arena)
      /\ parse_pos \in Nat /\ parse_pos <= Len(arena)
      /\ EntryAt(arena, b[n], b[n + 1], f.entries[n + 1])
      /\ \A tags : Scrape!Element_is(tags) <=> arena[parse_pos].tag \in tags
  BY EntryFacts
<1>2. arena[parse_pos].tag = "/entry"
  BY <1>1 DEF EntryAt
<1>3. f.author \in Scrape!Author /\ f.entries \in Seq(Scrape!Entry)
  BY FeedFacts
<1>4. f.entries[n + 1] \in Scrape!Entry
  <2>1. n + 1 \in 1..Len(f.entries)
    BY <1>1
  <2> QED
    BY <1>3, <2>1, ElementOfSeq
<1>5. entry = f.entries[n + 1]
  BY <1>4, GivenIsWhole
<1>6. Scrape!find_author \/ Scrape!entry_end
  <2>1. ~ Scrape!Element_is(Scrape!EntryField) /\ Scrape!Element_is(Scrape!EntryField \cup {"/entry"})
    BY <1>1, <1>2 DEF Scrape!EntryField
  <2>2. ~ (parse_pos > Len(arena)) /\ in_entry
    BY <1>1
  <2> QED
    BY <2>1, <2>2, Zenon DEF Scrape!Parse, Scrape!parse_returns, Scrape!entry_begin,
         Scrape!entry_field, Scrape!author_begin, Scrape!author_end,
         Scrape!author_field, Scrape!other_element
<1>7. CASE Scrape!find_author
  <2>1. author_id = 0 /\ Scrape!Accepted(author)
    BY <1>7 DEF Scrape!find_author
  <2>2. author = f.author /\ Scrape!author_is_valid(f.author)
    BY <1>3, <2>1, ValidIsWhole DEF ParseAt
  <2>3. UNCHANGED <<arena, parse_pc, parse_pos, entry, in_entry, author, in_author, delivered>>
    BY <1>7 DEF Scrape!find_author
  <2>4. Finds(f)
    <3>1. f.entries # <<>>
      BY <1>1, EmptySeq
    <3> QED
      BY <1>7, <2>1, <2>2, <3>1 DEF Scrape!find_author, Scrape!Added_id, Finds
  <2>5. InEntry(b, n, f)'
    BY <2>3 DEF InEntry, Given, Known
  <2>6. ParseAt(b, n, f)'
    <3>1. author_id' # 0 => Scrape!author_is_valid(f.author) /\ (n > 0 \/ in_entry')
      BY <1>1, <2>2, <2>3
    <3>2. n > 0 => author_id # 0
      BY <2>2 DEF ParseAt
    <3>3. ~ (n > 0)
      BY <2>1, <3>2
    <3>4. n \in 0..Len(f.entries)
      BY <1>1
    <3> QED
      BY <1>1, <2>3, <2>5, <3>1, <3>3, <3>4 DEF ParseAt
  <2> QED
    BY <2>3, <2>4, <2>6 DEF Moves, Goes_on
<1>8. CASE Scrape!entry_end
  <2>1. /\ entry' = Scrape!NoEntry /\ in_entry' = FALSE /\ parse_pos' = b[n + 1] + 1
        /\ UNCHANGED <<arena, parse_pc, author, in_author, author_id, delivered>>
    BY <1>8 DEF Scrape!entry_end, Scrape!Passed
  <2>2. AtBorder(b, n + 1, f)'
    <3>1. Scrape!author_is_valid(f.author) => Known(f, 7)
      BY DEF InEntry
    <3>2. (Scrape!author_is_valid(f.author) => Known(f, 7))'
      BY <2>1, <3>1 DEF Known
    <3> QED
      BY <2>1, <3>2 DEF AtBorder
  <2>3. \/ author_id = 0 /\ ~ Scrape!Accepted(author) /\ UNCHANGED channels
        \/ author_id # 0 /\ channels' = Scrape!Table!channels_add_entry(channels, entry, author_id)
    BY <1>8 DEF Scrape!entry_end
  <2>4. author_id = 0 => ~ Scrape!author_is_valid(f.author)
    <3> SUFFICES ASSUME author_id = 0, Scrape!author_is_valid(f.author)
                 PROVE  FALSE
      OBVIOUS
    <3>1. Known(f, 7)
      BY DEF InEntry
    <3>2. author = f.author
      BY <1>3, <3>1, KnownIsWhole
    <3> QED
      BY <2>3, <3>2 DEF Scrape!Accepted
  <2>5. ParseAt(b, n + 1, f)'
    <3>1. author_id' # 0 => Scrape!author_is_valid(f.author) /\ (n + 1 > 0 \/ in_entry')
      BY <1>1, <2>1 DEF ParseAt
    <3>2. n + 1 > 0 /\ Scrape!author_is_valid(f.author) => author_id' # 0
      BY <2>1, <2>4
    <3> QED
      BY <1>1, <2>1, <2>2, <3>1, <3>2 DEF ParseAt
  <2>6. CASE author_id = 0 /\ UNCHANGED channels
    BY <2>1, <2>5, <2>6 DEF Moves, Quiet, Goes_on
  <2>7. CASE author_id # 0 /\ channels' = Scrape!Table!channels_add_entry(channels, entry, author_id)
    <3>1. Adds(n, f)
      BY <1>1, <1>5, <2>1, <2>7 DEF Adds
    <3> QED
      BY <2>1, <2>5, <3>1 DEF Moves, Goes_on
  <2> QED
    BY <2>3, <2>6, <2>7
<1> QED
  BY <1>6, <1>7, <1>8

\* Before the entries parse takes what describes the author.
LEMMA HeadingMoves ==
  ASSUME FeedInv, NEW b, NEW n, NEW f, f.author \in Scrape!Author,
         ParseAt(b, n, f), InHeading(b, n, f), Scrape!Parse
  PROVE  Moves(b, n, f)
<1> DEFINE tag == arena[parse_pos].tag
           valid == Scrape!author_is_valid(f.author)
<1>1. /\ Laid(arena, Len(f.entries), b, f) /\ n = 0 /\ parse_pc = "parse"
      /\ ~in_entry /\ entry = Scrape!NoEntry /\ parse_pos \in 1..b[0]
  BY DEF ParseAt, InHeading
<1>2. Len(f.entries) \in Nat /\ Len(arena) \in Nat /\ b[0] \in Nat /\ b[0] <= Len(arena)
  BY <1>1, LaidFacts
<1>3. parse_pos \in Nat /\ parse_pos <= Len(arena) /\ ~ (parse_pos > Len(arena))
  BY <1>1, <1>2
<1>4. \A tags : Scrape!Element_is(tags) <=> tag \in tags
  BY <1>1, <1>3 DEF Scrape!Element_is
<1>5. tag \notin Border /\ (tag \in Scrape!AuthorField => arena[parse_pos].text = f.author[tag])
  BY <1>1 DEF Laid
<1>6. author \in Scrape!Author /\ \A g \in Scrape!AuthorField : author[g] \in {Null, f.author[g]}
  BY DEF ParseAt, FeedInv, Scrape!TypeOK
<1>7. /\ valid => Known(f, parse_pos) /\ (in_author <=> parse_pos \in 3..5)
      /\ valid => Complete(arena, b[0])
  BY <1>1 DEF InHeading, Laid
<1>8. author_id = 0
  BY <1>1 DEF ParseAt
<1>9. Scrape!author_begin \/ Scrape!author_end \/ Scrape!author_field \/ Scrape!other_element
  <2>1. ~ Scrape!Element_is({"entry"})
    BY <1>4, <1>5 DEF Border
  <2> HIDE DEF tag
  <2> QED
    BY <1>1, <1>3, <2>1, Zenon DEF Scrape!Parse, Scrape!parse_returns, Scrape!entry_begin,
         Scrape!entry_field, Scrape!find_author, Scrape!entry_end
<1>10. /\ parse_pos' = parse_pos + 1
       /\ UNCHANGED <<arena, parse_pc, delivered, channels, entry, in_entry, author_id>>
  BY <1>9 DEF Scrape!author_begin, Scrape!author_end, Scrape!author_field, Scrape!other_element,
       Scrape!Passed, Scrape!locals
<1> HIDE DEF tag
<1>11. \/ author' = author
       \/ tag \in Scrape!AuthorField /\ author' = [author EXCEPT ![tag] = f.author[tag]]
  <2>1. CASE Scrape!author_field
    <3>1. tag \in Scrape!AuthorField
      BY <1>4, <2>1 DEF Scrape!author_field, Scrape!AuthorField
    <3>2. author' = [author EXCEPT ![tag] = arena[parse_pos].text]
      BY <2>1 DEF Scrape!author_field, Scrape!Text, tag
    <3> QED
      BY <1>5, <3>1, <3>2
  <2>2. CASE ~ Scrape!author_field
    BY <1>9, <2>2 DEF Scrape!author_begin, Scrape!author_end, Scrape!other_element, Scrape!locals
  <2> QED
    BY <2>1, <2>2
<1>12. \A g \in Scrape!AuthorField : author'[g] \in {Null, f.author[g]}
  BY <1>6, <1>11 DEF Scrape!Author
<1>13. ASSUME valid
       PROVE  Known(f, parse_pos)' /\ (in_author' <=> parse_pos' \in 3..5) /\ b[0] = 6
  <2>1. /\ b[0] = 6 /\ parse_pos \in 1..6 /\ Known(f, parse_pos)
        /\ in_author <=> parse_pos \in 3..5
        /\ arena[1].tag = "title" /\ arena[2].tag = "author" /\ arena[3].tag = "name"
        /\ arena[4].tag = "uri" /\ arena[5].tag = "/author" /\ arena[6].tag = "published"
    BY <1>1, <1>7, <1>13 DEF Complete
  <2>2. /\ author.name = author["name"] /\ author.uri = author["uri"]
        /\ author.published = author["published"]
        /\ "name" \in Scrape!AuthorField /\ "uri" \in Scrape!AuthorField
        /\ "published" \in Scrape!AuthorField
        /\ "name" # "uri" /\ "name" # "published" /\ "uri" # "published"
    BY DEF Scrape!AuthorField
  <2>3. /\ Scrape!author_begin => ~in_author /\ tag = "author" /\ in_author' = TRUE /\ author' = author
        /\ Scrape!author_end => in_author /\ tag = "/author" /\ in_author' = FALSE /\ author' = author
    BY <1>4, Zenon DEF Scrape!author_begin, Scrape!author_end
  <2>4. /\ Scrape!author_field =>
             /\ (in_author /\ tag \in {"uri", "name"}) \/ tag = "published"
             /\ author' = [author EXCEPT ![tag] = f.author[tag]] /\ in_author' = in_author
    <3> SUFFICES ASSUME Scrape!author_field
                 PROVE  /\ (in_author /\ tag \in {"uri", "name"}) \/ tag = "published"
                        /\ author' = [author EXCEPT ![tag] = f.author[tag]] /\ in_author' = in_author
      OBVIOUS
    <3>1. (in_author /\ tag \in {"uri", "name"}) \/ tag = "published"
      BY <1>4 DEF Scrape!author_field
    <3>2. author' = [author EXCEPT ![tag] = arena[parse_pos].text] /\ in_author' = in_author
      BY DEF Scrape!author_field, Scrape!Text, tag
    <3>3. tag \in Scrape!AuthorField
      BY <3>1 DEF Scrape!AuthorField
    <3> QED
      BY <1>5, <3>1, <3>2, <3>3
  <2>5. /\ Scrape!other_element =>
             /\ tag # "published" /\ (in_author => tag \notin {"/author", "uri", "name"})
             /\ ~in_author => tag # "author"
             /\ in_author' = in_author /\ author' = author
    <3> SUFFICES ASSUME Scrape!other_element
                 PROVE  /\ tag # "published" /\ (in_author => tag \notin {"/author", "uri", "name"})
                        /\ ~in_author => tag # "author"
                        /\ in_author' = in_author /\ author' = author
      OBVIOUS
    <3>1. /\ ~ Scrape!Element_is({"entry", "published"})
          /\ in_author => ~ Scrape!Element_is({"/author", "uri", "name"})
          /\ ~in_author => ~ Scrape!Element_is({"author"})
          /\ in_author' = in_author /\ author' = author
      BY <1>1, Zenon DEF Scrape!other_element, Scrape!locals
    <3> QED
      BY <1>4, <3>1
  <2>6. \A g, h \in Scrape!AuthorField :
          author' = [author EXCEPT ![g] = f.author[g]] =>
            author'[h] = IF h = g THEN f.author[g] ELSE author[h]
    BY <1>6 DEF Scrape!Author
  <2>7. CASE parse_pos = 1
    <3>1. tag = "title" /\ ~in_author
      BY <2>1, <2>7 DEF tag
    <3>2. author' = author /\ in_author' = in_author
      BY <1>9, <2>3, <2>4, <2>5, <3>1
    <3> QED
      BY <1>10, <2>1, <2>7, <3>1, <3>2 DEF Known
  <2>8. CASE parse_pos = 2
    <3>1. tag = "author" /\ ~in_author
      BY <2>1, <2>8 DEF tag
    <3>2. author' = author /\ in_author' = TRUE
      BY <1>9, <2>3, <2>4, <2>5, <3>1
    <3> QED
      BY <1>10, <2>1, <2>8, <3>2 DEF Known
  <2>9. CASE parse_pos = 3
    <3>1. tag = "name" /\ in_author
      BY <2>1, <2>9 DEF tag
    <3>2. author' = [author EXCEPT !["name"] = f.author["name"]] /\ in_author' = in_author
      BY <1>9, <2>3, <2>4, <2>5, <3>1
    <3>3. author'["name"] = f.author["name"]
      BY <2>2, <2>6, <3>2
    <3> QED
      BY <1>10, <2>1, <2>9, <3>1, <3>2, <3>3 DEF Known
  <2>10. CASE parse_pos = 4
    <3>1. tag = "uri" /\ in_author
      BY <2>1, <2>10 DEF tag
    <3>2. author' = [author EXCEPT !["uri"] = f.author["uri"]] /\ in_author' = in_author
      BY <1>9, <2>3, <2>4, <2>5, <3>1
    <3>3. author'["uri"] = f.author["uri"] /\ author'["name"] = author["name"]
      BY <2>2, <2>6, <3>2
    <3> QED
      BY <1>10, <2>1, <2>10, <3>1, <3>2, <3>3 DEF Known
  <2>11. CASE parse_pos = 5
    <3>1. tag = "/author" /\ in_author
      BY <2>1, <2>11 DEF tag
    <3>2. author' = author /\ in_author' = FALSE
      BY <1>9, <2>3, <2>4, <2>5, <3>1
    <3> QED
      BY <1>10, <2>1, <2>11, <3>2 DEF Known
  <2>12. CASE parse_pos = 6
    <3>1. tag = "published" /\ ~in_author
      BY <2>1, <2>12 DEF tag
    <3>2. author' = [author EXCEPT !["published"] = f.author["published"]] /\ in_author' = in_author
      BY <1>9, <2>3, <2>4, <2>5, <3>1
    <3>3. /\ author'["published"] = f.author["published"]
          /\ author'["name"] = author["name"] /\ author'["uri"] = author["uri"]
      BY <2>2, <2>6, <3>2
    <3> QED
      BY <1>10, <2>1, <2>12, <3>1, <3>2, <3>3 DEF Known
  <2> QED
    BY <2>1, <2>7, <2>8, <2>9, <2>10, <2>11, <2>12
<1>14. InHeading(b, n, f)' \/ AtBorder(b, n, f)'
  <2>1. CASE parse_pos = b[0]
    <3>1. parse_pos' = b[n] + 1
      BY <1>1, <1>10, <2>1
    <3>2. ASSUME valid PROVE Known(f, 7)'
      <4>1. parse_pos' = 7 /\ Known(f, parse_pos)'
        BY <1>13, <3>2, <1>10, <2>1
      <4> QED
        BY <4>1 DEF Known
    <3> QED
      BY <1>1, <1>10, <3>1, <3>2 DEF AtBorder
  <2>2. CASE parse_pos # b[0]
    <3>1. parse_pos' \in 1..b[0]
      BY <1>1, <1>2, <1>10, <2>2
    <3> QED
      BY <1>1, <1>10, <1>13, <3>1 DEF InHeading
  <2> QED
    BY <2>1, <2>2
<1>15. ParseAt(b, n, f)'
  <2>1. n \in 0..Len(f.entries) /\ ~ (n > 0)
    BY <1>1, <1>2
  <2> QED
    BY <1>1, <1>8, <1>10, <1>12, <1>14, <2>1 DEF ParseAt
<1> QED
  BY <1>10, <1>15 DEF Moves, Quiet, Goes_on

(* A step of parse, wherever it is. *)
LEMMA ParseMoves ==
  ASSUME FeedInv, NEW b, NEW n, NEW f \in Feeds, ParseAt(b, n, f), Scrape!Parse
  PROVE  Moves(b, n, f)
<1>1. InHeading(b, n, f) \/ AtBorder(b, n, f) \/ InEntry(b, n, f)
  BY DEF ParseAt
<1>2. f.author \in Scrape!Author
  BY FeedFacts
<1> QED
  BY <1>1, <1>2, HeadingMoves, BorderMoves, EntryMoves_inside, EntryMoves_end


-----------------------------------------------------------------------------
(* One document at a time *)

(* The feed that parse reads. *)
Current == delivered[Len(delivered)]

(* Between two links the arena is empty, and inside parse it holds the     *)
(* feed last delivered.                                                    *)
OneInv ==
  /\ FeedInv
  /\ parse_pc = "link" => arena = <<>>
  /\ parse_pc = "parse" => Len(delivered) > 0 /\ arena = Scrape!Document(Current)

(* parse is somewhere in the document of the feed last delivered. *)
PlaceInv ==
  /\ FeedInv
  /\ parse_pc = "parse" =>
       Len(delivered) > 0 /\ \E b, n : ParseAt(b, n, Current)

(* It is one of the feeds. *)
LEMMA CurrentFeed ==
  ASSUME FeedInv, Len(delivered) > 0
  PROVE  Current \in Feeds
<1>1. delivered \in Seq(Feeds) /\ Len(delivered) \in Nat
  BY LenProperties DEF FeedInv, Scrape!TypeOK
<1>2. Len(delivered) \in 1..Len(delivered)
  BY <1>1
<1> QED
  BY <1>1, <1>2, ElementOfSeq DEF Current

(* update_channel makes f the feed to read. *)
LEMMA Fetched ==
  ASSUME FeedInv, NEW f \in Feeds, Scrape!update_channel(f)
  PROVE  /\ Len(delivered') > 0 /\ Current' = f
         /\ parse_pc = "link" /\ parse_pc' = "parse" /\ arena' = arena \o Scrape!Document(f)
         /\ delivered' = Append(delivered, f)
         /\ parse_pos' = 1 /\ entry' = Scrape!NoEntry /\ in_entry' = FALSE
         /\ author' = Scrape!NoAuthor /\ in_author' = FALSE /\ author_id' = 0
         /\ UNCHANGED channels
<1>1. delivered \in Seq(Feeds) /\ Len(delivered) \in Nat /\ delivered' = Append(delivered, f)
  BY LenProperties DEF FeedInv, Scrape!TypeOK, Scrape!update_channel
<1>2. Len(delivered') = Len(delivered) + 1 /\ delivered'[Len(delivered) + 1] = f
  BY <1>1, AppendProperties
<1>3. Len(delivered') > 0 /\ Current' = f
  BY <1>1, <1>2 DEF Current
<1> QED
  BY <1>1, <1>3 DEF Scrape!update_channel

\* The steps of VidsNext as the scraper sees them.
LEMMA ScraperSteps ==
  ASSUME [VidsNext]_vidsVars
  PROVE  \/ \E f \in Feeds : Scrape!update_channel(f)
         \/ \E f \in Feeds : Scrape!update_channel_failed(f)
         \/ Scrape!Parse
         \/ UNCHANGED <<channels, arena, parse_pc, links, parse_pos,
                        entry, in_entry, author, in_author, author_id, delivered>>
<1>1. CASE update_channel
  <2>1. PICK f : f = FeedAt[Last(updates')]
    OBVIOUS
  <2>2. Scrape!update_channel(f) /\ f \in Feeds
    BY <1>1, <2>1, VidsAssumption DEF update_channel
  <2> QED
    BY <2>2
<1> QED
  BY <1>1 DEF VidsNext, vidsVars, channels_write, serve_vids, feed, update_channel_failed

(* When a transfer that fails delivers nothing, the arena holds one document. *)
LEMMA OneStep ==
  ASSUME Partial = FALSE, OneInv, FeedInv', [VidsNext]_vidsVars
  PROVE  OneInv'
<1>1. ASSUME NEW f \in Feeds, Scrape!update_channel(f)
      PROVE  OneInv'
  <2>1. /\ Len(delivered') > 0 /\ Current' = f
        /\ parse_pc = "link" /\ parse_pc' = "parse" /\ arena' = arena \o Scrape!Document(f)
    BY <1>1, Fetched DEF OneInv
  <2>2. arena = <<>> /\ Scrape!Document(f) \in Seq(Scrape!Unit)
    BY <2>1, FeedFacts DEF OneInv
  <2>3. arena' = Scrape!Document(f)
    BY <2>1, <2>2, ConcatEmptySeq
  <2> QED
    BY <2>1, <2>3 DEF OneInv
<1>2. ASSUME NEW f \in Feeds, Scrape!update_channel_failed(f)
      PROVE  OneInv'
  <2>1. PICK n \in {0} : arena' = arena \o SubSeq(Scrape!Document(f), 1, n)
    BY <1>2 DEF Scrape!update_channel_failed
  <2>2. SubSeq(Scrape!Document(f), 1, 0) = <<>>
    <3>1. Scrape!Document(f) \in Seq(Scrape!Unit)
      BY FeedFacts
    <3>2. /\ SubSeq(Scrape!Document(f), 1, 0) \in Seq(Scrape!Unit)
          /\ Len(SubSeq(Scrape!Document(f), 1, 0)) = 0
      BY <3>1, SubSeqProperties
    <3> QED
      BY <3>2, EmptySeq
  <2>3. arena = <<>> /\ parse_pc = "link" /\ UNCHANGED parse_pc
    BY <1>2 DEF Scrape!update_channel_failed, OneInv
  <2>4. arena' = <<>>
    <3>1. <<>> \in Seq(Scrape!Unit)
      BY EmptySeq
    <3> QED
      BY <2>1, <2>2, <2>3, <3>1, ConcatEmptySeq
  <2> QED
    BY <2>3, <2>4 DEF OneInv
<1>3. CASE Scrape!Parse
  <2>1. (arena' = <<>> /\ parse_pc' = "link") \/ UNCHANGED <<arena, parse_pc>>
    BY <1>3 DEF Scrape!Parse, Scrape!parse_returns, Scrape!entry_begin, Scrape!entry_field,
           Scrape!find_author, Scrape!entry_end, Scrape!author_begin, Scrape!author_end,
           Scrape!author_field, Scrape!other_element, Scrape!Passed, Scrape!Emptied
  <2>2. UNCHANGED delivered
    BY <1>3 DEF Scrape!Parse, Scrape!parse_returns, Scrape!entry_begin, Scrape!entry_field,
           Scrape!find_author, Scrape!entry_end, Scrape!author_begin, Scrape!author_end,
           Scrape!author_field, Scrape!other_element, Scrape!Passed
  <2> QED
    BY <2>1, <2>2 DEF OneInv, Current
<1>4. CASE UNCHANGED <<arena, parse_pc, delivered>>
  BY <1>4 DEF OneInv, Current
<1> QED
  BY <1>1, <1>2, <1>3, <1>4, ScraperSteps

(* Given one document, parse never leaves the layout of it. *)
LEMMA PlaceStep ==
  ASSUME PlaceInv, FeedInv', Scrape!ParsesOneDocument', [VidsNext]_vidsVars
  PROVE  PlaceInv'
<1>1. ASSUME NEW f \in Feeds, Scrape!update_channel(f)
      PROVE  PlaceInv'
  <2>1. /\ Len(delivered') > 0 /\ Current' = f
        /\ parse_pc' = "parse"
        /\ parse_pos' = 1 /\ entry' = Scrape!NoEntry /\ in_entry' = FALSE
        /\ author' = Scrape!NoAuthor /\ in_author' = FALSE /\ author_id' = 0
    BY <1>1, Fetched DEF PlaceInv
  <2>2. arena' = Scrape!Document(f)
    BY <2>1 DEF Scrape!ParsesOneDocument, Scrape!Last, Current
  <2>3. PICK b : Laid(Scrape!Document(f), Len(f.entries), b, f)
    BY FeedFacts
  <2>4. b[0] \in Nat /\ 0 \in 0..Len(f.entries)
    BY <2>3, LaidFacts
  <2>5. Scrape!author_is_valid(f.author) => b[0] = 6
    BY <2>3 DEF Laid, Complete
  <2>6. InHeading(b, 0, f)' \/ AtBorder(b, 0, f)'
    <3>1. CASE b[0] = 0
      BY <2>1, <2>5, <3>1 DEF AtBorder
    <3>2. CASE b[0] # 0
      <4>1. parse_pos' \in 1..b[0]
        BY <2>1, <2>4, <3>2
      <4>2. Known(f, parse_pos)' /\ (in_author' <=> parse_pos' \in 3..5)
        BY <2>1 DEF Known
      <4> QED
        BY <2>1, <4>1, <4>2 DEF InHeading
    <3> QED
      BY <3>1, <3>2
  <2>7. \A g \in Scrape!AuthorField : author'[g] \in {Null, f.author[g]}
    BY <2>1 DEF Scrape!NoAuthor
  <2>8. ParseAt(b, 0, f)'
    BY <2>1, <2>2, <2>3, <2>4, <2>6, <2>7 DEF ParseAt
  <2> QED
    BY <2>1, <2>8 DEF PlaceInv
<1>2. ASSUME NEW f \in Feeds, Scrape!update_channel_failed(f)
      PROVE  PlaceInv'
  BY <1>2 DEF Scrape!update_channel_failed, PlaceInv
<1>3. CASE Scrape!Parse
  <2>1. parse_pc = "parse" /\ Len(delivered) > 0
    BY <1>3 DEF PlaceInv, Scrape!Parse, Scrape!parse_returns, Scrape!entry_begin, Scrape!entry_field,
           Scrape!find_author, Scrape!entry_end, Scrape!author_begin, Scrape!author_end,
           Scrape!author_field, Scrape!other_element, Scrape!Element_is
  <2>2. PICK b, n : ParseAt(b, n, Current)
    BY <2>1 DEF PlaceInv
  <2>3. PICK f : f = Current
    OBVIOUS
  <2>4. f \in Feeds
    BY <2>1, <2>3, CurrentFeed DEF PlaceInv
  <2>5. Moves(b, n, f)
    BY <1>3, <2>2, <2>3, <2>4, ParseMoves DEF PlaceInv
  <2>6. Current' = f /\ Len(delivered') > 0
    BY <2>1, <2>3, <2>5 DEF Moves, Current
  <2>7. parse_pc' = "link" \/ ParseAt(b, n, f)' \/ ParseAt(b, n + 1, f)'
    BY <2>5 DEF Moves, Returns_from, Goes_on
  <2> QED
    BY <2>6, <2>7 DEF PlaceInv
<1>4. CASE UNCHANGED <<channels, arena, parse_pc, links, parse_pos,
                       entry, in_entry, author, in_author, author_id, delivered>>
  <2>1. \A b, n, f : ParseAt(b, n, f) => ParseAt(b, n, f)'
    BY <1>4 DEF ParseAt, InHeading, AtBorder, InEntry, Given, Known
  <2> QED
    BY <1>4, <2>1 DEF PlaceInv, Current
<1> QED
  BY <1>1, <1>2, <1>3, <1>4, ScraperSteps


-----------------------------------------------------------------------------
(* The calls that parse makes *)

(* The table stays within the bounds of module Channels. *)
Room == Len(channels.authors) <= MaxAuthors /\ Len(channels.entries) <= MaxEntries

\* What the scraper may do to the table in a step.
LEMMA TableMoves ==
  ASSUME PlaceInv, [VidsNext]_vidsVars
  PROVE  \/ UNCHANGED channels
         \/ \E f \in Feeds : Finds(f)
         \/ \E f \in Feeds : \E n \in Nat : Adds(n, f)
<1>1. CASE Scrape!Parse
  <2>1. parse_pc = "parse" /\ Len(delivered) > 0
    BY <1>1 DEF PlaceInv, Scrape!Parse, Scrape!parse_returns, Scrape!entry_begin, Scrape!entry_field,
           Scrape!find_author, Scrape!entry_end, Scrape!author_begin, Scrape!author_end,
           Scrape!author_field, Scrape!other_element, Scrape!Element_is
  <2>2. PICK b, n : ParseAt(b, n, Current)
    BY <2>1 DEF PlaceInv
  <2>3. PICK f : f = Current
    OBVIOUS
  <2>4. f \in Feeds
    BY <2>1, <2>3, CurrentFeed DEF PlaceInv
  <2>5. Moves(b, n, f) /\ n \in Nat
    BY <1>1, <2>2, <2>3, <2>4, ParseMoves DEF PlaceInv, ParseAt
  <2> QED
    BY <2>4, <2>5 DEF Moves, Quiet
<1>2. CASE ~ Scrape!Parse
  BY <1>2, ScraperSteps DEF Scrape!update_channel, Scrape!update_channel_failed
<1> QED
  BY <1>1, <1>2

(* So it makes only the calls that module Channels describes. *)
LEMMA TableStep ==
  ASSUME PlaceInv, Room', [VidsNext]_vidsVars
  PROVE  [Scrape!Table!Next]_channels
<1>1. TP!IInv /\ author_id \in 0..Len(channels.authors) /\ Len(channels.authors) \in Nat
  BY DEF PlaceInv, FeedInv, Scrape!TypeOK, TP!IInv, TP!TypeOK
<1>2. MaxAuthors \in Nat /\ MaxEntries \in Nat
  BY VidsAssumption
<1>3. ASSUME NEW f \in Feeds, Finds(f), channels' # channels
      PROVE  Scrape!Table!Next
  <2>1. /\ Scrape!Table!channels_find_author(channels, f.author.uri) = 0
        /\ channels' = Scrape!Table!channels_add_author(channels, f.author)
        /\ Scrape!author_is_valid(f.author)
    BY <1>3 DEF Finds, Scrape!Found
  <2>2. f.author \in Valid
    BY <2>1, FeedFacts DEF Valid
  <2>3. Len(channels'.authors) = Len(channels.authors) + 1
    BY <1>1, <2>1, <2>2, TableAuthor
  <2>4. Len(channels.authors) < MaxAuthors
    BY <1>1, <1>2, <2>3 DEF Room
  <2>5. f.author \in Scrape!ValidAuthor
    BY <2>1 DEF Scrape!ValidAuthor
  <2> QED
    BY <2>1, <2>4, <2>5 DEF Scrape!Table!Next, Scrape!Table!NewAuthor
<1>4. ASSUME NEW f \in Feeds, NEW n \in Nat, Adds(n, f)
      PROVE  Scrape!Table!Next
  <2>1. /\ author_id # 0 /\ n < Len(f.entries)
        /\ channels' = Scrape!Table!channels_add_entry(channels, f.entries[n + 1], author_id)
    BY <1>4 DEF Adds
  <2>2. f.entries \in Seq(Scrape!Entry) /\ Len(f.entries) \in Nat
    BY FeedFacts, LenProperties
  <2>3. n + 1 \in 1..Len(f.entries)
    BY <2>1, <2>2
  <2>4. f.entries[n + 1] \in Scrape!SomeEntry
    BY <2>2, <2>3 DEF Scrape!SomeEntry, Scrape!ToSet
  <2>5. author_id \in 1..Len(channels.authors)
    BY <1>1, <2>1
  <2>6. Len(channels'.entries) = Len(channels.entries) + 1 /\ Len(channels.entries) \in Nat
    <3>1. f.entries[n + 1] \in Scrape!Entry
      BY <2>2, <2>3, ElementOfSeq
    <3> QED
      BY <1>1, <2>1, <2>5, <3>1, TableEntry
  <2>7. Len(channels.entries) < MaxEntries
    BY <1>2, <2>6 DEF Room
  <2> QED
    BY <2>1, <2>4, <2>5, <2>7 DEF Scrape!Table!Next, Scrape!Table!NewEntry
<1> QED
  BY <1>3, <1>4, TableMoves


-----------------------------------------------------------------------------
(* What feeds say *)

(* What a feed is: its author and its entries. *)
FeedRec == [author : Scrape!Author, entries : Seq(Scrape!Entry)]

(* g[k] is what the first k of the feeds d say; see Said of module Feed. *)
IsSaid(d, n, g) ==
  g = [k \in 0..n |-> IF k = 0 THEN <<>> ELSE Scrape!Merged(g[k - 1], d[k])]

(* Such a function exists, though its definition is recursive. *)
LEMMA SaidExists ==
  ASSUME NEW d, NEW n \in Nat
  PROVE  \E g : IsSaid(d, n, g)
<1> DEFINE Bad == {m \in 0..n : ~ \E g : IsSaid(d, m, g)}
<1> SUFFICES ASSUME Bad # {}
             PROVE  FALSE
  OBVIOUS
<1>1. PICK m \in Bad : \A y \in Bad : m <= y
  <2>1. Bad \in SUBSET Nat
    OBVIOUS
  <2> QED
    BY <2>1, MinIsLeast
<1>2. m \in 0..n /\ ~ \E g : IsSaid(d, m, g)
  BY <1>1
<1>3. m # 0
  <2> SUFFICES ASSUME m = 0
               PROVE  \E g : IsSaid(d, m, g)
    BY <1>2
  <2> DEFINE g == [k \in 0..0 |-> <<>>]
  <2>1. IsSaid(d, 0, g)
    BY DEF IsSaid
  <2> QED
    BY <2>1
<1>4. PICK g : IsSaid(d, m - 1, g)
  <2>1. m - 1 \notin Bad /\ m - 1 \in 0..n
    <3>1. ~ (m <= m - 1) /\ m - 1 \in 0..n
      BY <1>2, <1>3
    <3> HIDE DEF Bad
    <3> QED
      BY <1>1, <3>1
  <2> QED
    BY <2>1
<1> DEFINE h == [k \in 0..m |-> IF k = m THEN Scrape!Merged(g[m - 1], d[m]) ELSE g[k]]
<1>5. IsSaid(d, m, h)
  <2>1. m \in Nat /\ m >= 1
    BY <1>2, <1>3
  <2>2. ASSUME NEW k \in 0..m
        PROVE  h[k] = IF k = 0 THEN <<>> ELSE Scrape!Merged(h[k - 1], d[k])
    <3>1. CASE k = m
      <4>1. h[k - 1] = g[m - 1]
        BY <2>1, <3>1
      <4> QED
        BY <2>1, <3>1, <4>1
    <3>2. CASE k # m
      <4>1. k \in 0..m - 1 /\ h[k] = g[k]
        BY <2>1, <3>2
      <4>2. g[k] = IF k = 0 THEN <<>> ELSE Scrape!Merged(g[k - 1], d[k])
        BY <1>4, <4>1 DEF IsSaid
      <4>3. k # 0 => h[k - 1] = g[k - 1]
        BY <2>1, <4>1
      <4> QED
        BY <4>1, <4>2, <4>3
    <3> QED
      BY <3>1, <3>2
  <2> QED
    BY <2>2 DEF IsSaid
<1> QED
  BY <1>2, <1>5

(* Said is its last value. *)
LEMMA SaidIs ==
  ASSUME NEW d, Len(d) \in Nat
  PROVE  \E g : IsSaid(d, Len(d), g) /\ Scrape!Said(d) = g[Len(d)]
<1> DEFINE h == CHOOSE g :
                  g = [k \in 0..Len(d) |-> IF k = 0 THEN <<>> ELSE Scrape!Merged(g[k - 1], d[k])]
<1>1. \E g : g = [k \in 0..Len(d) |-> IF k = 0 THEN <<>> ELSE Scrape!Merged(g[k - 1], d[k])]
  BY SaidExists DEF IsSaid
<1>2. h = [k \in 0..Len(d) |-> IF k = 0 THEN <<>> ELSE Scrape!Merged(h[k - 1], d[k])]
  BY <1>1
<1>3. Scrape!Said(d) = h[Len(d)]
  BY DEF Scrape!Said
<1>4. IsSaid(d, Len(d), h)
  <2> HIDE DEF h
  <2> QED
    BY <1>2 DEF IsSaid
<1> QED
  BY <1>3, <1>4

(* d is where c starts. *)
Starts(c, d, n) == \A k \in 1..n : c[k] = d[k]

(* What feeds say does not depend on the feeds to come. *)
LEMMA SaidAgree ==
  ASSUME NEW n \in Nat, NEW m \in Nat, n <= m,
         NEW d, NEW g, IsSaid(d, n, g),
         NEW c, NEW h, IsSaid(c, m, h), Starts(c, d, n)
  PROVE  h[n] = g[n]
<1>0. SUFFICES \A k \in 0..n : h[k] = g[k]
  OBVIOUS
<1> DEFINE Bad == {k \in 0..n : h[k] # g[k]}
<1> SUFFICES ASSUME Bad # {}
             PROVE  FALSE
  OBVIOUS
<1>1. PICK k \in Bad : \A y \in Bad : k <= y
  <2>1. Bad \in SUBSET Nat
    OBVIOUS
  <2> QED
    BY <2>1, MinIsLeast
<1>2. k \in 0..n /\ k \in 0..m /\ h[k] # g[k]
  BY <1>1
<1>3. /\ g[k] = IF k = 0 THEN <<>> ELSE Scrape!Merged(g[k - 1], d[k])
      /\ h[k] = IF k = 0 THEN <<>> ELSE Scrape!Merged(h[k - 1], c[k])
  BY <1>2 DEF IsSaid
<1>4. k # 0
  BY <1>2, <1>3
<1>5. ~ (k <= k - 1) /\ k - 1 \in 0..n /\ k \in 1..n
  BY <1>2, <1>4
<1>6. k - 1 \notin Bad
  <2> HIDE DEF Bad
  <2> QED
    BY <1>1, <1>5
<1>7. h[k - 1] = g[k - 1] /\ c[k] = d[k]
  BY <1>5, <1>6 DEF Starts
<1> QED
  BY <1>2, <1>3, <1>4, <1>7

(* No feed says nothing, and one feed more is merged into what was said. *)
LEMMA SaidGrows ==
  /\ Scrape!Said(<<>>) = <<>>
  /\ \A d \in Seq(Feeds), f \in Feeds :
       Scrape!Said(Append(d, f)) = Scrape!Merged(Scrape!Said(d), f)
<1>1. Scrape!Said(<<>>) = <<>>
  <2>1. Len(<<>>) = 0 /\ Len(<<>>) \in Nat
    BY EmptySeq
  <2>2. PICK g : IsSaid(<<>>, 0, g) /\ Scrape!Said(<<>>) = g[0]
    BY <2>1, SaidIs
  <2> QED
    BY <2>2 DEF IsSaid
<1>2. ASSUME NEW d \in Seq(Feeds), NEW f \in Feeds
      PROVE  Scrape!Said(Append(d, f)) = Scrape!Merged(Scrape!Said(d), f)
  <2>1. PICK c : c = Append(d, f)
    OBVIOUS
  <2>2. /\ Len(d) \in Nat /\ Len(c) = Len(d) + 1 /\ c[Len(d) + 1] = f
        /\ \A k \in 1..Len(d) : c[k] = d[k]
    BY <2>1, AppendProperties, LenProperties
  <2>3. PICK g : IsSaid(d, Len(d), g) /\ Scrape!Said(d) = g[Len(d)]
    BY <2>2, SaidIs
  <2>4. PICK h : IsSaid(c, Len(c), h) /\ Scrape!Said(c) = h[Len(c)]
    BY <2>2, SaidIs
  <2>5. PICK n : n = Len(d)
    OBVIOUS
  <2>6. h[n] = g[n]
    <3>1. PICK m : m = Len(c)
      OBVIOUS
    <3>2. n \in Nat /\ m \in Nat /\ n <= m
      BY <2>2, <2>5, <3>1
    <3>3. IsSaid(d, n, g) /\ IsSaid(c, m, h) /\ Starts(c, d, n)
      BY <2>2, <2>3, <2>4, <2>5, <3>1 DEF Starts
    <3> QED
      BY <3>2, <3>3, SaidAgree
  <2>7. h[n + 1] = Scrape!Merged(h[n], c[n + 1])
    <3>1. n \in Nat /\ n + 1 \in 0..n + 1 /\ n + 1 # 0 /\ (n + 1) - 1 = n
      BY <2>2, <2>5
    <3>2. IsSaid(c, n + 1, h)
      BY <2>2, <2>4, <2>5
    <3>3. h[n + 1] = IF n + 1 = 0 THEN <<>> ELSE Scrape!Merged(h[(n + 1) - 1], c[n + 1])
      BY <3>1, <3>2 DEF IsSaid
    <3> QED
      BY <3>1, <3>3
  <2> QED
    BY <2>1, <2>2, <2>3, <2>4, <2>5, <2>6, <2>7
<1> QED
  BY <1>1, <1>2

(* No author twice. *)
Distinct(S) ==
  \A i, j \in 1..Len(S) : S[i].author.uri = S[j].author.uri => i = j

(* What feeds can say. *)
Lists == {S \in Seq(FeedRec) : Distinct(S)}

(* The author of f, if it was heard of before. *)
Same(S, f) == {k \in 1..Len(S) : S[k].author.uri = f.author.uri}

(* The author of f, without entries. *)
Fresh(f) == [author |-> f.author, entries |-> <<>>]

(* The two parts of a feed. *)
LEMMA FeedIsRec ==
  ASSUME NEW f \in FeedRec
  PROVE  /\ f.author \in Scrape!Author /\ f.entries \in Seq(Scrape!Entry)
         /\ f = [author |-> f.author, entries |-> f.entries]
         /\ Fresh(f) \in FeedRec
BY EmptySeq DEF FeedRec, Fresh

(* The parts of what feeds say. *)
LEMMA ListParts ==
  ASSUME NEW S \in Lists
  PROVE  /\ S \in Seq(FeedRec) /\ Len(S) \in Nat /\ Distinct(S)
         /\ \A k \in 1..Len(S) : S[k] \in FeedRec
BY LenProperties, ElementOfSeq DEF Lists

(* A new author keeps authors distinct. *)
LEMMA AppendFresh ==
  ASSUME NEW S \in Lists, NEW f \in FeedRec, Same(S, f) = {}
  PROVE  Append(S, f) \in Lists
<1>1. S \in Seq(FeedRec) /\ Len(S) \in Nat /\ Distinct(S)
  BY ListParts
<1>2. PICK T : T = Append(S, f)
  OBVIOUS
<1>3. /\ T \in Seq(FeedRec) /\ Len(T) = Len(S) + 1 /\ T[Len(S) + 1] = f
      /\ \A k \in 1..Len(S) : T[k] = S[k]
  BY <1>1, <1>2, AppendProperties
<1>4. \A k \in 1..Len(S) : S[k].author.uri # f.author.uri
  BY DEF Same
<1>5. Distinct(T)
  <2> SUFFICES ASSUME NEW i \in 1..Len(T), NEW j \in 1..Len(T), T[i].author.uri = T[j].author.uri
               PROVE  i = j
    BY DEF Distinct
  <2>1. CASE i \in 1..Len(S) /\ j \in 1..Len(S)
    BY <1>1, <1>3, <2>1 DEF Distinct
  <2>2. CASE i \in 1..Len(S) /\ j = Len(S) + 1
    BY <1>3, <1>4, <2>2
  <2>3. CASE i = Len(S) + 1 /\ j \in 1..Len(S)
    BY <1>3, <1>4, <2>3
  <2>4. CASE i = Len(S) + 1 /\ j = Len(S) + 1
    BY <2>4
  <2> QED
    BY <1>1, <1>3, <2>1, <2>2, <2>3, <2>4
<1> QED
  BY <1>2, <1>3, <1>5 DEF Lists

(* Merged, case by case. *)
LEMMA MergedIs ==
  ASSUME NEW S \in Lists, NEW f \in FeedRec
  PROVE  /\ ~ Scrape!author_is_valid(f.author) \/ f.entries = <<>> => Scrape!Merged(S, f) = S
         /\ Scrape!author_is_valid(f.author) /\ f.entries # <<>> /\ Same(S, f) = {} =>
              Scrape!Merged(S, f) = Append(S, f)
         /\ \A a \in Same(S, f) :
              Scrape!author_is_valid(f.author) /\ f.entries # <<>> =>
              /\ Scrape!Merged(S, f) \in Seq(FeedRec) /\ Len(Scrape!Merged(S, f)) = Len(S)
              /\ Scrape!Merged(S, f)[a] = [author |-> S[a].author, entries |-> S[a].entries \o f.entries]
              /\ \A k \in 1..Len(S) : k # a => Scrape!Merged(S, f)[k] = S[k]
<1>1. ASSUME ~ Scrape!author_is_valid(f.author) \/ f.entries = <<>>
      PROVE  Scrape!Merged(S, f) = S
  BY <1>1 DEF Scrape!Merged
<1>2. ASSUME Scrape!author_is_valid(f.author), f.entries # <<>>, Same(S, f) = {}
      PROVE  Scrape!Merged(S, f) = Append(S, f)
  BY <1>2 DEF Scrape!Merged, Same
<1>3. ASSUME NEW a \in Same(S, f), Scrape!author_is_valid(f.author), f.entries # <<>>
      PROVE  /\ Scrape!Merged(S, f) \in Seq(FeedRec) /\ Len(Scrape!Merged(S, f)) = Len(S)
             /\ Scrape!Merged(S, f)[a] = [author |-> S[a].author, entries |-> S[a].entries \o f.entries]
             /\ \A k \in 1..Len(S) : k # a => Scrape!Merged(S, f)[k] = S[k]
  <2>1. /\ S \in Seq(FeedRec) /\ Len(S) \in Nat /\ Distinct(S)
        /\ \A k \in 1..Len(S) : S[k] \in FeedRec
    BY ListParts
  <2>2. a \in 1..Len(S) /\ \A k \in Same(S, f) : k = a
    BY <1>3, <2>1 DEF Same, Distinct
  <2>3. (CHOOSE k \in Same(S, f) : TRUE) = a
    BY <1>3, <2>2
  <2>4. Scrape!Merged(S, f) = [S EXCEPT ![a].entries = @ \o f.entries]
    BY <1>3, <2>3 DEF Scrape!Merged, Same
  <2>5. PICK T : T = [S EXCEPT ![a].entries = @ \o f.entries]
    OBVIOUS
  <2>6. S[a] \in FeedRec /\ S[a].entries \o f.entries \in Seq(Scrape!Entry)
    <3>1. S[a] \in FeedRec /\ S[a].entries \in Seq(Scrape!Entry) /\ f.entries \in Seq(Scrape!Entry)
      BY <2>1, <2>2, FeedIsRec
    <3> QED
      BY <3>1, ConcatProperties
  <2>7. PICK es : es = S[a].entries \o f.entries
    OBVIOUS
  <2>8. T = [S EXCEPT ![a] = [S[a] EXCEPT !.entries = es]]
    BY <2>5, <2>7
  <2>9. PICK r : r = [S[a] EXCEPT !.entries = es]
    OBVIOUS
  <2>10. r = [author |-> S[a].author, entries |-> es] /\ r \in FeedRec
    BY <2>6, <2>7, <2>9 DEF FeedRec
  <2>11. T = [S EXCEPT ![a] = r]
    BY <2>8, <2>9
  <2>12. /\ T \in Seq(FeedRec) /\ Len(T) = Len(S) /\ T[a] = r
         /\ \A k \in 1..Len(S) : k # a => T[k] = S[k]
    BY <2>1, <2>2, <2>10, <2>11, ExceptSeq
  <2> QED
    BY <2>4, <2>5, <2>7, <2>10, <2>12
<1> QED
  BY <1>1, <1>2, <1>3

(* Merging keeps authors distinct. *)
LEMMA MergedInLists ==
  ASSUME NEW S \in Lists, NEW f \in FeedRec
  PROVE  Scrape!Merged(S, f) \in Lists
<1>1. CASE ~ Scrape!author_is_valid(f.author) \/ f.entries = <<>>
  BY <1>1, MergedIs
<1>2. CASE Scrape!author_is_valid(f.author) /\ f.entries # <<>> /\ Same(S, f) = {}
  BY <1>2, MergedIs, AppendFresh
<1>3. CASE Scrape!author_is_valid(f.author) /\ f.entries # <<>> /\ Same(S, f) # {}
  <2>1. PICK a \in Same(S, f) : TRUE
    BY <1>3
  <2>2. PICK T : T = Scrape!Merged(S, f)
    OBVIOUS
  <2>3. /\ T \in Seq(FeedRec) /\ Len(T) = Len(S)
        /\ T[a] = [author |-> S[a].author, entries |-> S[a].entries \o f.entries]
        /\ \A k \in 1..Len(S) : k # a => T[k] = S[k]
    BY <1>3, <2>2, MergedIs
  <2>4. \A k \in 1..Len(S) : T[k].author = S[k].author
    BY <2>3
  <2>5. Distinct(T)
    BY <2>3, <2>4, ListParts DEF Distinct
  <2> QED
    BY <2>2, <2>3, <2>5 DEF Lists
<1> QED
  BY <1>1, <1>2, <1>3


-----------------------------------------------------------------------------
(* The table, read back *)

(* What is read of an entry agrees with what was said of it; see ChannelList. *)
Agrees(r, e) == Scrape!Table!List!Agrees(r, e)

(* An author of the table has the entries of s and then n of es. *)
Row(r, s, es, n) ==
  /\ r.author = s.author
  /\ Len(r.entries) = Len(s.entries) + n
  /\ \A i \in 1..Len(s.entries) : Agrees(r.entries[i], s.entries[i])
  /\ \A i \in 1..n : Agrees(r.entries[Len(s.entries) + i], es[i])

(* The list read back from the table holds what was said, and no more. *)
Holds(L, S) ==
  Len(L) = Len(S) /\ \A k \in 1..Len(S) : Row(L[k], S[k], <<>>, 0)

(* What was said, with the author of f. *)
Base(S, f) == IF Same(S, f) = {} THEN Append(S, Fresh(f)) ELSE S

(* The table while parse reads f: author a has been found, and n of the    *)
(* entries of f have been added to it.                                     *)
Mid(L, S, f, n, a) ==
  IF a = 0 THEN Holds(L, S)
  ELSE /\ a \in Same(Base(S, f), f) /\ Len(L) = Len(Base(S, f))
       /\ \A k \in 1..Len(Base(S, f)) :
            Row(L[k], Base(S, f)[k], f.entries, IF k = a THEN n ELSE 0)

(* No entry of es: the row holds only what was said before. *)
LEMMA NoMore ==
  ASSUME NEW r, NEW s, NEW es
  PROVE  Row(r, s, es, 0) <=> Row(r, s, <<>>, 0)
<1>1. \A i \in 1..0 : FALSE
  OBVIOUS
<1> QED
  BY <1>1 DEF Row

(* With the author of f there is exactly one author of that uri. *)
LEMMA BaseParts ==
  ASSUME NEW S \in Lists, NEW f \in FeedRec
  PROVE  /\ Base(S, f) \in Lists
         /\ Same(S, f) # {} => Base(S, f) = S
         /\ Same(S, f) = {} =>
              /\ Len(Base(S, f)) = Len(S) + 1 /\ Base(S, f)[Len(S) + 1] = Fresh(f)
              /\ \A k \in 1..Len(S) : Base(S, f)[k] = S[k]
              /\ Same(Base(S, f), f) = {Len(S) + 1}
<1>1. Fresh(f) \in FeedRec /\ Fresh(f).author = f.author
  BY FeedIsRec DEF Fresh
<1>2. S \in Seq(FeedRec) /\ Len(S) \in Nat
  BY ListParts
<1>3. CASE Same(S, f) # {}
  BY <1>3 DEF Base
<1>4. CASE Same(S, f) = {}
  <2>1. PICK T : T = Append(S, Fresh(f))
    OBVIOUS
  <2>2. /\ Len(T) = Len(S) + 1 /\ T[Len(S) + 1] = Fresh(f)
        /\ \A k \in 1..Len(S) : T[k] = S[k]
    BY <1>1, <1>2, <2>1, AppendProperties
  <2>3. T \in Lists
    <3>1. Same(S, Fresh(f)) = {}
      BY <1>1, <1>4 DEF Same
    <3> QED
      BY <1>1, <2>1, <3>1, AppendFresh
  <2>4. Same(T, f) = {Len(S) + 1}
    <3>1. \A k \in 1..Len(S) : T[k].author.uri # f.author.uri
      BY <1>4, <2>2 DEF Same
    <3>2. T[Len(S) + 1].author.uri = f.author.uri
      BY <1>1, <2>2
    <3> QED
      BY <1>2, <2>2, <3>1, <3>2 DEF Same
  <2> QED
    BY <1>4, <2>1, <2>2, <2>3, <2>4 DEF Base
<1> QED
  BY <1>3, <1>4

\* All entries of f have been added.
LEMMA MidDone ==
  ASSUME NEW L, NEW S \in Lists, NEW f \in FeedRec, NEW a, a # 0,
         Mid(L, S, f, Len(f.entries), a),
         Scrape!author_is_valid(f.author), f.entries # <<>>
  PROVE  Holds(L, Scrape!Merged(S, f))
<1> DEFINE N == Len(f.entries)
<1>1. PICK T : T = Base(S, f)
  OBVIOUS
<1>2. PICK M : M = Scrape!Merged(S, f)
  OBVIOUS
<1>3. /\ a \in Same(T, f) /\ Len(L) = Len(T)
      /\ \A k \in 1..Len(T) : Row(L[k], T[k], f.entries, IF k = a THEN N ELSE 0)
  BY <1>1 DEF Mid
<1>4. N \in Nat /\ Len(S) \in Nat /\ f.entries \in Seq(Scrape!Entry)
  BY FeedIsRec, ListParts, LenProperties
<1>5. Row(L[a], T[a], f.entries, N) /\ a \in 1..Len(T)
  BY <1>3 DEF Same
<1>6. \A k \in 1..Len(T) : k # a => Row(L[k], T[k], <<>>, 0)
  BY <1>3, NoMore
<1> HIDE DEF N
<1>7. CASE Same(S, f) = {}
  <2>1. /\ Len(T) = Len(S) + 1 /\ T[Len(S) + 1] = Fresh(f) /\ a = Len(S) + 1
        /\ \A k \in 1..Len(S) : T[k] = S[k]
    BY <1>1, <1>3, <1>7, BaseParts
  <2>2. /\ Len(M) = Len(S) + 1 /\ M[Len(S) + 1] = f
        /\ \A k \in 1..Len(S) : M[k] = S[k]
    <3>1. M = Append(S, f) /\ S \in Seq(FeedRec)
      BY <1>2, <1>7, MergedIs, ListParts
    <3> QED
      BY <3>1, AppendProperties
  <2>3. Row(L[a], f, <<>>, 0)
    <3>1. Fresh(f).author = f.author /\ Fresh(f).entries = <<>> /\ Len(<<>>) = 0
      BY EmptySeq DEF Fresh
    <3>2. /\ L[a].author = f.author /\ Len(L[a].entries) = 0 + N
          /\ \A i \in 1..N : Agrees(L[a].entries[0 + i], f.entries[i])
      BY <1>5, <2>1, <3>1 DEF Row
    <3>3. Len(L[a].entries) = N + 0 /\ \A i \in 1..N : 0 + i = i
      BY <1>4, <3>2
    <3>4. \A i \in 1..0 : FALSE
      OBVIOUS
    <3> QED
      BY <3>2, <3>3, <3>4 DEF Row, N
  <2>4. \A k \in 1..Len(S) + 1 : Row(L[k], M[k], <<>>, 0)
    <3>1. \A k \in 1..Len(S) + 1 : k = a \/ (k # a /\ k \in 1..Len(S))
      BY <1>4, <2>1
    <3>2. \A k \in 1..Len(S) : k # a /\ k \in 1..Len(T)
      BY <1>4, <2>1
    <3> QED
      BY <1>6, <2>1, <2>2, <2>3, <3>1, <3>2
  <2> QED
    BY <1>2, <1>3, <2>1, <2>2, <2>4 DEF Holds
<1>8. CASE Same(S, f) # {}
  <2>1. T = S
    BY <1>1, <1>8, BaseParts
  <2>2. /\ Len(M) = Len(S)
        /\ M[a] = [author |-> S[a].author, entries |-> S[a].entries \o f.entries]
        /\ \A k \in 1..Len(S) : k # a => M[k] = S[k]
    BY <1>2, <1>3, <2>1, MergedIs
  <2>3. S[a] \in FeedRec /\ S[a].entries \in Seq(Scrape!Entry)
    BY <1>5, <2>1, ListParts, FeedIsRec
  <2>4. PICK es : es = S[a].entries \o f.entries
    OBVIOUS
  <2>5. PICK m : m = Len(S[a].entries)
    OBVIOUS
  <2>6. /\ m \in Nat /\ Len(es) = m + N
        /\ \A k \in 1..m + N : es[k] = IF k <= m THEN S[a].entries[k] ELSE f.entries[k - m]
    BY <1>4, <2>3, <2>4, <2>5, ConcatProperties, LenProperties DEF N
  <2>7. /\ L[a].author = S[a].author /\ Len(L[a].entries) = m + N
        /\ \A i \in 1..m : Agrees(L[a].entries[i], S[a].entries[i])
        /\ \A i \in 1..N : Agrees(L[a].entries[m + i], f.entries[i])
    BY <1>5, <2>1, <2>5 DEF Row
  <2>8. ASSUME NEW k \in 1..m + N
        PROVE  Agrees(L[a].entries[k], es[k])
    <3>1. CASE k <= m
      <4>1. k \in 1..m
        BY <2>6, <3>1
      <4> QED
        BY <2>6, <2>7, <3>1, <4>1
    <3>2. CASE ~ (k <= m)
      <4>1. k - m \in 1..N /\ m + (k - m) = k
        BY <1>4, <2>6, <3>2
      <4> QED
        BY <2>6, <2>7, <3>2, <4>1
    <3> QED
      BY <3>1, <3>2
  <2>9. Row(L[a], M[a], <<>>, 0)
    <3>1. M[a].author = S[a].author /\ M[a].entries = es
      <4>1. M[a] = [author |-> S[a].author, entries |-> es]
        BY <2>2, <2>4
      <4> QED
        BY ONLY <4>1
    <3>2. Len(L[a].entries) = Len(es) + 0
      BY <1>4, <2>6, <2>7
    <3>3. \A i \in 1..0 : FALSE
      OBVIOUS
    <3> QED
      BY <2>6, <2>7, <2>8, <3>1, <3>2, <3>3 DEF Row
  <2>10. \A k \in 1..Len(S) : Row(L[k], M[k], <<>>, 0)
    BY <1>6, <2>1, <2>2, <2>9
  <2> QED
    BY <1>2, <1>3, <2>1, <2>2, <2>10 DEF Holds
<1> QED
  BY <1>7, <1>8

(* What a reader of the table sees. *)
Readback == TP!ReadList(channels)

(* One row is read back for each author of the table. *)
LEMMA ReadbackParts ==
  ASSUME TP!IInv
  PROVE  /\ Len(Readback) = Len(channels.authors) /\ Len(channels.authors) \in Nat
         /\ \E X : Readback \in Seq(X)
         /\ \A i \in 1..Len(channels.authors) :
              /\ Readback[i].author = TP!ReadAuthor(channels, i)
              /\ Readback[i] = [author |-> Readback[i].author, entries |-> Readback[i].entries]
<1>1. Len(channels.authors) \in Nat
  BY TableAssumptions, TP!Components DEF TP!IInv
<1> DEFINE row(i) == [author |-> TP!ReadAuthor(channels, i), entries |-> TP!ReadRun(channels, i)]
<1>2. Readback = [i \in 1..Len(channels.authors) |-> row(i)]
  BY DEF Readback, TP!ReadList
<1>3. \A i \in 1..Len(channels.authors) :
        /\ Readback[i].author = TP!ReadAuthor(channels, i)
        /\ Readback[i] = [author |-> Readback[i].author, entries |-> Readback[i].entries]
  BY <1>2
<1> HIDE DEF row
<1> DEFINE X == {row(i) : i \in 1..Len(channels.authors)}
<1>4. Readback \in [1..Len(channels.authors) -> X]
  BY <1>2
<1> HIDE DEF X
<1>5. Readback \in Seq(X) /\ Len(Readback) = Len(channels.authors)
  BY <1>1, <1>4, IsASeq, LenProperties
<1> QED
  BY <1>1, <1>3, <1>5

(* An author found in the table is the one the feeds told of before. *)
LEMMA MidFound ==
  ASSUME TP!IInv, NEW S \in Lists, NEW f \in FeedRec, Holds(Readback, S),
         Scrape!Found(f.author.uri) # 0
  PROVE  Mid(Readback, S, f, 0, Scrape!Found(f.author.uri))
<1>1. PICK a : a = Scrape!Found(f.author.uri)
  OBVIOUS
<1>2. /\ a \in 1..Len(channels.authors)
      /\ TP!ReadAuthor(channels, a).uri = f.author.uri
  <2>1. Len(channels.authors) \in Nat
    BY ReadbackParts
  <2>2. a = TP!channels_find_author(channels, f.author.uri) /\ a # 0
    BY <1>1, SameTable DEF Scrape!Found
  <2> QED
    BY <2>1, <2>2, TableAssumptions, TP!FoundAuthor
<1>3. Len(S) = Len(channels.authors) /\ a \in 1..Len(S) /\ Readback[a].author.uri = f.author.uri
  BY <1>2, ReadbackParts DEF Holds
<1>4. S[a].author.uri = f.author.uri
  BY <1>3 DEF Holds, Row
<1>5. a \in Same(S, f) /\ Base(S, f) = S
  BY <1>3, <1>4, BaseParts DEF Same
<1>6. \A k \in 1..Len(S) : Row(Readback[k], S[k], f.entries, IF k = a THEN 0 ELSE 0)
  BY NoMore DEF Holds
<1> QED
  BY <1>1, <1>3, <1>5, <1>6 DEF Mid, Holds

(* An author added is one that no feed told of before. *)
LEMMA MidNew ==
  ASSUME TP!IInv, TP!IInv', NEW S \in Lists, NEW f \in FeedRec, Holds(Readback, S),
         Scrape!author_is_valid(f.author),
         Scrape!Found(f.author.uri) = 0,
         channels' = Scrape!Table!channels_add_author(channels, f.author)
  PROVE  Mid(Readback', S, f, 0, Len(channels.authors) + 1)
<1>1. f.author \in Valid
  BY FeedIsRec DEF Valid
<1>2. TP!List!NewAuthor(f.author)
  <2>1. TP!channels_find_author(channels, f.author.uri) = 0 /\ TP!AddsAuthor(f.author)
    BY SameTable DEF Scrape!Found, TP!AddsAuthor
  <2> QED
    BY <1>1, <2>1, TableAssumptions, TP!AddAuthorMaps
<1>3. /\ \A i \in 1..Len(Readback) : Readback[i].author.uri # f.author.uri
      /\ Readback' = Append(Readback, Fresh(f))
  BY <1>2 DEF TP!List!NewAuthor, Readback, Fresh
<1>4. Len(Readback) = Len(channels.authors) /\ Len(Readback) = Len(S) /\ Len(S) \in Nat
  BY ReadbackParts, ListParts DEF Holds
<1>5. /\ Len(Readback') = Len(S) + 1 /\ Readback'[Len(S) + 1] = Fresh(f)
      /\ \A k \in 1..Len(S) : Readback'[k] = Readback[k]
  <2>1. PICK X : Readback \in Seq(X)
    BY ReadbackParts
  <2>2. Readback \in Seq(X \cup {Fresh(f)})
    BY <2>1
  <2> QED
    BY <1>3, <1>4, <2>2, AppendProperties
<1>6. Same(S, f) = {}
  <2>1. \A i \in 1..Len(S) : S[i].author.uri # f.author.uri
    BY <1>3, <1>4 DEF Holds, Row
  <2> QED
    BY <2>1 DEF Same
<1>7. PICK T : T = Base(S, f)
  OBVIOUS
<1>8. /\ Len(T) = Len(S) + 1 /\ T[Len(S) + 1] = Fresh(f)
      /\ \A k \in 1..Len(S) : T[k] = S[k]
      /\ Same(T, f) = {Len(S) + 1}
  BY <1>6, <1>7, BaseParts
<1>9. ASSUME NEW k \in 1..Len(S) + 1
      PROVE  Row(Readback'[k], T[k], f.entries, 0)
  <2>1. CASE k \in 1..Len(S)
    <3>1. Row(Readback[k], S[k], <<>>, 0)
      BY <2>1 DEF Holds
    <3> QED
      BY <1>5, <1>8, <2>1, <3>1, NoMore
  <2>2. CASE k = Len(S) + 1
    <3>1. Row(Fresh(f), Fresh(f), <<>>, 0)
      <4>1. Fresh(f).entries = <<>> /\ Len(<<>>) = 0
        BY EmptySeq DEF Fresh
      <4>2. \A i \in 1..0 : FALSE
        OBVIOUS
      <4> QED
        BY <4>1, <4>2 DEF Row
    <3> QED
      BY <1>5, <1>8, <2>2, <3>1, NoMore
  <2> QED
    BY <1>4, <2>1, <2>2
<1>10. Len(S) + 1 # 0
  BY <1>4
<1> QED
  BY <1>4, <1>5, <1>7, <1>8, <1>9, <1>10 DEF Mid

(* An entry added is the next of the author found. *)
LEMMA MidEntry ==
  ASSUME TP!IInv, TP!IInv', NEW S \in Lists, NEW f \in FeedRec, NEW n \in Nat,
         n < Len(f.entries), author_id # 0, author_id \in 1..Len(channels.authors),
         Mid(Readback, S, f, n, author_id),
         channels' = Scrape!Table!channels_add_entry(channels, f.entries[n + 1], author_id)
  PROVE  Mid(Readback', S, f, n + 1, author_id)
<1>1. f.entries \in Seq(Scrape!Entry) /\ Len(f.entries) \in Nat
  BY FeedIsRec, LenProperties
<1>2. n + 1 \in 1..Len(f.entries)
  BY <1>1
<1>3. f.entries[n + 1] \in Scrape!Entry
  BY <1>1, <1>2, ElementOfSeq
<1>4. PICK e : e = f.entries[n + 1]
  OBVIOUS
<1>5. PICK a : a = author_id
  OBVIOUS
<1>6. TP!List!NewEntry(e, a)
  <2>1. TP!AddsEntry(e, a)
    BY <1>4, <1>5, SameTable DEF TP!AddsEntry
  <2> QED
    BY <1>3, <1>4, <1>5, <2>1, TableAssumptions, TP!AddEntryMaps
<1>7. PICK new : new = Readback'[a].entries
  OBVIOUS
<1>8. PICK old : old = Readback[a].entries
  OBVIOUS
<1>9. /\ Readback' = [Readback EXCEPT ![a].entries = new]
      /\ Len(new) = Len(old) + 1
      /\ \A k \in 1..Len(old) : new[k] = old[k]
      /\ Agrees(new[Len(old) + 1], e)
  BY <1>6, <1>7, <1>8 DEF TP!List!NewEntry, TP!List!Agrees, Agrees, Scrape!Table!List!Agrees, Readback
<1>10. PICK T : T = Base(S, f)
  OBVIOUS
<1>11. /\ a \in Same(T, f) /\ Len(Readback) = Len(T)
       /\ \A k \in 1..Len(T) : Row(Readback[k], T[k], f.entries, IF k = a THEN n ELSE 0)
  BY <1>5, <1>10 DEF Mid
<1>12. T \in Lists /\ Len(T) \in Nat /\ a \in 1..Len(T)
  BY <1>10, <1>11, BaseParts, ListParts DEF Same
<1>13. /\ Len(Readback') = Len(T) /\ Readback'[a].author = Readback[a].author
       /\ \A k \in 1..Len(T) : k # a => Readback'[k] = Readback[k]
  <2>1. PICK r : r = [Readback[a] EXCEPT !.entries = new]
    OBVIOUS
  <2>2. Readback' = [Readback EXCEPT ![a] = r]
    BY <1>9, <2>1
  <2>3. Readback[a] = [author |-> Readback[a].author, entries |-> Readback[a].entries]
    BY <1>11, <1>12, ReadbackParts
  <2>4. r.author = Readback[a].author
    BY <2>1, <2>3
  <2>5. PICK X : Readback \in Seq(X)
    BY ReadbackParts
  <2>6. Readback \in Seq(X \cup {r}) /\ a \in 1..Len(Readback)
    BY <1>11, <1>12, <2>5
  <2>7. PICK u : u = [Readback EXCEPT ![a] = r]
    OBVIOUS
  <2>8. /\ Len(u) = Len(Readback) /\ u[a] = r
        /\ \A k \in 1..Len(Readback) : k # a => u[k] = Readback[k]
    BY <2>6, <2>7, ExceptSeq
  <2> QED
    BY <1>11, <2>2, <2>4, <2>7, <2>8
<1>14. Row(Readback'[a], T[a], f.entries, n + 1)
  <2>1. PICK m : m = Len(T[a].entries)
    OBVIOUS
  <2>2. /\ Readback[a].author = T[a].author /\ Len(old) = m + n
        /\ \A i \in 1..m : Agrees(old[i], T[a].entries[i])
        /\ \A i \in 1..n : Agrees(old[m + i], f.entries[i])
    BY <1>8, <1>11, <1>12, <2>1 DEF Row
  <2>3. m \in Nat
    <3>1. T[a] \in FeedRec
      BY <1>12, ListParts
    <3>2. T[a].entries \in Seq(Scrape!Entry)
      BY <3>1, FeedIsRec
    <3> QED
      BY <2>1, <3>2, LenProperties
  <2>4. Len(new) = m + (n + 1)
    BY <1>9, <2>2, <2>3
  <2>5. \A i \in 1..m : Agrees(new[i], T[a].entries[i])
    <3>1. \A i \in 1..m : i \in 1..Len(old)
      BY <2>2, <2>3
    <3> QED
      BY <1>9, <2>2, <3>1
  <2>6. ASSUME NEW i \in 1..n + 1
        PROVE  Agrees(new[m + i], f.entries[i])
    <3>1. CASE i \in 1..n
      <4>1. m + i \in 1..Len(old)
        BY <2>2, <2>3, <3>1
      <4> QED
        BY <1>9, <2>2, <3>1, <4>1
    <3>2. CASE i = n + 1
      <4>1. m + i = Len(old) + 1
        BY <2>2, <2>3, <3>2
      <4> QED
        BY <1>4, <1>9, <3>2, <4>1
    <3> QED
      BY <3>1, <3>2
  <2> QED
    BY <1>7, <1>13, <2>1, <2>2, <2>4, <2>5, <2>6 DEF Row
<1>15. \A k \in 1..Len(T) : Row(Readback'[k], T[k], f.entries, IF k = a THEN n + 1 ELSE 0)
  BY <1>11, <1>13, <1>14
<1> QED
  BY <1>5, <1>10, <1>11, <1>13, <1>15 DEF Mid

(* Between two links the table reads back as what the feeds said, and      *)
(* inside parse it is on its way from what the earlier ones said.          *)
ListInv ==
  /\ FeedInv
  /\ parse_pc = "link" =>
       Scrape!Said(delivered) \in Lists /\ Holds(Readback, Scrape!Said(delivered))
  /\ parse_pc = "parse" =>
       /\ Len(delivered) > 0
       /\ \E d \in Seq(Feeds) :
            /\ delivered = Append(d, Current) /\ Scrape!Said(d) \in Lists
            /\ \E b, n : /\ ParseAt(b, n, Current)
                         /\ Mid(Readback, Scrape!Said(d), Current, n, author_id)

(* The feeds are such records. *)
LEMMA FeedsAreRec ==
  ASSUME NEW f \in Feeds
  PROVE  f \in FeedRec
BY VidsAssumption DEF FeedRec

(* An empty table holds what no feed said. *)
LEMMA ListInit ==
  ASSUME VidsInit
  PROVE  ListInv
<1>1. FeedInv
  BY FeedInit
<1>2. parse_pc = "link" /\ delivered = <<>> /\ Len(channels.authors) = 0
  BY EmptySeq DEF VidsInit, Scrape!Init, Scrape!Table!channels_create
<1>3. Scrape!Said(delivered) = <<>> /\ Len(<<>>) = 0 /\ <<>> \in Seq(FeedRec)
  BY <1>2, SaidGrows, EmptySeq
<1>4. \A k \in 1..0 : FALSE
  OBVIOUS
<1>5. <<>> \in Lists
  BY <1>3, <1>4 DEF Lists, Distinct
<1>6. Len(Readback) = 0
  BY <1>1, <1>2, ReadbackParts DEF FeedInv
<1>7. Holds(Readback, <<>>)
  BY <1>3, <1>4, <1>6 DEF Holds
<1> QED
  BY <1>1, <1>2, <1>3, <1>5, <1>7 DEF ListInv

\* update_channel delivers one more feed; the table is as before.
LEMMA ListFetch ==
  ASSUME ListInv, PlaceInv', NEW f \in Feeds, Scrape!update_channel(f), author_id' = 0
  PROVE  ListInv'
<1>1. /\ Len(delivered') > 0 /\ Current' = f /\ parse_pc = "link" /\ parse_pc' = "parse"
      /\ delivered' = Append(delivered, f) /\ UNCHANGED channels
  BY Fetched DEF ListInv
<1>2. PICK S : S = Scrape!Said(delivered)
  OBVIOUS
<1>3. S \in Lists /\ Holds(Readback, S) /\ delivered \in Seq(Feeds)
  BY <1>1, <1>2 DEF ListInv, FeedInv, Scrape!TypeOK
<1>4. \A n : Mid(Readback', S, f, n, author_id')
  BY <1>1, <1>3 DEF Mid, Readback
<1>5. \E b, n : ParseAt(b, n, Current)'
  BY <1>1 DEF PlaceInv
<1>6. FeedInv'
  BY DEF PlaceInv
<1> QED
  BY <1>1, <1>2, <1>3, <1>4, <1>5, <1>6 DEF ListInv

\* A step of parse; on the last the table holds what the feed said too.
LEMMA ListParse ==
  ASSUME ListInv, FeedInv', Scrape!Parse
  PROVE  ListInv'
<1>1. parse_pc = "parse" /\ Len(delivered) > 0
  BY DEF ListInv, Scrape!Parse, Scrape!parse_returns, Scrape!entry_begin, Scrape!entry_field,
     Scrape!find_author, Scrape!entry_end, Scrape!author_begin, Scrape!author_end,
     Scrape!author_field, Scrape!other_element, Scrape!Element_is
<1>2. PICK d \in Seq(Feeds) :
        /\ delivered = Append(d, Current) /\ Scrape!Said(d) \in Lists
        /\ \E b, n : /\ ParseAt(b, n, Current)
                     /\ Mid(Readback, Scrape!Said(d), Current, n, author_id)
  BY <1>1 DEF ListInv
<1>3. PICK b, n : /\ ParseAt(b, n, Current)
                  /\ Mid(Readback, Scrape!Said(d), Current, n, author_id)
  BY <1>2
<1>4. PICK f : f = Current
  OBVIOUS
<1>5. PICK S : S = Scrape!Said(d)
  OBVIOUS
<1>6. f \in Feeds /\ f \in FeedRec /\ S \in Lists
  BY <1>1, <1>2, <1>4, <1>5, CurrentFeed, FeedsAreRec DEF ListInv
<1>7. ParseAt(b, n, f) /\ Mid(Readback, S, f, n, author_id) /\ FeedInv
  BY <1>3, <1>4, <1>5 DEF ListInv
<1>8. Moves(b, n, f)
  BY <1>6, <1>7, ParseMoves
<1>9. /\ Current' = f /\ Len(delivered') > 0
      /\ delivered' = Append(d, f) /\ delivered = Append(d, f)
  BY <1>1, <1>2, <1>4, <1>8 DEF Moves, Current
<1>10. TP!IInv /\ TP!IInv'
  BY <1>7 DEF FeedInv
<1>11. /\ n \in 0..Len(f.entries) /\ Len(f.entries) \in Nat
       /\ author_id # 0 => Scrape!author_is_valid(f.author) /\ (n > 0 \/ in_entry)
       /\ n > 0 /\ Scrape!author_is_valid(f.author) => author_id # 0
       /\ in_entry => n < Len(f.entries)
  BY <1>7, LaidFacts DEF ParseAt, InHeading, AtBorder, InEntry
<1>12. ASSUME NEW m, ParseAt(b, m, f)', Mid(Readback', S, f, m, author_id')
       PROVE  ListInv'
  <2>1. parse_pc' = "parse"
    BY <1>12 DEF ParseAt
  <2> QED
    BY <1>2, <1>5, <1>6, <1>9, <1>12, <2>1 DEF ListInv
<1>13. CASE Quiet /\ Returns_from(n, f)
  <2>1. Readback' = Readback /\ parse_pc' = "link" /\ n = Len(f.entries)
    BY <1>13 DEF Quiet, Returns_from, Readback
  <2>2. Scrape!Said(delivered') = Scrape!Merged(S, f)
    BY <1>5, <1>6, <1>9, SaidGrows
  <2>3. Holds(Readback, Scrape!Merged(S, f))
    <3>1. CASE author_id = 0
      <4>1. Holds(Readback, S)
        BY <1>7, <3>1 DEF Mid
      <4>2. ~ Scrape!author_is_valid(f.author) \/ n = 0
        BY <1>11, <3>1
      <4>3. n = 0 => f.entries = <<>>
        <5>1. f.entries \in Seq(Scrape!Entry)
          BY <1>6, FeedIsRec
        <5> QED
          BY <2>1, <5>1, EmptySeq
      <4> QED
        BY <1>6, <4>1, <4>2, <4>3, MergedIs
    <3>2. CASE author_id # 0
      <4>1. Scrape!author_is_valid(f.author) /\ n > 0
        BY <1>11, <2>1, <3>2
      <4>2. f.entries # <<>>
        BY <2>1, <4>1, EmptySeq
      <4> QED
        BY <1>6, <1>7, <2>1, <3>2, <4>1, <4>2, MidDone
    <3> QED
      BY <3>1, <3>2
  <2>4. Scrape!Merged(S, f) \in Lists
    BY <1>6, MergedInLists
  <2> QED
    BY <2>1, <2>2, <2>3, <2>4 DEF ListInv
<1>14. CASE Quiet /\ Goes_on(b, n, f)
  <2>1. Mid(Readback', S, f, n, author_id')
    BY <1>7, <1>14 DEF Quiet, Readback
  <2> QED
    BY <1>12, <1>14, <2>1 DEF Goes_on
<1>15. CASE Finds(f) /\ Goes_on(b, n, f)
  <2>1. /\ author_id = 0 /\ Scrape!author_is_valid(f.author)
        /\ \/ /\ Scrape!Found(f.author.uri) # 0
              /\ author_id' = Scrape!Found(f.author.uri)
              /\ UNCHANGED channels
           \/ /\ Scrape!Found(f.author.uri) = 0
              /\ channels' = Scrape!Table!channels_add_author(channels, f.author)
              /\ author_id' = Len(channels.authors) + 1
    BY <1>15 DEF Finds
  <2>2. n = 0 /\ Holds(Readback, S)
    BY <1>7, <1>11, <2>1 DEF Mid
  <2>3. Mid(Readback', S, f, 0, author_id')
    <3>1. CASE Scrape!Found(f.author.uri) # 0
      <4>1. Readback' = Readback /\ author_id' = Scrape!Found(f.author.uri)
        BY <2>1, <3>1 DEF Readback
      <4> QED
        BY <1>6, <1>10, <2>2, <3>1, <4>1, MidFound
    <3>2. CASE Scrape!Found(f.author.uri) = 0
      BY <1>6, <1>10, <2>1, <2>2, <3>2, MidNew
    <3> QED
      BY <3>1, <3>2
  <2> QED
    BY <1>12, <1>15, <2>2, <2>3 DEF Goes_on
<1>16. CASE Quiet /\ author_id = 0 /\ Goes_on(b, n + 1, f)
  <2>1. Mid(Readback', S, f, n + 1, author_id')
    BY <1>7, <1>16 DEF Quiet, Readback, Mid
  <2> QED
    BY <1>12, <1>16, <2>1 DEF Goes_on
<1>17. CASE Adds(n, f) /\ Goes_on(b, n + 1, f)
  <2>1. /\ author_id # 0 /\ n < Len(f.entries) /\ author_id' = author_id
        /\ channels' = Scrape!Table!channels_add_entry(channels, f.entries[n + 1], author_id)
    BY <1>17 DEF Adds
  <2>2. author_id \in 1..Len(channels.authors)
    <3>1. author_id \in 0..Len(channels.authors)
      BY <1>7 DEF FeedInv, Scrape!TypeOK
    <3>2. Len(channels.authors) \in Nat
      BY <1>10, ReadbackParts
    <3> QED
      BY <2>1, <3>1, <3>2
  <2>3. n \in Nat
    BY <1>11
  <2>4. Mid(Readback', S, f, n + 1, author_id)
    BY <1>6, <1>7, <1>10, <2>1, <2>2, <2>3, MidEntry
  <2> QED
    BY <1>12, <1>17, <2>1, <2>4 DEF Goes_on
<1> QED
  BY <1>8, <1>13, <1>14, <1>15, <1>16, <1>17 DEF Moves

(* So does every step of vids.c. *)
LEMMA ListStep ==
  ASSUME ListInv, PlaceInv', [VidsNext]_vidsVars
  PROVE  ListInv'
<1>1. ASSUME NEW f \in Feeds, Scrape!update_channel(f)
      PROVE  ListInv'
  <2>1. author_id' = 0
    BY <1>1, Fetched DEF ListInv
  <2> QED
    BY <1>1, <2>1, ListFetch
<1>2. ASSUME NEW f \in Feeds, Scrape!update_channel_failed(f)
      PROVE  ListInv'
  <2>1. parse_pc = "link" /\ UNCHANGED <<parse_pc, channels, delivered>>
    BY <1>2 DEF Scrape!update_channel_failed
  <2> QED
    BY <2>1 DEF ListInv, PlaceInv, Readback
<1>3. CASE Scrape!Parse
  BY <1>3, ListParse DEF PlaceInv
<1>4. CASE UNCHANGED <<channels, arena, parse_pc, links, parse_pos,
                       entry, in_entry, author, in_author, author_id, delivered>>
  <2>1. \A b, n, f : ParseAt(b, n, f) => ParseAt(b, n, f)'
    BY <1>4 DEF ParseAt, InHeading, AtBorder, InEntry, Given, Known
  <2>2. Readback' = Readback /\ Current' = Current
    BY <1>4 DEF Readback, Current
  <2>3. FeedInv'
    BY DEF PlaceInv
  <2>4. CASE parse_pc = "parse"
    <3>1. parse_pc' = "parse" /\ Len(delivered') > 0
      BY <1>4, <2>4 DEF ListInv
    <3>2. PICK d \in Seq(Feeds) :
            /\ delivered = Append(d, Current) /\ Scrape!Said(d) \in Lists
            /\ \E b, n : /\ ParseAt(b, n, Current)
                         /\ Mid(Readback, Scrape!Said(d), Current, n, author_id)
      BY <2>4 DEF ListInv
    <3>3. PICK b, n : /\ ParseAt(b, n, Current)
                      /\ Mid(Readback, Scrape!Said(d), Current, n, author_id)
      BY <3>2
    <3>4. ParseAt(b, n, Current)'
      BY <2>1, <2>2, <3>3
    <3>5. Mid(Readback', Scrape!Said(d), Current', n, author_id') /\ delivered' = Append(d, Current')
      BY <1>4, <2>2, <3>2, <3>3
    <3> QED
      BY <2>3, <3>1, <3>2, <3>4, <3>5 DEF ListInv
  <2>5. CASE parse_pc # "parse"
    BY <1>4, <2>2, <2>3, <2>5 DEF ListInv
  <2> QED
    BY <2>4, <2>5
<1> QED
  BY <1>1, <1>2, <1>3, <1>4, ScraperSteps

(* The invariant of the proof says what the property says. *)
LEMMA ListIsSaid ==
  ASSUME ListInv
  PROVE  Scrape!TableIsWhatFeedsSaid
<1> SUFFICES ASSUME parse_pc = "link"
             PROVE  LET list == Scrape!Table!ReadList(channels)
                        said == Scrape!Said(delivered)
                    IN  /\ Len(list) = Len(said)
                        /\ \A k \in 1..Len(list) :
                             /\ list[k].author = said[k].author
                             /\ Len(list[k].entries) = Len(said[k].entries)
                             /\ \A n \in 1..Len(list[k].entries) :
                                  Scrape!Table!List!Agrees(list[k].entries[n], said[k].entries[n])
  BY DEF Scrape!TableIsWhatFeedsSaid
<1>1. PICK list : list = Scrape!Table!ReadList(channels)
  OBVIOUS
<1>2. PICK said : said = Scrape!Said(delivered)
  OBVIOUS
<1>3. said \in Lists /\ Holds(list, said)
  <2>1. list = Readback
    BY <1>1, SameReading DEF Readback
  <2> QED
    BY <1>2, <2>1 DEF ListInv
<1>4. ASSUME NEW k \in 1..Len(said)
      PROVE  /\ list[k].author = said[k].author
             /\ Len(list[k].entries) = Len(said[k].entries)
             /\ \A n \in 1..Len(list[k].entries) :
                  Scrape!Table!List!Agrees(list[k].entries[n], said[k].entries[n])
  <2>1. said[k].entries \in Seq(Scrape!Entry)
    BY <1>3, ListParts, FeedIsRec
  <2>2. Len(said[k].entries) \in Nat
    BY <2>1, LenProperties
  <2>3. Row(list[k], said[k], <<>>, 0)
    BY <1>3 DEF Holds
  <2>4. /\ list[k].author = said[k].author
        /\ Len(list[k].entries) = Len(said[k].entries) + 0
        /\ \A i \in 1..Len(said[k].entries) : Agrees(list[k].entries[i], said[k].entries[i])
    BY <2>3 DEF Row
  <2> QED
    BY <2>2, <2>4 DEF Agrees
<1>5. Len(list) = Len(said)
  BY <1>3 DEF Holds
<1> QED
  BY <1>1, <1>2, <1>4, <1>5


-----------------------------------------------------------------------------
(* From the table to the page *)

(* g[k] are the feeds that the first k of the links led to; see Reached. *)
IsReached(l, ok, n, g) ==
  g = [k \in 0..n |-> IF k = 0 THEN <<>>
                      ELSE IF ok[k] THEN Append(g[k - 1], FeedAt[l[k]]) ELSE g[k - 1]]

(* Such a function exists, though its definition is recursive. *)
LEMMA ReachedExists ==
  ASSUME NEW l, NEW ok, NEW n \in Nat
  PROVE  \E g : IsReached(l, ok, n, g)
<1> DEFINE Bad == {m \in 0..n : ~ \E g : IsReached(l, ok, m, g)}
<1> SUFFICES ASSUME Bad # {}
             PROVE  FALSE
  OBVIOUS
<1>1. PICK m \in Bad : \A y \in Bad : m <= y
  <2>1. Bad \in SUBSET Nat
    OBVIOUS
  <2> QED
    BY <2>1, MinIsLeast
<1>2. m \in 0..n /\ ~ \E g : IsReached(l, ok, m, g)
  BY <1>1
<1>3. m # 0
  <2> SUFFICES ASSUME m = 0
               PROVE  \E g : IsReached(l, ok, m, g)
    BY <1>2
  <2> DEFINE g == [k \in 0..0 |-> <<>>]
  <2>1. IsReached(l, ok, 0, g)
    BY DEF IsReached
  <2> QED
    BY <2>1
<1>4. PICK g : IsReached(l, ok, m - 1, g)
  <2>1. m - 1 \notin Bad /\ m - 1 \in 0..n
    <3>1. ~ (m <= m - 1) /\ m - 1 \in 0..n
      BY <1>2, <1>3
    <3> HIDE DEF Bad
    <3> QED
      BY <1>1, <3>1
  <2> QED
    BY <2>1
<1> DEFINE next(g0) == IF ok[m] THEN Append(g0, FeedAt[l[m]]) ELSE g0
           h == [k \in 0..m |-> IF k = m THEN next(g[m - 1]) ELSE g[k]]
<1>5. IsReached(l, ok, m, h)
  <2>1. m \in Nat /\ m >= 1
    BY <1>2, <1>3
  <2>2. ASSUME NEW k \in 0..m
        PROVE  h[k] = IF k = 0 THEN <<>>
                      ELSE IF ok[k] THEN Append(h[k - 1], FeedAt[l[k]]) ELSE h[k - 1]
    <3>1. CASE k = m
      <4>1. h[k - 1] = g[m - 1]
        BY <2>1, <3>1
      <4> QED
        BY <2>1, <3>1, <4>1
    <3>2. CASE k # m
      <4>1. k \in 0..m - 1 /\ h[k] = g[k]
        BY <2>1, <3>2
      <4>2. g[k] = IF k = 0 THEN <<>>
                   ELSE IF ok[k] THEN Append(g[k - 1], FeedAt[l[k]]) ELSE g[k - 1]
        BY <1>4, <4>1 DEF IsReached
      <4>3. k # 0 => h[k - 1] = g[k - 1]
        BY <2>1, <4>1
      <4> QED
        BY <4>1, <4>2, <4>3
    <3> QED
      BY <3>1, <3>2
  <2> QED
    BY <2>2 DEF IsReached
<1> QED
  BY <1>2, <1>5

(* Reached is its last value. *)
LEMMA ReachedIs ==
  ASSUME NEW l, NEW ok, Len(l) \in Nat
  PROVE  \E g : IsReached(l, ok, Len(l), g) /\ Reached(l, ok) = g[Len(l)]
<1> DEFINE F(g) == [k \in 0..Len(l) |->
                     IF k = 0 THEN <<>>
                     ELSE IF ok[k] THEN Append(g[k - 1], FeedAt[l[k]]) ELSE g[k - 1]]
           h == CHOOSE g : g = F(g)
<1>1. \E g : g = F(g)
  <2>1. PICK g : IsReached(l, ok, Len(l), g)
    BY ReachedExists
  <2>2. g = F(g)
    BY <2>1 DEF IsReached
  <2> QED
    BY <2>2
<1>2. h = F(h)
  BY <1>1
<1>3. Reached(l, ok) = h[Len(l)]
  BY DEF Reached
<1>4. IsReached(l, ok, Len(l), h)
  <2> HIDE DEF h
  <2> QED
    BY <1>2 DEF IsReached
<1> QED
  BY <1>3, <1>4

(* The links to come change nothing. *)
LEMMA ReachedAgree ==
  ASSUME NEW n \in Nat, NEW m \in Nat, n <= m,
         NEW l, NEW ok, NEW g, IsReached(l, ok, n, g),
         NEW l2, NEW ok2, NEW h, IsReached(l2, ok2, m, h),
         Starts(l2, l, n), Starts(ok2, ok, n)
  PROVE  h[n] = g[n]
<1>0. SUFFICES \A k \in 0..n : h[k] = g[k]
  OBVIOUS
<1> DEFINE Bad == {k \in 0..n : h[k] # g[k]}
<1> SUFFICES ASSUME Bad # {}
             PROVE  FALSE
  OBVIOUS
<1>1. PICK k \in Bad : \A y \in Bad : k <= y
  <2>1. Bad \in SUBSET Nat
    OBVIOUS
  <2> QED
    BY <2>1, MinIsLeast
<1>2. k \in 0..n /\ k \in 0..m /\ h[k] # g[k]
  BY <1>1
<1>3. /\ g[k] = IF k = 0 THEN <<>>
                ELSE IF ok[k] THEN Append(g[k - 1], FeedAt[l[k]]) ELSE g[k - 1]
      /\ h[k] = IF k = 0 THEN <<>>
                ELSE IF ok2[k] THEN Append(h[k - 1], FeedAt[l2[k]]) ELSE h[k - 1]
  BY <1>2 DEF IsReached
<1>4. k # 0
  BY <1>2, <1>3
<1>5. ~ (k <= k - 1) /\ k - 1 \in 0..n /\ k \in 1..n
  BY <1>2, <1>4
<1>6. k - 1 \notin Bad
  <2> HIDE DEF Bad
  <2> QED
    BY <1>1, <1>5
<1>7. h[k - 1] = g[k - 1] /\ l2[k] = l[k] /\ ok2[k] = ok[k]
  BY <1>5, <1>6 DEF Starts
<1> QED
  BY <1>2, <1>3, <1>4, <1>7

(* One link more leads to one feed more, or to none if it failed. *)
LEMMA ReachedGrows ==
  ASSUME NEW S, NEW l \in Seq(S), NEW x \in S, NEW ok \in Seq(BOOLEAN), NEW b \in BOOLEAN,
         Len(ok) = Len(l)
  PROVE  Reached(Append(l, x), Append(ok, b)) =
           IF b THEN Append(Reached(l, ok), FeedAt[x]) ELSE Reached(l, ok)
<1>1. PICK l2 : l2 = Append(l, x)
  OBVIOUS
<1>2. PICK ok2 : ok2 = Append(ok, b)
  OBVIOUS
<1>3. PICK n : n = Len(l)
  OBVIOUS
<1>4. /\ n \in Nat /\ Len(l2) = n + 1 /\ l2[n + 1] = x /\ Starts(l2, l, n)
  BY <1>1, <1>3, AppendProperties, LenProperties DEF Starts
<1>5. ok2[n + 1] = b /\ Starts(ok2, ok, n)
  BY <1>2, <1>3, AppendProperties DEF Starts
<1>6. PICK g : IsReached(l, ok, n, g) /\ Reached(l, ok) = g[n]
  BY <1>3, <1>4, ReachedIs
<1>7. PICK h : IsReached(l2, ok2, n + 1, h) /\ Reached(l2, ok2) = h[n + 1]
  <2>1. Len(l2) \in Nat
    BY <1>4
  <2>2. PICK h : IsReached(l2, ok2, Len(l2), h) /\ Reached(l2, ok2) = h[Len(l2)]
    BY <2>1, ReachedIs
  <2> QED
    BY <1>4, <2>2
<1>8. h[n] = g[n]
  <2>1. n + 1 \in Nat /\ n <= n + 1
    BY <1>4
  <2> QED
    BY <1>4, <1>5, <1>6, <1>7, <2>1, ReachedAgree
<1>9. h[n + 1] = IF b THEN Append(h[n], FeedAt[x]) ELSE h[n]
  <2>1. n + 1 \in 0..n + 1 /\ n + 1 # 0 /\ (n + 1) - 1 = n
    BY <1>4
  <2>2. h[n + 1] = IF n + 1 = 0 THEN <<>>
                   ELSE IF ok2[n + 1] THEN Append(h[(n + 1) - 1], FeedAt[l2[n + 1]])
                   ELSE h[(n + 1) - 1]
    BY <1>7, <2>1 DEF IsReached
  <2> QED
    BY <1>4, <1>5, <2>1, <2>2
<1> QED
  BY <1>1, <1>2, <1>6, <1>7, <1>8, <1>9

(* No link leads to no feed. *)
LEMMA ReachedNone == Reached(<<>>, <<>>) = <<>>
<1>1. Len(<<>>) = 0 /\ Len(<<>>) \in Nat
  BY EmptySeq
<1>2. PICK g : IsReached(<<>>, <<>>, 0, g) /\ Reached(<<>>, <<>>) = g[0]
  BY <1>1, ReachedIs
<1> QED
  BY <1>2 DEF IsReached

(* o cuts a sequence into n runs as long as the elements of es. *)
Runs(o, es, n) ==
  /\ \A k \in 1..n + 1 : o[k] \in Nat
  /\ o[1] = 0
  /\ \A i, j \in 1..n + 1 : i <= j => o[i] <= o[j]
  /\ \A k \in 1..n : o[k + 1] = o[k] + Len(es[k])

(* The first m elements of es are the first m runs of u. *)
InRuns(u, es, m, o, X) ==
  /\ u \in Seq(X) /\ Len(u) = o[m + 1]
  /\ \A k \in 1..m : \A i \in 1..Len(es[k]) : u[o[k] + i] = es[k][i]

(* The next run, put behind the others. *)
LEMMA OneRunMore ==
  ASSUME NEW X, NEW n \in Nat, NEW m \in Nat, m + 1 <= n, NEW o, NEW es, Runs(o, es, n),
         \A k \in 1..n : es[k] \in Seq(X), NEW u, InRuns(u, es, m, o, X)
  PROVE  InRuns(u \o es[m + 1], es, m + 1, o, X)
<1>1. PICK t : t = es[m + 1]
  OBVIOUS
<1>2. PICK v : v = u \o t
  OBVIOUS
<1>3. m + 1 \in 1..n /\ m + 1 \in 1..n + 1 /\ (m + 1) + 1 \in 1..n + 1
  OBVIOUS
<1>4. u \in Seq(X) /\ t \in Seq(X) /\ Len(u) = o[m + 1]
  BY <1>1, <1>3 DEF InRuns
<1>5. /\ v \in Seq(X) /\ Len(u) \in Nat /\ Len(t) \in Nat /\ Len(v) = Len(u) + Len(t)
      /\ \A k \in 1..Len(u) : v[k] = u[k]
      /\ \A k \in 1..Len(t) : v[Len(u) + k] = t[k]
  <2>1. /\ u \o t \in Seq(X) /\ Len(u) \in Nat /\ Len(t) \in Nat /\ Len(u \o t) = Len(u) + Len(t)
        /\ \A k \in 1..Len(u) : (u \o t)[k] = u[k]
        /\ \A k \in 1..Len(t) : (u \o t)[Len(u) + k] = t[k]
    <3>0. u \in Seq(X) /\ t \in Seq(X)
      BY <1>4
    <3>1. /\ u \o t \in Seq(X)
          /\ Len(u) \in Nat /\ Len(t) \in Nat /\ Len(u \o t) = Len(u) + Len(t)
      BY <3>0, Joined
    <3>2. \A k \in 1..Len(u) : k \in 1..Len(u \o t) /\ (u \o t)[k] = u[k]
      BY <3>0, Joined
    <3>3. \A k \in 1..Len(t) : Len(u) + k \in 1..Len(u \o t) /\ (u \o t)[Len(u) + k] = t[k]
      BY <3>0, Joined
    <3> QED
      BY <3>1, <3>2, <3>3
  <2> QED
    BY <1>2, <2>1
<1>6. Len(v) = o[(m + 1) + 1]
  BY <1>1, <1>3, <1>4, <1>5 DEF Runs
<1>7. ASSUME NEW k \in 1..m + 1, NEW i \in 1..Len(es[k])
      PROVE  v[o[k] + i] = es[k][i]
  <2>1. CASE k = m + 1
    <3>1. i \in 1..Len(t) /\ es[k] = t /\ o[k] = Len(u)
      BY <1>1, <1>4, <2>1
    <3>2. v[Len(u) + i] = t[i]
      BY <1>5, <3>1
    <3> QED
      BY <3>1, <3>2
  <2>2. CASE k # m + 1
    <3>1. k \in 1..m /\ k \in 1..n /\ k \in 1..n + 1 /\ k + 1 \in 1..n + 1 /\ k + 1 <= m + 1
      BY <2>2
    <3>2. PICK len : len = Len(es[k])
      OBVIOUS
    <3>3. o[k] \in Nat /\ o[k + 1] \in Nat /\ o[m + 1] \in Nat
      BY <1>3, <3>1 DEF Runs
    <3>4. o[k + 1] = o[k] + len /\ o[k + 1] <= o[m + 1]
      BY <1>3, <3>1, <3>2 DEF Runs
    <3>5. len \in Nat
      <4>1. es[k] \in Seq(X)
        BY <3>1
      <4> QED
        BY <3>2, <4>1, LenProperties
    <3>6. i \in 1..len
      BY <3>2
    <3>7. o[k] + i \in 1..Len(u)
      <4>1. PICK p, q, r : p = o[k] /\ q = o[k + 1] /\ r = o[m + 1]
        OBVIOUS
      <4>2. /\ p \in Nat /\ q \in Nat /\ r \in Nat /\ q = p + len /\ q <= r
            /\ r = Len(u)
        BY <1>4, <3>3, <3>4, <4>1
      <4>3. p + i \in 1..r
        BY <3>5, <3>6, <4>2
      <4> QED
        BY <4>1, <4>2, <4>3
    <3>8. u[o[k] + i] = es[k][i]
      BY <3>1 DEF InRuns
    <3> QED
      BY <1>5, <3>7, <3>8
  <2> QED
    BY <2>1, <2>2
<1> QED
  BY <1>1, <1>2, <1>5, <1>6, <1>7 DEF InRuns

(* Sequences flattened are their runs. *)
LEMMA FlattenRuns ==
  ASSUME NEW X, NEW n \in Nat, NEW es, Len(es) = n, es \in Seq(Seq(X)),
         NEW o, Runs(o, es, n)
  PROVE  InRuns(FlattenSeq(es), es, n, o, X)
<1>1. \A k \in 1..n : es[k] \in Seq(X)
  BY ElementOfSeq
<1>2. CASE n = 0
  <2>1. es = <<>>
    BY <1>2, EmptySeq
  <2>2. FlattenSeq(es) = <<>>
    BY <1>2, <2>1 DEF FlattenSeq
  <2>3. o[0 + 1] = 0 /\ Len(<<>>) = 0 /\ <<>> \in Seq(X)
    BY EmptySeq DEF Runs
  <2>4. \A k \in 1..0 : FALSE
    OBVIOUS
  <2> QED
    BY <1>2, <2>2, <2>3, <2>4 DEF InRuns
<1>3. CASE n # 0
  <2>1. PICK g : IsJoined(es, n, g) /\ FlattenSeq(es) = g[n]
    BY <1>3, FlattenIsJoined
  <2>2. \A i \in 1..n : g[i] = IF i = 1 THEN es[i] ELSE g[i - 1] \o es[i]
    BY <2>1 DEF IsJoined
  <2> DEFINE Bad == {m \in 1..n : ~ InRuns(g[m], es, m, o, X)}
  <2>3. ASSUME Bad # {}
        PROVE  FALSE
    <3>1. PICK m \in Bad : \A y \in Bad : m <= y
      <4>1. Bad \in SUBSET Nat
        OBVIOUS
      <4> HIDE DEF Bad
      <4> QED
        BY <2>3, <4>1, MinIsLeast
    <3>2. m \in 1..n /\ ~ InRuns(g[m], es, m, o, X)
      BY <3>1
    <3>3. CASE m = 1
      <4>1. g[1] = es[1] /\ 1 \in 1..n /\ 0 + 1 <= n
        BY <2>2, <3>2, <3>3
      <4>2. InRuns(<<>>, es, 0, o, X)
        <5>1. o[0 + 1] = 0 /\ Len(<<>>) = 0 /\ <<>> \in Seq(X)
          BY EmptySeq DEF Runs
        <5>2. \A k \in 1..0 : FALSE
          OBVIOUS
        <5> QED
          BY <5>1, <5>2 DEF InRuns
      <4>3. InRuns(<<>> \o es[0 + 1], es, 0 + 1, o, X)
        BY <1>1, <4>1, <4>2, OneRunMore
      <4>4. <<>> \o es[1] = es[1]
        BY <1>1, <4>1, ConcatEmptySeq
      <4> QED
        BY <3>2, <3>3, <4>1, <4>3, <4>4
    <3>4. CASE m # 1
      <4>1. m - 1 \in 1..n /\ m - 1 \in Nat /\ (m - 1) + 1 = m /\ m <= n /\ ~ (m <= m - 1)
        BY <3>2, <3>4
      <4>2. InRuns(g[m - 1], es, m - 1, o, X)
        <5>1. m - 1 \notin Bad
          <6> HIDE DEF Bad
          <6> QED
            BY <3>1, <4>1
        <5> QED
          BY <4>1, <5>1
      <4>3. InRuns(g[m - 1] \o es[(m - 1) + 1], es, (m - 1) + 1, o, X)
        <5>1. (m - 1) + 1 <= n
          BY <4>1
        <5> QED
          BY <1>1, <4>1, <4>2, <5>1, OneRunMore
      <4>4. g[m] = g[m - 1] \o es[m]
        BY <2>2, <3>2, <3>4
      <4> QED
        BY <3>2, <4>1, <4>3, <4>4
    <3> QED
      BY <3>3, <3>4
  <2>4. n \in 1..n
    BY <1>3
  <2> QED
    BY <2>1, <2>3, <2>4
<1> QED
  BY <1>2, <1>3

(* Every place of what the runs cover is in one of them. *)
LEMMA InSomeRun ==
  ASSUME NEW n \in Nat, NEW o, NEW es, Runs(o, es, n), NEW j \in 1..o[n + 1],
         \A k \in 1..n : Len(es[k]) \in Nat
  PROVE  \E k \in 1..n : j - o[k] \in 1..Len(es[k]) /\ o[k] + (j - o[k]) = j
<1> DEFINE Reach == {k \in 1..n + 1 : j <= o[k]}
<1>1. n + 1 \in 1..n + 1 /\ o[n + 1] \in Nat /\ j \in Nat /\ j >= 1 /\ j <= o[n + 1]
  BY DEF Runs
<1>2. PICK m \in Reach : \A y \in Reach : m <= y
  <2>1. Reach \in SUBSET Nat /\ Reach # {}
    BY <1>1
  <2> QED
    BY <2>1, MinIsLeast
<1>3. m \in 1..n + 1 /\ j <= o[m]
  BY <1>2
<1>4. m # 1
  BY <1>1, <1>3 DEF Runs
<1>5. PICK k : k = m - 1
  OBVIOUS
<1>6. k \in 1..n /\ k \in 1..n + 1 /\ k + 1 = m /\ ~ (m <= k)
  BY <1>3, <1>4, <1>5
<1>7. ~ (j <= o[k])
  <2>1. k \notin Reach
    <3> HIDE DEF Reach
    <3> QED
      BY <1>2, <1>6
  <2> QED
    BY <1>6, <2>1
<1>8. o[k] \in Nat /\ o[m] \in Nat /\ o[m] = o[k] + Len(es[k])
  BY <1>3, <1>6 DEF Runs
<1>9. PICK p, q, len : p = o[k] /\ q = o[m] /\ len = Len(es[k])
  OBVIOUS
<1>10. /\ p \in Nat /\ q \in Nat /\ len \in Nat /\ q = p + len /\ ~ (j <= p) /\ j <= q
       /\ j \in Nat
  BY <1>1, <1>3, <1>6, <1>7, <1>8, <1>9
<1>11. j - p \in 1..len /\ p + (j - p) = j
  BY <1>10
<1> QED
  BY <1>6, <1>9, <1>11

(* Each link updated has an outcome, and the feeds delivered are those of  *)
(* the links that were answered.                                           *)
CameInv ==
  /\ came \in Seq(BOOLEAN) /\ Len(came) = Len(updates)
  /\ delivered = Reached(updates, came)

(* What main wrote and the server shows is the table load_channel_file left.*)
StageInv ==
  /\ stage # "load" => pc = "done" /\ parse_pc = "link" /\ data_yt = channels
  /\ stage = "served" => page = generate_vids(data_yt)

(* main starts with no link updated. *)
LEMMA CameInit == VidsInit => CameInv
<1> SUFFICES ASSUME VidsInit
             PROVE  CameInv
  OBVIOUS
<1>1. came = <<>> /\ updates = <<>> /\ delivered = <<>>
  BY DEF VidsInit, Init, Scrape!Init
<1>2. <<>> \in Seq(BOOLEAN) /\ Len(<<>>) = 0
  BY EmptySeq
<1> QED
  BY <1>1, <1>2, ReachedNone DEF CameInv

(* One link more, answered or not. *)
LEMMA CameLonger ==
  ASSUME LInv, CameInv, NEW x, updates' = Append(updates, x),
         NEW b \in BOOLEAN, came' = Append(came, b),
         delivered' = IF b THEN Append(delivered, FeedAt[Last(updates')]) ELSE delivered
  PROVE  CameInv'
<1>1. PICK u : u = updates
  OBVIOUS
<1>2. PICK X : X = Seq(Letter) \cup {x}
  OBVIOUS
<1>3. u \in Seq(Seq(Letter))
  BY <1>1 DEF LInv, TypeOK
<1>4. u \in Seq(X) /\ x \in X /\ Len(u) \in Nat
  <2>1. Len(u) \in Nat /\ u \in [1..Len(u) -> Seq(Letter)]
    BY <1>3, LenProperties
  <2>2. PICK n : n = Len(u)
    OBVIOUS
  <2>3. u \in [1..n -> X] /\ n \in Nat
    BY <1>2, <2>1, <2>2
  <2>4. u \in Seq(X)
    BY <2>3, IsASeq
  <2> QED
    BY <1>2, <2>1, <2>4
<1>5. /\ Append(u, x) \in Seq(X) /\ Len(Append(u, x)) = Len(u) + 1
      /\ Append(u, x)[Len(u) + 1] = x
  BY <1>4, AppendProperties
<1>6. Last(Append(u, x)) = x
  BY <1>4, <1>5 DEF Last
<1>7. /\ came \in Seq(BOOLEAN) /\ Len(came) = Len(u) /\ delivered = Reached(u, came)
  BY <1>1 DEF CameInv
<1>8. Append(came, b) \in Seq(BOOLEAN) /\ Len(Append(came, b)) = Len(u) + 1
  BY <1>7, AppendProperties
<1>9. Reached(Append(u, x), Append(came, b)) =
        IF b THEN Append(Reached(u, came), FeedAt[x]) ELSE Reached(u, came)
  BY <1>4, <1>7, ReachedGrows
<1> QED
  BY <1>1, <1>5, <1>6, <1>7, <1>8, <1>9 DEF CameInv

(* Every step keeps this. *)
LEMMA CameStep ==
  ASSUME LInv, CameInv, [VidsNext]_vidsVars
  PROVE  CameInv'
<1>1. CASE update_channel
  <2>1. PICK x : updates' = Append(updates, x)
    BY <1>1 DEF update_channel, scan_link
  <2>2. came' = Append(came, TRUE) /\ delivered' = Append(delivered, FeedAt[Last(updates')])
    BY <1>1 DEF update_channel, Scrape!update_channel
  <2> QED
    BY <2>1, <2>2, CameLonger
<1>2. CASE update_channel_failed
  <2>1. PICK x : updates' = Append(updates, x)
    BY <1>2 DEF update_channel_failed, scan_link
  <2>2. came' = Append(came, FALSE) /\ delivered' = delivered
    BY <1>2 DEF update_channel_failed, Scrape!update_channel_failed
  <2> QED
    BY <2>1, <2>2, CameLonger
<1>3. CASE UNCHANGED <<came, updates, delivered>>
  BY <1>3 DEF CameInv
<1>4. ASSUME Scrape!Parse
      PROVE  delivered' = delivered
  BY <1>4 DEF Scrape!Parse, Scrape!parse_returns, Scrape!entry_begin, Scrape!entry_field,
              Scrape!find_author, Scrape!entry_end, Scrape!author_begin, Scrape!author_end,
              Scrape!author_field, Scrape!other_element, Scrape!Passed
<1>5. \/ update_channel \/ update_channel_failed
      \/ UNCHANGED <<came, updates, delivered>>
  BY <1>4 DEF VidsNext, vidsVars, vars, feed, fread, scan_end, channels_write, serve_vids
<1> QED
  BY <1>1, <1>2, <1>3, <1>5

(* main starts with the links. *)
LEMMA StageInit == VidsInit => StageInv
BY DEF VidsInit, StageInv

(* Once the table is written, nothing adds to it. *)
LEMMA StageKept ==
  ASSUME StageInv, [VidsNext]_vidsVars
  PROVE  StageInv'
<1>1. Scrape!Parse => parse_pc = "parse"
  BY DEF Scrape!Parse, Scrape!parse_returns, Scrape!entry_begin, Scrape!entry_field,
         Scrape!find_author, Scrape!entry_end, Scrape!author_begin, Scrape!author_end,
         Scrape!author_field, Scrape!other_element, Scrape!Element_is
<1>2. CASE stage = "load"
  <2>1. CASE channels_write
    BY <1>2, <2>1 DEF channels_write, Loading, StageInv, vars, feed
  <2>2. CASE ~ channels_write
    <3>1. stage' = stage
      BY <1>2, <2>2 DEF VidsNext, vidsVars, output, update_channel, update_channel_failed, serve_vids
    <3> QED
      BY <1>2, <3>1 DEF StageInv
  <2> QED
    BY <2>1, <2>2
<1>3. CASE stage # "load"
  <2>1. pc = "done" /\ parse_pc = "link" /\ data_yt = channels
    BY <1>3 DEF StageInv
  <2>2. serve_vids \/ UNCHANGED vidsVars
    BY <1>1, <1>3, <2>1 DEF VidsNext, Loading, update_channel, update_channel_failed, channels_write
  <2>3. CASE serve_vids
    BY <2>1, <2>3 DEF serve_vids, StageInv, vars, feed, generate_vids, Shown
  <2>4. CASE UNCHANGED vidsVars
    BY <2>1, <2>4 DEF vidsVars, vars, feed, output, StageInv, generate_vids, Shown
  <2> QED
    BY <2>2, <2>3, <2>4
<1> QED
  BY <1>2, <1>3

(* The runs of the table are the entries of what the feeds said. *)
LEMMA TableRuns ==
  ASSUME TP!IInv, NEW S \in Lists, Holds(Readback, S),
         NEW es, es = [k \in 1..Len(S) |-> S[k].entries]
  PROVE  /\ Len(es) = Len(S) /\ es \in Seq(Seq(Scrape!Entry))
         /\ Len(S) \in Nat /\ Len(S) = Len(channels.authors)
         /\ \A k \in 1..Len(S) :
              /\ es[k] = S[k].entries /\ Len(es[k]) \in Nat
              /\ Len(es[k]) = channels.offsets[k + 1] - channels.offsets[k]
         /\ Runs(channels.offsets, es, Len(S))
         /\ channels.offsets[Len(S) + 1] = Len(channels.entries)
<1>1. PICK n : n = Len(S)
  OBVIOUS
<1>2. PICK o : o = channels.offsets
  OBVIOUS
<1>3. n \in Nat /\ \A k \in 1..n : S[k] \in FeedRec
  BY <1>1, ListParts
<1>4. \A k \in 1..n : es[k] = S[k].entries /\ es[k] \in Seq(Scrape!Entry) /\ Len(es[k]) \in Nat
  BY <1>1, <1>3, FeedIsRec, LenProperties
<1>5. es \in Seq(Seq(Scrape!Entry)) /\ Len(es) = n
  <2>1. es \in [1..n -> Seq(Scrape!Entry)]
    BY <1>1, <1>4
  <2> QED
    BY <1>3, <2>1, IsASeq, LenProperties
<1>6. n = Len(channels.authors)
  <2>1. Len(Readback) = n
    BY <1>1 DEF Holds
  <2> QED
    BY <2>1, ReadbackParts
<1>7. /\ Len(o) = n + 1 /\ Len(channels.entries) \in Nat
      /\ \A i \in 1..n + 1 : o[i] \in 0..Len(channels.entries)
  <2>1. /\ Len(o) = Len(channels.authors) + 1 /\ Len(channels.entries) \in Nat
        /\ \A i \in 1..Len(o) : o[i] \in 0..Len(channels.entries)
    BY <1>2, TableAssumptions, TP!OffsetBounds
  <2> QED
    BY <1>6, <2>1
<1>8. /\ o[1] = 0 /\ o[n + 1] = Len(channels.entries)
      /\ \A i, j \in 1..n + 1 : i <= j => o[i] <= o[j]
  <2>1. /\ o[1] = 0 /\ o[Len(o)] = Len(channels.entries)
        /\ \A i, j \in 1..Len(o) : i <= j => o[i] <= o[j]
    BY <1>2 DEF TP!IInv, TP!OffsetsDelimitEntries
  <2> QED
    BY <1>7, <2>1
<1>9. ASSUME NEW k \in 1..n
      PROVE  Len(es[k]) = o[k + 1] - o[k] /\ o[k + 1] = o[k] + Len(es[k])
  <2>1. Len(Readback[k].entries) = o[k + 1] - o[k]
    <3>1. \A i \in 1..Len(channels.authors) :
            Len(TP!ReadList(channels)[i].entries) = channels.offsets[i + 1] - channels.offsets[i]
      BY TableAssumptions, TP!ListShape
    <3> QED
      BY <1>2, <1>6, <3>1 DEF Readback
  <2>2. Len(Readback[k].entries) = Len(es[k]) + 0
    <3>1. Row(Readback[k], S[k], <<>>, 0)
      BY <1>1 DEF Holds
    <3> QED
      BY <1>4, <3>1 DEF Row
  <2>3. k \in 1..n + 1 /\ k + 1 \in 1..n + 1
    BY <1>3
  <2>4. o[k] \in Nat /\ o[k + 1] \in Nat /\ Len(es[k]) \in Nat
    BY <1>4, <1>7, <2>3
  <2> QED
    BY <2>1, <2>2, <2>4
<1>10. Runs(o, es, n)
  <2>1. \A k \in 1..n + 1 : o[k] \in Nat
    BY <1>7
  <2> QED
    BY <1>8, <1>9, <2>1 DEF Runs
<1> QED
  BY <1>1, <1>2, <1>3, <1>4, <1>5, <1>6, <1>8, <1>9, <1>10

(* What the page shows of an entry is what the reader of the table sees.   *)
LEMMA ShownIsRead ==
  ASSUME TP!IInv, NEW j \in 1..Len(channels.entries)
  PROVE  /\ Len(generate_vids(channels)) = Len(channels.entries)
         /\ generate_vids(channels)[j] = [ title       |-> TP!ReadEntry(channels, j).title,
                                           description |-> TP!ReadEntry(channels, j).description ]
<1>1. Len(channels.entries) \in Nat
  BY TableAssumptions, TP!OffsetBounds
<1>2. Len(generate_vids(channels)) = Len(channels.entries)
  BY <1>1 DEF generate_vids, Shown
<1>3. /\ TP!ReadEntry(channels, j).title =
           Scrape!Table!rsv_get(channels.text, channels.entries[j].title)
      /\ TP!ReadEntry(channels, j).description =
           Scrape!Table!rsv_get(channels.text, channels.entries[j].description)
  BY DEF TP!ReadEntry, TP!rsv_get, Scrape!Table!rsv_get
<1> QED
  BY <1>2, <1>3 DEF generate_vids, Shown

(* The page shows what the feeds said.                                     *)
LEMMA ShownIsSaid ==
  ASSUME TP!IInv, NEW S \in Lists, Holds(Readback, S),
         NEW all, all = FlattenSeq([k \in 1..Len(S) |-> S[k].entries])
  PROVE  /\ Len(generate_vids(channels)) = Len(all)
         /\ \A j \in 1..Len(all) :
              Agrees(generate_vids(channels)[j],
                     [title |-> all[j].title, description |-> all[j].description])
<1>1. PICK es : es = [k \in 1..Len(S) |-> S[k].entries]
  OBVIOUS
<1>2. PICK n : n = Len(S)
  OBVIOUS
<1>3. PICK o : o = channels.offsets
  OBVIOUS
<1>4. /\ n \in Nat /\ Len(es) = n /\ es \in Seq(Seq(Scrape!Entry)) /\ n = Len(channels.authors)
      /\ \A k \in 1..n : /\ es[k] = S[k].entries /\ Len(es[k]) \in Nat
                         /\ Len(es[k]) = o[k + 1] - o[k]
      /\ Runs(o, es, n) /\ o[n + 1] = Len(channels.entries)
  BY <1>1, <1>2, <1>3, TableRuns
<1>5. InRuns(all, es, n, o, Scrape!Entry)
  BY <1>1, <1>4, FlattenRuns
<1>6. Len(all) = Len(channels.entries) /\ Len(channels.entries) \in Nat
  BY <1>4, <1>5, TableAssumptions, TP!OffsetBounds DEF InRuns
<1>7. Len(generate_vids(channels)) = Len(all)
  BY <1>6 DEF generate_vids, Shown
<1>8. ASSUME NEW j \in 1..Len(all)
      PROVE  Agrees(generate_vids(channels)[j],
                    [title |-> all[j].title, description |-> all[j].description])
  <2>1. PICK k \in 1..n : j - o[k] \in 1..Len(es[k]) /\ o[k] + (j - o[k]) = j
    <3>1. j \in 1..o[n + 1]
      BY <1>4, <1>6
    <3>2. n \in Nat /\ Runs(o, es, n) /\ \A q \in 1..n : Len(es[q]) \in Nat
      BY <1>4
    <3> QED
      BY <3>1, <3>2, InSomeRun
  <2>2. PICK i : i = j - o[k]
    OBVIOUS
  <2>3. i \in 1..Len(es[k]) /\ o[k] + i = j
    BY <2>1, <2>2
  <2>4. all[j] = es[k][i]
    <3>1. all[o[k] + i] = es[k][i]
      BY <1>5, <2>3 DEF InRuns
    <3> QED
      BY <2>3, <3>1
  <2>5. all[j] \in Scrape!Entry
    <3>1. es[k] \in Seq(Scrape!Entry)
      BY <1>4, ElementOfSeq
    <3> QED
      BY <2>3, <2>4, <3>1, ElementOfSeq
  <2>6. Readback[k].entries[i] = TP!ReadEntry(channels, j)
    <3>1. Readback[k].entries = TP!ReadRun(channels, k)
      BY <1>4 DEF Readback, TP!ReadList
    <3>2. i \in 1..(channels.offsets[k + 1] - channels.offsets[k]) /\ channels.offsets[k] + i = j
      BY <1>3, <1>4, <2>3
    <3> QED
      BY <3>1, <3>2 DEF TP!ReadRun
  <2>7. Agrees(TP!ReadEntry(channels, j), all[j])
    <3>1. Row(Readback[k], S[k], <<>>, 0)
      BY <1>2 DEF Holds
    <3>2. Agrees(Readback[k].entries[i], S[k].entries[i])
      BY <1>4, <2>3, <3>1 DEF Row
    <3> QED
      BY <1>4, <2>4, <2>6, <3>2
  <2>8. PICK r : r = TP!ReadEntry(channels, j)
    OBVIOUS
  <2>9. PICK e : e = all[j]
    OBVIOUS
  <2>10. /\ e.title # Null => r.title = e.title
         /\ e.description # Null => r.description = e.description
    BY <2>5, <2>7, <2>8, <2>9 DEF Agrees, Scrape!Table!List!Agrees, Scrape!Entry, Scrape!EntryField
  <2>11. generate_vids(channels)[j] = [title |-> r.title, description |-> r.description]
    BY <1>6, <2>8, ShownIsRead
  <2>12. Agrees([title |-> r.title, description |-> r.description],
                [title |-> e.title, description |-> e.description])
    BY <2>10 DEF Agrees, Scrape!Table!List!Agrees
  <2> QED
    BY <2>9, <2>11, <2>12
<1> QED
  BY <1>7, <1>8

(* Together they say what the property says. *)
LEMMA ServedShows ==
  ASSUME LInv, ListInv, CameInv, StageInv, AllUpdated
  PROVE  PageShowsFile
<1> SUFFICES ASSUME stage = "served"
             PROVE  PageShowsFile
  BY DEF PageShowsFile
<1>1. parse_pc = "link" /\ updates = Links(content) /\ page = generate_vids(channels)
  BY DEF StageInv, AllUpdated
<1>2. PICK S : S = Scrape!Said(Reached(Links(content), came))
  OBVIOUS
<1>3. PICK all : all = FlattenSeq([k \in 1..Len(S) |-> S[k].entries])
  OBVIOUS
<1>4. TP!IInv /\ S \in Lists /\ Holds(Readback, S)
  BY <1>1, <1>2 DEF ListInv, FeedInv, CameInv
<1>5. /\ Len(page) = Len(all)
      /\ \A j \in 1..Len(all) :
           Agrees(page[j], [title |-> all[j].title, description |-> all[j].description])
  BY <1>1, <1>3, <1>4, ShownIsSaid
<1>6. Len(came) = Len(Links(content))
  BY <1>1 DEF CameInv
<1> QED
  BY <1>2, <1>3, <1>5, <1>6 DEF PageShowsFile, Agrees


-----------------------------------------------------------------------------
(* The theorems about the scraper and the page *)

(* main starts between two links. *)
LEMMA PlaceInit == VidsInit => PlaceInv
<1> SUFFICES ASSUME VidsInit
             PROVE  PlaceInv
  OBVIOUS
<1>1. FeedInv
  BY FeedInit
<1>2. parse_pc = "link"
  BY DEF VidsInit, Scrape!Init
<1> QED
  BY <1>1, <1>2 DEF PlaceInv

(* main's own variables stay typed. *)
LEMMA StageStep ==
  ASSUME came \in Seq(BOOLEAN), stage \in {"load", "written", "served"}, [VidsNext]_vidsVars
  PROVE  came' \in Seq(BOOLEAN) /\ stage' \in {"load", "written", "served"}
<1>1. \/ came' = came \/ came' = Append(came, TRUE) \/ came' = Append(came, FALSE)
  BY DEF VidsNext, vidsVars, update_channel, update_channel_failed, channels_write, serve_vids
<1>2. Append(came, TRUE) \in Seq(BOOLEAN) /\ Append(came, FALSE) \in Seq(BOOLEAN)
  BY AppendProperties
<1>3. stage' \in {stage, "written", "served"}
  BY DEF VidsNext, vidsVars, output, update_channel, update_channel_failed, channels_write, serve_vids
<1> QED
  BY <1>1, <1>2, <1>3

(* The scraper's variables are typed and the table it fills is sound: offsets*)
(* delimit the entries, every view lies in the arena, no array outgrows its*)
(* allocation.  This needs no document to be whole: whatever part of a feed a*)
(* transfer that failed has left in the arena.                             *)
THEOREM FeedInvariant == VidsSpec => []FeedInv
<1>1. VidsInit => FeedInv
  BY FeedInit
<1>2. FeedInv /\ [VidsNext]_vidsVars => FeedInv'
  BY FeedStep
<1> QED
  BY <1>1, <1>2, PTL DEF VidsSpec

(* Every variable of vids.c has its type, those of load_channel_file, of the*)
(* scraper and of main.                                                    *)
THEOREM VidsTypeCorrect == VidsSpec => []VidsTypeOK
<1> DEFINE Rest == came \in Seq(BOOLEAN) /\ stage \in {"load", "written", "served"}
<1>1. VidsInit => Rest
  BY EmptySeq DEF VidsInit
<1>2. Rest /\ [VidsNext]_vidsVars => Rest'
  BY StageStep
<1>3. LInv /\ FeedInv /\ Rest => VidsTypeOK
  BY DEF LInv, FeedInv, VidsTypeOK
<1> QED
  BY <1>1, <1>2, <1>3, LinkInvariant, FeedInvariant, PTL DEF VidsSpec

(* When a transfer that fails delivers nothing, parse is only ever given one*)
(* whole document: the arena is empty whenever update_channel is called.   *)
THEOREM OneDocument == Partial = FALSE => (VidsSpec => []ParsesOneDocument)
<1> SUFFICES ASSUME Partial = FALSE
             PROVE  VidsSpec => []ParsesOneDocument
  OBVIOUS
<1>1. VidsInit /\ FeedInv => OneInv
  BY DEF VidsInit, Scrape!Init, OneInv
<1>2. OneInv /\ FeedInv' /\ [VidsNext]_vidsVars => OneInv'
  BY OneStep
<1>3. OneInv => ParsesOneDocument
  BY DEF OneInv, ParsesOneDocument, Scrape!ParsesOneDocument, Scrape!Last, Current
<1> QED
  BY <1>1, <1>2, <1>3, FeedInvariant, PTL DEF VidsSpec

(* Given one document at a time, parse is always somewhere in its layout. *)
LEMMA Placed == VidsSpec /\ []ParsesOneDocument => []PlaceInv
<1>1. VidsInit => PlaceInv
  BY PlaceInit
<1>2. PlaceInv /\ FeedInv' /\ ParsesOneDocument' /\ [VidsNext]_vidsVars => PlaceInv'
  BY PlaceStep DEF ParsesOneDocument
<1> QED
  BY <1>1, <1>2, FeedInvariant, PTL DEF VidsSpec

(* As long as parse is given one document at a time, the program makes only*)
(* the calls that module Channels describes: authors that are valid and not in*)
(* the table, entries as their feed has them, for authors of the table.  Room*)
(* is about the bounds of that module; the program has none.               *)
THEOREM TableUse == VidsSpec /\ []ParsesOneDocument /\ []Room => UsesTable
<1>1. VidsInit => Scrape!Table!Init
  BY DEF VidsInit, Scrape!Init, Scrape!Table!Init
<1>2. PlaceInv /\ Room' /\ [VidsNext]_vidsVars => [Scrape!Table!Next]_channels
  BY TableStep
<1> QED
  BY <1>1, <1>2, Placed, PTL DEF VidsSpec, UsesTable, Scrape!UsesTable, Scrape!Table!Spec

(* As long as parse is given one document at a time, the table between two *)
(* links reads back as what the feeds said: each author once, in the order of*)
(* its first feed, with its entries in the order of delivery and no others,*)
(* whichever links they came from and whichever transfers failed in between.*)
THEOREM TableHolds == VidsSpec /\ []ParsesOneDocument => []TableIsWhatFeedsSaid
<1>1. VidsInit => ListInv
  BY ListInit
<1>2. ListInv /\ PlaceInv' /\ [VidsNext]_vidsVars => ListInv'
  BY ListStep
<1>3. ListInv => TableIsWhatFeedsSaid
  BY ListIsSaid DEF TableIsWhatFeedsSaid
<1> QED
  BY <1>1, <1>2, <1>3, Placed, PTL DEF VidsSpec

(* The same with the condition on transfers in place of the one on documents.*)
THEOREM TableHoldsWhole == Partial = FALSE => (VidsSpec => []TableIsWhatFeedsSaid)
<1> SUFFICES ASSUME Partial = FALSE
             PROVE  VidsSpec => []TableIsWhatFeedsSaid
  OBVIOUS
<1>1. VidsSpec => []ParsesOneDocument
  BY OneDocument
<1> QED
  BY <1>1, TableHolds, PTL

(* As long as parse is given one document at a time, vids.html shows every *)
(* entry of every feed that a link of the file led to and whose transfer   *)
(* succeeded, none twice and none else, author by author in the order of   *)
(* their first link.                                                       *)
THEOREM PageHolds == VidsSpec /\ []ParsesOneDocument => []PageShowsFile
<1>1. VidsInit => ListInv /\ CameInv /\ StageInv
  BY ListInit, CameInit, StageInit
<1>2. ListInv /\ PlaceInv' /\ [VidsNext]_vidsVars => ListInv'
  BY ListStep
<1>3. LInv /\ CameInv /\ [VidsNext]_vidsVars => CameInv'
  BY CameStep
<1>4. StageInv /\ [VidsNext]_vidsVars => StageInv'
  BY StageKept
<1>5. LInv /\ ListInv /\ CameInv /\ StageInv /\ AllUpdated => PageShowsFile
  BY ServedShows
<1> QED
  BY <1>1, <1>2, <1>3, <1>4, <1>5, LinkInvariant, NoneMissed, Placed, PTL DEF VidsSpec

(* The same with the condition on transfers in place of the one on documents.*)
THEOREM PageHoldsWhole == Partial = FALSE => (VidsSpec => []PageShowsFile)
<1> SUFFICES ASSUME Partial = FALSE
             PROVE  VidsSpec => []PageShowsFile
  OBVIOUS
<1>1. VidsSpec => []ParsesOneDocument
  BY OneDocument
<1> QED
  BY <1>1, PageHolds, PTL

=============================================================================
