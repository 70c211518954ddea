----------------------------- MODULE PagesProofs -----------------------------
(***************************************************************************)
(* Proofs about the pages that ser_lin.c keeps, for any tables, runs of    *)
(* vids.c and edits: the style sheet it answers from its cache is the      *)
(* file's where the times can tell, and a data.yt that is not written while it is read is taken for *)
(* a table only when it is a whole one, though a crash of vids.c may have  *)
(* cut it anywhere.                                                        *)
(***************************************************************************)
EXTENDS Pages, Integers, SequenceTheorems, TLAPS

CellRec == [run : Run, section : Section, count : BOOLEAN]

Reading == pc \in {"count", "items", "eof"}

(* No time is ahead of the clock; and a stat made in a later tick than the *)
(* write it found has the file's time only until the next write.           *)
CssInv ==
  /\ style.time <= clock /\ stat.at <= clock /\ css.at <= clock
  /\ pc = "css" /\ stat.time = style.time /\ stat.at > stat.time =>
       stat.size = Len(style.cells)
  /\ CssNotStale

Size(r, s) == Tables[r][s] + 1

\* Where array s of run r starts in the file; 5 is the end.
Start(r, s) ==
  CASE s = 1 -> 0
    [] s = 2 -> Size(r, 1)
    [] s = 3 -> Size(r, 1) + Size(r, 2)
    [] s = 4 -> Size(r, 1) + Size(r, 2) + Size(r, 3)
    [] s = 5 -> Size(r, 1) + Size(r, 2) + Size(r, 3) + Size(r, 4)

(* The file is the start of what the last run writes, and that run has the *)
(* rest of it still to write, or never will.                               *)
File ==
  /\ Len(data_yt) <= Len(channels_write(run))
  /\ \A k \in 1..Len(data_yt) : data_yt[k] = channels_write(run)[k]
  /\ unwritten # <<>> => Len(data_yt) + Len(unwritten) = Len(channels_write(run))
  /\ \A k \in 1..Len(unwritten) : unwritten[k] = channels_write(run)[Len(data_yt) + k]

(* The reader is in the array it thinks it is in. *)
Loaded ==
  /\ Len(loading) <= Len(data_yt)
  /\ \A k \in 1..Len(loading) : loading[k] = data_yt[k]
  /\ pc = "count" => Len(loading) = Start(run, section)
  /\ pc = "items" => Len(loading) + want = Start(run, section + 1)
  /\ pc = "eof" => Len(loading) = Start(run, 5)

TableInv == File /\ (Reading => Loaded) /\ LoadsWholeTable

\* An item is still expected whenever one is read.
Wanted == pc = "items" => want >= 1

Typed == TypeOK /\ Wanted

IInv ==
  /\ Typed
  /\ CssInv
  /\ ~Overlap => TableInv

-----------------------------------------------------------------------------
(* What channels_write writes *)

(* Where the cells of the two parts of a sequence are found. *)
LEMMA ConcatAt ==
  ASSUME NEW S, NEW s \in Seq(S), NEW t \in Seq(S), Len(t) >= 1
  PROVE  /\ s \o t \in Seq(S)
         /\ Len(s \o t) = Len(s) + Len(t)
         /\ \A k \in 1..Len(s) : (s \o t)[k] = s[k]
         /\ (s \o t)[Len(s) + 1] = t[1]
<1>1. Len(s) \in Nat /\ Len(t) \in Nat
  BY LenProperties
<1>2. /\ s \o t \in Seq(S)
      /\ Len(s \o t) = Len(s) + Len(t)
      /\ \A i \in 1..(Len(s) + Len(t)) :
           (s \o t)[i] = IF i <= Len(s) THEN s[i] ELSE t[i - Len(s)]
  BY ConcatProperties
<1>3. ASSUME NEW k \in 1..Len(s)
      PROVE  (s \o t)[k] = s[k]
  <2>1. k \in 1..(Len(s) + Len(t)) /\ k <= Len(s)
    BY <1>1
  <2> QED
    BY <1>2, <2>1
<1>4. (s \o t)[Len(s) + 1] = t[1]
  <2> DEFINE i == Len(s) + 1
  <2>1. i \in 1..(Len(s) + Len(t)) /\ ~(i <= Len(s)) /\ i - Len(s) = 1
    BY <1>1
  <2> HIDE DEF i
  <2>2. (s \o t)[i] = t[i - Len(s)]
    BY <1>2, <2>1
  <2> QED
    BY <2>1, <2>2 DEF i
<1> QED
  BY <1>2, <1>3, <1>4

(* Four arrays behind each other: where each begins and ends. *)
LEMMA FourConcat ==
  ASSUME NEW S, NEW a \in Seq(S), NEW b \in Seq(S), NEW c \in Seq(S), NEW d \in Seq(S),
         Len(a) >= 1, Len(b) >= 1, Len(c) >= 1, Len(d) >= 1,
         NEW E, E = ((a \o b) \o c) \o d
  PROVE  /\ E \in Seq(S)
         /\ Len(E) = Len(a) + Len(b) + Len(c) + Len(d)
         /\ E[1] = a[1]
         /\ E[Len(a) + 1] = b[1]
         /\ E[Len(a) + Len(b) + 1] = c[1]
         /\ E[Len(a) + Len(b) + Len(c) + 1] = d[1]
<1>1. Len(a) \in Nat /\ Len(b) \in Nat /\ Len(c) \in Nat /\ Len(d) \in Nat
  BY LenProperties
<1>2. PICK B : B = a \o b
  OBVIOUS
<1>3. /\ B \in Seq(S) /\ Len(B) = Len(a) + Len(b)
       /\ \A k \in 1..Len(a) : B[k] = a[k]
       /\ B[Len(a) + 1] = b[1]
  BY <1>2, ConcatAt
<1>4. B \in Seq(S)
  BY <1>3
<1>5. PICK D : D = B \o c
  OBVIOUS
<1>6. /\ D \in Seq(S) /\ Len(D) = Len(B) + Len(c)
       /\ \A k \in 1..Len(B) : D[k] = B[k]
       /\ D[Len(B) + 1] = c[1]
  BY <1>4, <1>5, ConcatAt
<1>7. D \in Seq(S)
  BY <1>6
<1>8. E = D \o d
  BY <1>2, <1>5
<1>9. /\ E \in Seq(S) /\ Len(E) = Len(D) + Len(d)
       /\ \A k \in 1..Len(D) : E[k] = D[k]
       /\ E[Len(D) + 1] = d[1]
  BY <1>7, <1>8, ConcatAt
<1>10. 1 \in 1..Len(a)
  BY <1>1
<1>11. 1 \in 1..Len(B) /\ Len(a) + 1 \in 1..Len(B)
  BY <1>1, <1>3
<1>12. /\ 1 \in 1..Len(D) /\ Len(a) + 1 \in 1..Len(D)
      /\ Len(a) + Len(b) + 1 \in 1..Len(D)
  BY <1>1, <1>3, <1>6
<1>13. E[1] = a[1]
  BY <1>3, <1>6, <1>9, <1>10, <1>11, <1>12
<1>14. E[Len(a) + 1] = b[1]
  BY <1>3, <1>6, <1>9, <1>11, <1>12
<1>15. E[Len(a) + Len(b) + 1] = c[1]
  BY <1>3, <1>6, <1>9, <1>12
<1>16. /\ E \in Seq(S) /\ Len(E) = Len(a) + Len(b) + Len(c) + Len(d)
       /\ E[Len(a) + Len(b) + Len(c) + 1] = d[1]
  BY <1>3, <1>6, <1>9
<1> QED
  BY <1>13, <1>14, <1>15, <1>16

(* The sizes of a table are numbers. *)
LEMMA TableSizes ==
  ASSUME NEW r \in Run, NEW s \in Section
  PROVE  Tables[r][s] \in Nat
<1>1. Tables[r] \in [Section -> Nat]
  BY PagesAssumption, ElementOfSeq DEF Run
<1> QED
  BY <1>1

(* An array in the file is its count and then its elements. *)
LEMMA ArrayLayout ==
  ASSUME NEW r \in Run, NEW s \in Section
  PROVE  /\ Array(r, s) \in Seq(CellRec)
         /\ Len(Array(r, s)) = Size(r, s) /\ Size(r, s) \in Nat /\ Size(r, s) >= 1
         /\ Array(r, s)[1] = [run |-> r, section |-> s, count |-> TRUE]
<1>1. Tables[r][s] \in Nat
  BY TableSizes
<1> DEFINE first == Count(r, s)
           items == [k \in 1..Tables[r][s] |-> Item(r, s)]
<1>2. /\ first \in Seq(CellRec) /\ Len(first) = 1
      /\ first[1] = [run |-> r, section |-> s, count |-> TRUE]
  BY DEF Count, CellRec
<1>3. Item(r, s) \in CellRec
  BY DEF Item, CellRec
<1>4. items \in [1..Tables[r][s] -> CellRec]
  BY <1>3
<1>5. items \in Seq(CellRec) /\ Len(items) = Tables[r][s]
  BY <1>1, <1>4
<1> HIDE DEF first, items
<1>6. /\ first \o items \in Seq(CellRec)
      /\ Len(first \o items) = Len(first) + Len(items)
      /\ \A i \in 1..(Len(first) + Len(items)) :
           (first \o items)[i] = IF i <= Len(first) THEN first[i] ELSE items[i - Len(first)]
  BY <1>2, <1>5, ConcatProperties
<1>7. 1 \in 1..(Len(first) + Len(items)) /\ 1 <= Len(first)
  BY <1>1, <1>2, <1>5
<1>8. (first \o items)[1] = first[1]
  BY <1>6, <1>7
<1> QED
  BY <1>1, <1>2, <1>5, <1>6, <1>8 DEF Array, Size, first, items

(* One after the other, each array begins with its count. *)
LEMMA Layout ==
  ASSUME NEW r \in Run
  PROVE  /\ channels_write(r) \in Seq(CellRec)
         /\ Len(channels_write(r)) = Start(r, 5)
         /\ Start(r, 5) \in Nat /\ Start(r, 5) >= 1
         /\ \A s \in Section :
              /\ Start(r, s) \in Nat
              /\ Start(r, s + 1) = Start(r, s) + 1 + Tables[r][s]
              /\ Tables[r][s] \in Nat
              /\ channels_write(r)[Start(r, s) + 1]
                   = [run |-> r, section |-> s, count |-> TRUE]
<1> DEFINE A1 == Array(r, 1)
           A2 == Array(r, 2)
           A3 == Array(r, 3)
           A4 == Array(r, 4)
           C(s) == [run |-> r, section |-> s, count |-> TRUE]
           z1 == Size(r, 1)
           z2 == Size(r, 2)
           z3 == Size(r, 3)
           z4 == Size(r, 4)
<1>1. 1 \in Section /\ 2 \in Section /\ 3 \in Section /\ 4 \in Section
  BY DEF Section
<1>2. /\ A1 \in Seq(CellRec) /\ Len(A1) = z1 /\ z1 \in Nat /\ z1 >= 1
      /\ A2 \in Seq(CellRec) /\ Len(A2) = z2 /\ z2 \in Nat /\ z2 >= 1
      /\ A3 \in Seq(CellRec) /\ Len(A3) = z3 /\ z3 \in Nat /\ z3 >= 1
      /\ A4 \in Seq(CellRec) /\ Len(A4) = z4 /\ z4 \in Nat /\ z4 >= 1
      /\ A1[1] = C(1) /\ A2[1] = C(2) /\ A3[1] = C(3) /\ A4[1] = C(4)
  BY <1>1, ArrayLayout
<1>3. channels_write(r) = ((A1 \o A2) \o A3) \o A4
  BY DEF channels_write
<1>4. /\ z1 = 1 + Tables[r][1] /\ Tables[r][1] \in Nat
      /\ z2 = 1 + Tables[r][2] /\ Tables[r][2] \in Nat
      /\ z3 = 1 + Tables[r][3] /\ Tables[r][3] \in Nat
      /\ z4 = 1 + Tables[r][4] /\ Tables[r][4] \in Nat
  BY <1>1, TableSizes DEF Size
<1>5. /\ Start(r, 1) = 0 /\ Start(r, 2) = z1 /\ Start(r, 3) = z1 + z2
      /\ Start(r, 4) = z1 + z2 + z3
      /\ Start(r, 5) = z1 + z2 + z3 + z4
  BY DEF Start
<1> HIDE DEF A1, A2, A3, A4, C, z1, z2, z3, z4
<1>6. PICK E : E = ((A1 \o A2) \o A3) \o A4
  OBVIOUS
<1>7. /\ E \in Seq(CellRec) /\ Len(E) = z1 + z2 + z3 + z4
      /\ E[1] = C(1) /\ E[z1 + 1] = C(2) /\ E[z1 + z2 + 1] = C(3)
      /\ E[z1 + z2 + z3 + 1] = C(4)
  <2>1. /\ Len(A1) >= 1 /\ Len(A2) >= 1 /\ Len(A3) >= 1 /\ Len(A4) >= 1
        /\ A1 \in Seq(CellRec) /\ A2 \in Seq(CellRec)
        /\ A3 \in Seq(CellRec) /\ A4 \in Seq(CellRec)
    BY <1>2
  <2>2. /\ E \in Seq(CellRec) /\ Len(E) = Len(A1) + Len(A2) + Len(A3) + Len(A4)
        /\ E[1] = A1[1] /\ E[Len(A1) + 1] = A2[1]
        /\ E[Len(A1) + Len(A2) + 1] = A3[1]
        /\ E[Len(A1) + Len(A2) + Len(A3) + 1] = A4[1]
    BY <1>6, <2>1, FourConcat
  <2> QED
    BY <1>2, <2>2
<1>8. channels_write(r) = E
  BY <1>6, <1>3
<1>9. ASSUME NEW s \in Section
      PROVE  /\ Start(r, s) \in Nat
             /\ Start(r, s + 1) = Start(r, s) + 1 + Tables[r][s]
             /\ Tables[r][s] \in Nat
             /\ E[Start(r, s) + 1] = C(s)
  <2>1. s = 1 \/ s = 2 \/ s = 3 \/ s = 4
    BY DEF Section
  <2>2. CASE s = 1
    <3>1. Start(r, s) = 0 /\ s + 1 = 2 /\ Start(r, s + 1) = z1
      BY <1>5, <2>2
    <3>2. E[Start(r, s) + 1] = C(s)
      BY <1>2, <1>7, <2>2, <3>1
    <3>3. Tables[r][s] = Tables[r][1]
      BY <2>2
    <3> QED
      BY <1>4, <3>1, <3>2, <3>3
  <2>3. CASE s = 2
    <3>1. Start(r, s) = z1 /\ s + 1 = 3 /\ Start(r, s + 1) = z1 + z2
      BY <1>5, <2>3
    <3>2. E[Start(r, s) + 1] = C(s)
      BY <1>2, <1>7, <2>3, <3>1
    <3>3. Tables[r][s] = Tables[r][2]
      BY <2>3
    <3> QED
      BY <1>4, <3>1, <3>2, <3>3
  <2>4. CASE s = 3
    <3>1. Start(r, s) = z1 + z2 /\ s + 1 = 4 /\ Start(r, s + 1) = z1 + z2 + z3
      BY <1>5, <2>4
    <3>2. E[Start(r, s) + 1] = C(s)
      BY <1>2, <1>7, <2>4, <3>1
    <3>3. Tables[r][s] = Tables[r][3]
      BY <2>4
    <3> QED
      BY <1>4, <3>1, <3>2, <3>3
  <2>5. CASE s = 4
    <3>1. Start(r, s) = z1 + z2 + z3 /\ s + 1 = 5 /\ Start(r, s + 1) = z1 + z2 + z3 + z4
      BY <1>5, <2>5
    <3>2. E[Start(r, s) + 1] = C(s)
      BY <1>2, <1>7, <2>5, <3>1
    <3>3. Tables[r][s] = Tables[r][4]
      BY <2>5
    <3> QED
      BY <1>4, <3>1, <3>2, <3>3
  <2> QED
    BY <2>1, <2>2, <2>3, <2>4, <2>5
<1>10. Start(r, 5) \in Nat /\ Start(r, 5) >= 1
  BY <1>2, <1>5
<1> QED
  BY <1>7, <1>5, <1>8, <1>9, <1>10 DEF C

-----------------------------------------------------------------------------
(* Types, in any interleaving of the programs *)

(* The cell read next is a cell. *)
LEMMA CellTyped ==
  ASSUME TypeOK, ~Ended
  PROVE  /\ Cell \in CellRec
         /\ Append(loading, Cell) \in Seq(CellRec)
         /\ Len(Append(loading, Cell)) = Len(loading) + 1
         /\ Len(loading) + 1 \in 1..Len(data_yt)
<1>1. data_yt \in Seq(CellRec) /\ loading \in Seq(CellRec)
  BY DEF TypeOK, CellRec
<1>2. Len(data_yt) \in Nat /\ Len(loading) \in Nat
  BY <1>1, LenProperties
<1>3. Len(loading) + 1 \in 1..Len(data_yt)
  BY <1>2 DEF Ended
<1>4. Cell \in CellRec
  BY <1>1, <1>3, ElementOfSeq DEF Cell
<1>5. Append(loading, Cell) \in Seq(CellRec) /\ Len(Append(loading, Cell)) = Len(loading) + 1
  BY <1>1, <1>4, AppendProperties
<1> QED
  BY <1>3, <1>4, <1>5

(* Typed at first. *)
LEMMA TypedInit == Init => Typed
<1> SUFFICES ASSUME Init
             PROVE  Typed
  OBVIOUS
<1>1. 1 \in Run
  <2>1. Len(Tables) \in Nat /\ Len(Tables) # 0 /\ Run = 1..Len(Tables)
    BY PagesAssumption, LenProperties, EmptySeq DEF Run
  <2> QED
    BY <2>1
<1>2. channels_write(1) \in Seq(CellRec)
  BY <1>1, Layout
<1>3. 1 \in 1..MaxTicks /\ 0 \in 0..MaxTicks /\ 0 \in 0..MaxEdits
  BY PagesAssumption
<1>4. <<0, 0>> \in Seq(0..MaxEdits) /\ <<>> \in Seq(0..MaxEdits) /\ <<>> \in Seq(CellRec)
  BY <1>3
<1>5. stat \in [time : 0..MaxTicks, at : 0..MaxTicks, size : Nat]
  BY <1>3 DEF Init, NoStat
<1>6. unwritten \in Seq(CellRec) /\ data_yt \in Seq(CellRec) /\ loading \in Seq(CellRec)
      /\ channels \in Seq(CellRec)
  BY <1>2, <1>4 DEF Init
<1>7. /\ clock \in 1..MaxTicks
      /\ style \in [time : 1..MaxTicks, edits : 0..MaxEdits, cells : Seq(0..MaxEdits)]
  BY <1>3, <1>4 DEF Init
<1>8. css \in [time : 0..MaxTicks, at : 0..MaxTicks, data : BOOLEAN, cells : Seq(0..MaxEdits)]
  BY <1>3, <1>4 DEF Init, NoCss
<1>9. run = 1 /\ crashed = FALSE /\ pc = "idle" /\ section = 1 /\ want = 0
  BY DEF Init
<1>10. run \in Run /\ section \in Section /\ want \in Nat
  BY <1>1, <1>9 DEF Section
<1> QED
  BY <1>5, <1>6, <1>7, <1>8, <1>9, <1>10 DEF Typed, TypeOK, Wanted, CellRec

(* Every step keeps the types. *)
LEMMA TypedStep == Typed /\ [Next]_vars => Typed'
<1> SUFFICES ASSUME Typed, [Next]_vars
             PROVE  Typed'
  OBVIOUS
<1> USE DEF Typed
<1>1. /\ <<>> \in Seq(CellRec) /\ run \in Run /\ section \in Section /\ want \in Nat
      /\ clock \in 1..MaxTicks /\ MaxTicks \in Nat /\ MaxEdits \in Nat
      /\ style \in [time : 1..MaxTicks, edits : 0..MaxEdits, cells : Seq(0..MaxEdits)]
      /\ Len(style.cells) \in Nat
  BY PagesAssumption, LenProperties DEF TypeOK
<1>2. CASE vids_open
  <2>1. unwritten' \in Seq(CellRec)
    BY <1>2, Layout DEF vids_open
  <2> QED
    BY <1>1, <1>2, <2>1 DEF vids_open, TypeOK, Wanted, CellRec, load
<1>3. CASE vids_write
  <2>1. unwritten \in Seq(CellRec) /\ data_yt \in Seq(CellRec) /\ unwritten # <<>>
    BY <1>3 DEF TypeOK, CellRec, vids_write
  <2>2. Head(unwritten) \in CellRec /\ Tail(unwritten) \in Seq(CellRec)
    BY <2>1, HeadTailProperties
  <2>3. Append(data_yt, Head(unwritten)) \in Seq(CellRec)
    BY <2>1, <2>2, AppendProperties
  <2> QED
    BY <1>1, <1>3, <2>2, <2>3 DEF vids_write, TypeOK, Wanted, CellRec, load
<1>4. CASE vids_crash
  BY <1>1, <1>4 DEF vids_crash, TypeOK, Wanted, CellRec, load, files
<1>5. ASSUME NEW cells \in Seq(0..MaxEdits), Written(cells) PROVE Typed'
  <2>1. style' \in [time : 1..MaxTicks, edits : 0..MaxEdits, cells : Seq(0..MaxEdits)]
    BY <1>1, <1>5 DEF Written
  <2> QED
    BY <1>1, <1>5, <2>1 DEF Written, TypeOK, Wanted, vids, load
<1>6. CASE edit_open \/ edit_write
  <2>1. <<>> \in Seq(0..MaxEdits)
    OBVIOUS
  <2>2. CASE edit_open
    BY <1>5, <2>1, <2>2 DEF edit_open
  <2>3. CASE edit_write
    <3>1. style.edits + 1 \in 0..MaxEdits
      BY <1>1, <2>3 DEF edit_write, Written
    <3>2. Append(style.cells, style.edits + 1) \in Seq(0..MaxEdits)
      BY <1>1, <3>1, AppendProperties
    <3> QED
      BY <1>5, <2>3, <3>2 DEF edit_write
  <2> QED
    BY <1>6, <2>2, <2>3
<1>7. CASE file_stat
  <2>1. stat' \in [time : 0..MaxTicks, at : 0..MaxTicks, size : Nat]
    BY <1>1, <1>7 DEF file_stat
  <2>2. pc' \in {"idle", "css"}
    BY <1>7 DEF file_stat
  <2> QED
    BY <1>1, <1>7, <2>1, <2>2 DEF file_stat, TypeOK, Wanted, vids, files, load
<1>8. CASE read_css
  <2>1. /\ stat \in [time : 0..MaxTicks, at : 0..MaxTicks, size : Nat]
        /\ css \in [time : 0..MaxTicks, at : 0..MaxTicks, data : BOOLEAN,
                    cells : Seq(0..MaxEdits)]
    BY DEF TypeOK
  <2>2. css' \in [time : 0..MaxTicks, at : 0..MaxTicks, data : BOOLEAN,
                  cells : Seq(0..MaxEdits)]
    <3>1. CASE Len(style.cells) < stat.size
      BY <1>1, <1>8, <2>1, <3>1 DEF read_css
    <3>2. CASE Len(style.cells) >= stat.size
      <4>1. css' = [ time  |-> stat.time, at |-> stat.at, data  |-> css.data \/ stat.size > 0,
                     cells |-> SubSeq(style.cells, 1, stat.size) ]
        BY <1>1, <1>8, <2>1, <3>2 DEF read_css, Kept
      <4>2. SubSeq(style.cells, 1, stat.size) \in Seq(0..MaxEdits)
        <5>1. style.cells \in Seq(0..MaxEdits) /\ stat.size \in Nat
          BY <1>1, <2>1 DEF TypeOK
        <5>2. \A k \in 1..stat.size : style.cells[k] \in 0..MaxEdits
          <6> DEFINE V == 0..MaxEdits
                     cells == style.cells
                     size == stat.size
          <6>1. cells \in Seq(V) /\ size \in Nat /\ size <= Len(cells)
            BY <3>2, <5>1
          <6> HIDE DEF V, cells, size
          <6>2. \A k \in 1..size : cells[k] \in V
            BY <6>1, ElementOfSeq
          <6> QED
            BY <6>2 DEF V, cells, size
        <5> QED
          BY <5>1, <5>2, SubSeqProperties
      <4>3. (css.data \/ stat.size > 0) \in BOOLEAN
        OBVIOUS
      <4> QED
        BY <2>1, <4>1, <4>2, <4>3
    <3> QED
      BY <1>1, <2>1, <3>1, <3>2
  <2>3. pc' \in {"idle", "shrunk"}
    BY <1>8 DEF read_css
  <2> QED
    BY <1>1, <1>8, <2>2, <2>3 DEF read_css, TypeOK, Wanted, vids, files, load
<1>9. CASE load_vids
  BY <1>1, <1>9 DEF load_vids, TypeOK, Wanted, CellRec, vids, files, Section
<1>10. CASE read_count
  <2>1. Cell \in CellRec /\ loading' \in Seq(CellRec)
    BY <1>10, CellTyped DEF read_count
  <2>2. Tables[Cell.run][section] \in Nat
    BY <1>1, <2>1, TableSizes DEF CellRec
  <2>3. PICK n \in Nat : want' = n /\ Go_on(n = 0)
    BY <1>10, <2>2, PagesAssumption DEF read_count, Empty
  <2>4. pc' \in {"count", "items", "eof"} /\ (pc' = "items" => n # 0) /\ section' \in Section
    BY <1>1, <2>3 DEF Go_on, Section
  <2> QED
    BY <1>1, <1>10, <2>1, <2>3, <2>4 DEF read_count, TypeOK, Wanted, CellRec, vids, files
<1>11. CASE read_item
  <2>1. loading' \in Seq(CellRec)
    BY <1>11, CellTyped DEF read_item
  <2>2. want' \in Nat /\ (want # 1 => want' >= 1)
    BY <1>1, <1>11 DEF read_item, Wanted
  <2>3. /\ pc' \in {"count", "items", "eof"} /\ (pc' = "items" => want # 1)
        /\ section' \in Section
    BY <1>1, <1>11 DEF read_item, Go_on, Section
  <2> QED
    BY <1>1, <1>11, <2>1, <2>2, <2>3 DEF read_item, TypeOK, Wanted, CellRec, vids, files
<1>12. CASE read_failed
  BY <1>1, <1>12 DEF read_failed, Read_short, TypeOK, Wanted, vids, files, load
<1>13. CASE eof_check
  BY <1>1, <1>13 DEF eof_check, TypeOK, Wanted, vids, files, load
<1>14. CASE UNCHANGED vars
  BY <1>1, <1>14 DEF vars, TypeOK, Wanted, vids, files, load
<1>15. CASE tick
  BY <1>1, <1>15 DEF tick, TypeOK, Wanted, vids, load
<1> QED
  BY <1>2, <1>3, <1>4, <1>6, <1>7, <1>8, <1>9, <1>10, <1>11, <1>12, <1>13, <1>14, <1>15 DEF Next

-----------------------------------------------------------------------------
(* The style sheet: a write is later than what was found by a stat in an   *)
(* earlier tick.                                                           *)

(* Nothing is cached at first. *)
LEMMA CssInit == Init => CssInv
BY DEF Init, CssInv, CssNotStale, NoCss, NoStat

(* Every step keeps the cache right. *)
LEMMA CssStep == Typed /\ CssInv /\ [Next]_vars => CssInv'
<1> SUFFICES ASSUME Typed, CssInv, [Next]_vars
             PROVE  CssInv'
  OBVIOUS
<1>1. /\ clock \in Nat /\ style.time \in Nat /\ stat.size \in Nat
      /\ css.time \in Nat /\ css.at \in Nat /\ stat.time \in Nat /\ stat.at \in Nat
      /\ style.cells \in Seq(0..MaxEdits) /\ Len(style.cells) \in Nat
  <2>1. clock \in Nat /\ style.time \in Nat /\ style.cells \in Seq(0..MaxEdits)
    BY DEF Typed, TypeOK
  <2>2. Len(style.cells) \in Nat
    BY <2>1, LenProperties
  <2>3. /\ css.time \in Nat /\ css.at \in Nat
        /\ stat.time \in Nat /\ stat.at \in Nat /\ stat.size \in Nat
    BY DEF Typed, TypeOK
  <2> QED
    BY <2>1, <2>2, <2>3
<1>2. style.time <= clock /\ stat.at <= clock /\ css.at <= clock
  BY DEF CssInv
<1>3. CASE edit_open \/ edit_write
  <2>1. style'.time = clock /\ UNCHANGED <<clock, pc, stat, css>>
    BY <1>3 DEF edit_open, edit_write, Written
  <2> QED
    BY <1>1, <1>2, <2>1 DEF CssInv, CssNotStale
<1>4. ASSUME UNCHANGED <<style, clock, stat, css>>, pc' = "css" => pc = "css"
      PROVE  CssInv'
  BY <1>4 DEF CssInv, CssNotStale
<1>5. CASE tick
  BY <1>1, <1>2, <1>5 DEF tick, CssInv, CssNotStale
<1>6. CASE file_stat
  BY <1>1, <1>6 DEF file_stat, files, CssInv, CssNotStale
<1>7. CASE read_css
  <2>1. CASE Len(style.cells) < stat.size
    BY <1>1, <1>7, <2>1 DEF read_css, files, CssInv, CssNotStale
  <2>2. CASE Len(style.cells) >= stat.size
    <3>1. /\ css'.time = stat.time /\ css'.at = stat.at
          /\ css'.cells = SubSeq(style.cells, 1, stat.size)
          /\ pc' = "idle" /\ UNCHANGED <<style, clock, stat>>
      BY <1>1, <1>7, <2>2 DEF read_css, Kept, files
    <3>2. stat.time = style.time /\ stat.at > stat.time => css'.cells = style.cells
      <4>1. stat.time = style.time /\ stat.at > stat.time => stat.size = Len(style.cells)
        BY <1>7 DEF CssInv, read_css
      <4> QED
        BY <1>1, <3>1, <4>1, SubSeqFull
    <3> QED
      BY <1>2, <3>1, <3>2 DEF CssInv, CssNotStale
  <2> QED
    BY <1>1, <2>1, <2>2
<1>8. CASE read_count
  <2>1. PICK n : Go_on(Empty(n))
    BY <1>8 DEF read_count
  <2> QED
    BY <1>4, <1>8, <2>1 DEF read_count, Go_on, files
<1>9. CASE vids_open \/ vids_write \/ vids_crash \/ UNCHANGED vars
  BY <1>4, <1>9 DEF vids_open, vids_write, vids_crash, vars, files
<1>10. CASE load_vids \/ read_item \/ read_failed \/ eof_check
  BY <1>4, <1>10 DEF load_vids, read_item, read_failed, eof_check, Go_on, Read_short, files
<1> QED
  BY <1>3, <1>5, <1>6, <1>7, <1>8, <1>9, <1>10 DEF Next

-----------------------------------------------------------------------------
(* The table, when vids.c does not write while it is read *)

(* The file and what is read or still to be written are sequences of       *)
(* cells.                                                                  *)
LEMMA CellsTyped ==
  ASSUME TypeOK
  PROVE  /\ data_yt \in Seq(CellRec) /\ Len(data_yt) \in Nat
         /\ loading \in Seq(CellRec) /\ Len(loading) \in Nat
         /\ unwritten \in Seq(CellRec) /\ Len(unwritten) \in Nat
         /\ channels_write(run) \in Seq(CellRec) /\ Len(channels_write(run)) \in Nat
<1>1. data_yt \in Seq(CellRec) /\ loading \in Seq(CellRec) /\ unwritten \in Seq(CellRec)
  BY DEF TypeOK, CellRec
<1>2. channels_write(run) \in Seq(CellRec)
  BY Layout DEF TypeOK
<1> QED
  BY <1>1, <1>2, LenProperties

(* Nothing is written or read at first. *)
LEMMA TableInit == Init => TableInv
<1> SUFFICES ASSUME Init
             PROVE  TableInv
  OBVIOUS
<1>1. TypeOK
  BY TypedInit DEF Typed
<1>2. data_yt = channels_write(run) /\ unwritten = <<>> /\ pc = "idle" /\ channels = <<>>
  BY DEF Init
<1>3. Len(unwritten) = 0
  BY <1>2
<1>4. File
  BY <1>1, <1>2, <1>3, CellsTyped DEF File
<1> QED
  BY <1>2, <1>4 DEF TableInv, Reading, LoadsWholeTable

(* A cell more of the file has been read. *)
LEMMA ReadOn ==
  ASSUME TypeOK, TableInv, Reading, ~Ended, loading' = Append(loading, Cell), UNCHANGED data_yt
  PROVE  /\ Len(loading') = Len(loading) + 1
         /\ Len(loading') <= Len(data_yt')
         /\ \A k \in 1..Len(loading') : loading'[k] = data_yt'[k]
<1>1. /\ loading \in Seq(CellRec) /\ Len(loading) \in Nat /\ Len(data_yt) \in Nat
      /\ Cell \in CellRec /\ Len(loading') = Len(loading) + 1
  BY CellsTyped, CellTyped
<1>2. \A k \in 1..Len(loading) : loading[k] = data_yt[k]
  BY DEF TableInv, Loaded
<1>3. ASSUME NEW k \in 1..Len(loading')
      PROVE  loading'[k] = data_yt[k]
  <2>1. CASE k \in 1..Len(loading)
    BY <1>1, <1>2, <2>1, AppendProperties
  <2>2. CASE k = Len(loading) + 1
    BY <1>1, <2>2, AppendProperties DEF Cell
  <2> QED
    BY <1>1, <2>1, <2>2
<1>4. Len(loading) + 1 <= Len(data_yt)
  BY <1>1 DEF Ended
<1> QED
  BY <1>1, <1>3, <1>4

(* Every step keeps file and reader in the layout, as long as no run       *)
(* writes during a read.                                                   *)
LEMMA TableStep ==
  ASSUME ~Overlap, Typed, Typed', TableInv, [Next]_vars
  PROVE  TableInv'
<1> USE DEF Typed
<1> DEFINE table == channels_write(run)
<1>1. /\ data_yt \in Seq(CellRec) /\ Len(data_yt) \in Nat
      /\ loading \in Seq(CellRec) /\ Len(loading) \in Nat
      /\ unwritten \in Seq(CellRec) /\ Len(unwritten) \in Nat
      /\ table \in Seq(CellRec) /\ Len(table) \in Nat
      /\ run \in Run /\ section \in Section /\ want \in Nat
  BY CellsTyped DEF TypeOK
<1>2. File /\ LoadsWholeTable
  BY DEF TableInv
<1>3. Reading => Loaded
  BY DEF TableInv
<1>4. ASSUME UNCHANGED <<run, unwritten, data_yt>>
      PROVE  File'
  BY <1>2, <1>4 DEF File, channels_write, Array, Count, Item
<1>5. ASSUME UNCHANGED channels
      PROVE  LoadsWholeTable'
  BY <1>2, <1>5 DEF LoadsWholeTable, channels_write, Array, Count, Item
<1>6. CASE vids_open
  <2>1. /\ ~Reading' /\ data_yt' = <<>> /\ unwritten' = channels_write(run') /\ UNCHANGED channels
        /\ run' \in Run
    BY <1>6 DEF vids_open, MayWrite, Reading
  <2>2. channels_write(run') \in Seq(CellRec)
    BY <2>1, Layout
  <2>3. Len(data_yt') = 0 /\ Len(channels_write(run')) \in Nat
    BY <2>1, <2>2, LenProperties
  <2>4. /\ Len(data_yt') <= Len(channels_write(run'))
        /\ \A k \in 1..Len(data_yt') : data_yt'[k] = channels_write(run')[k]
        /\ unwritten' # <<>> => Len(data_yt') + Len(unwritten') = Len(channels_write(run'))
        /\ \A k \in 1..Len(unwritten') : unwritten'[k] = channels_write(run')[Len(data_yt') + k]
    BY <2>1, <2>3
  <2>5. File'
    BY <2>4 DEF File, channels_write, Array, Count, Item
  <2> QED
    BY <1>5, <2>1, <2>5 DEF TableInv
<1>7. CASE vids_write
  <2>1. /\ ~Reading' /\ UNCHANGED <<run, channels>> /\ unwritten # <<>>
        /\ data_yt' = Append(data_yt, Head(unwritten)) /\ unwritten' = Tail(unwritten)
    BY <1>7 DEF vids_write, MayWrite, Reading
  <2>2. /\ Head(unwritten) = unwritten[1] /\ Head(unwritten) \in CellRec
        /\ Len(Tail(unwritten)) = Len(unwritten) - 1
        /\ \A k \in 1..Len(Tail(unwritten)) : Tail(unwritten)[k] = unwritten[k + 1]
    BY <1>1, <2>1, HeadTailProperties
  <2>3. Len(unwritten) >= 1
    BY <1>1, <2>1, EmptySeq
  <2>4. /\ Len(data_yt') = Len(data_yt) + 1
        /\ \A k \in 1..Len(data_yt) : data_yt'[k] = data_yt[k]
        /\ data_yt'[Len(data_yt) + 1] = unwritten[1]
    BY <1>1, <2>1, <2>2, AppendProperties
  <2>5. /\ Len(data_yt) + Len(unwritten) = Len(table)
        /\ \A k \in 1..Len(data_yt) : data_yt[k] = table[k]
        /\ \A k \in 1..Len(unwritten) : unwritten[k] = table[Len(data_yt) + k]
    BY <1>2, <2>1 DEF File
  <2>6. ASSUME NEW k \in 1..Len(data_yt')
        PROVE  data_yt'[k] = table[k]
    <3>1. CASE k \in 1..Len(data_yt)
      BY <2>4, <2>5, <3>1
    <3>2. CASE k = Len(data_yt) + 1
      <4>1. unwritten[1] = table[Len(data_yt) + 1]
        BY <1>1, <2>3, <2>5
      <4> QED
        BY <2>4, <3>2, <4>1
    <3> QED
      BY <1>1, <2>4, <3>1, <3>2
  <2>7. ASSUME NEW k \in 1..Len(unwritten')
        PROVE  unwritten'[k] = table[Len(data_yt') + k]
    <3>1. k + 1 \in 1..Len(unwritten) /\ Len(data_yt) + (k + 1) = Len(data_yt') + k
      BY <1>1, <2>1, <2>2, <2>4
    <3>2. unwritten'[k] = unwritten[k + 1]
      BY <2>1, <2>2
    <3>3. unwritten[k + 1] = table[Len(data_yt) + (k + 1)]
      BY <2>5, <3>1
    <3> QED
      BY <3>1, <3>2, <3>3
  <2>8. Len(data_yt') + Len(unwritten') = Len(table) /\ Len(data_yt') <= Len(table)
    BY <1>1, <2>1, <2>2, <2>3, <2>4, <2>5
  <2>9. channels_write(run') = table
    BY <2>1
  <2> HIDE DEF table
  <2>10. /\ Len(data_yt') <= Len(channels_write(run'))
         /\ \A k \in 1..Len(data_yt') : data_yt'[k] = channels_write(run')[k]
         /\ unwritten' # <<>> => Len(data_yt') + Len(unwritten') = Len(channels_write(run'))
         /\ \A k \in 1..Len(unwritten') : unwritten'[k] = channels_write(run')[Len(data_yt') + k]
    BY <2>6, <2>7, <2>8, <2>9
  <2>11. File'
    BY <2>10 DEF File, channels_write, Array, Count, Item
  <2> QED
    BY <1>5, <2>1, <2>11 DEF TableInv
<1>8. CASE vids_crash
  <2>1. /\ UNCHANGED <<run, data_yt, pc, load, channels>> /\ unwritten' = <<>>
    BY <1>8 DEF vids_crash, files
  <2>2. Len(unwritten') = 0
    BY <2>1
  <2>3. /\ Len(data_yt') <= Len(channels_write(run'))
        /\ \A k \in 1..Len(data_yt') : data_yt'[k] = channels_write(run')[k]
    BY <1>2, <2>1 DEF File, channels_write, Array, Count, Item
  <2>4. /\ unwritten' # <<>> => Len(data_yt') + Len(unwritten') = Len(channels_write(run'))
        /\ \A k \in 1..Len(unwritten') : unwritten'[k] = channels_write(run')[Len(data_yt') + k]
    BY <2>1, <2>2
  <2>5. File'
    BY <2>3, <2>4 DEF File, channels_write, Array, Count, Item
  <2>6. (Reading => Loaded)'
    BY <1>3, <2>1 DEF Reading, Loaded, load, Start, Size
  <2> QED
    BY <1>5, <2>1, <2>5, <2>6 DEF TableInv
<1>9. CASE edit_open \/ edit_write \/ tick \/ file_stat \/ read_css \/ read_failed \/ UNCHANGED vars
  <2>1. /\ UNCHANGED <<run, unwritten, data_yt, load, channels>>
        /\ pc' = pc \/ ~Reading'
    BY <1>9 DEF edit_open, edit_write, Written, tick, file_stat, read_css, read_failed, Read_short, vars,
       vids, files, Reading
  <2>2. (Reading => Loaded)'
    BY <1>3, <2>1 DEF Reading, Loaded, load, Start, Size
  <2> QED
    BY <1>4, <1>5, <2>1, <2>2 DEF TableInv
<1>10. CASE load_vids
  <2>1. /\ UNCHANGED <<run, unwritten, data_yt, channels>> /\ pc' = "count"
        /\ loading' = <<>> /\ section' = 1
    BY <1>10 DEF load_vids, vids, files
  <2>2. Len(loading') = 0 /\ Start(run', 1) = 0
    BY <2>1 DEF Start
  <2>3. Loaded'
    BY <1>1, <2>1, <2>2 DEF Loaded
  <2> QED
    BY <1>4, <1>5, <2>1, <2>3 DEF TableInv
\* What array_read leaves behind, wherever it ends.
<1>11. ASSUME NEW array_read \in BOOLEAN, Go_on(array_read), Reading, ~Ended,
              loading' = Append(loading, Cell),
              UNCHANGED <<run, unwritten, data_yt, channels>>,
              array_read => Len(loading) + 1 = Start(run, section + 1),
              ~array_read => Len(loading) + 1 + want' = Start(run, section + 1)
       PROVE  TableInv'
  <2>1. /\ Len(loading') = Len(loading) + 1 /\ Len(loading') <= Len(data_yt')
        /\ \A k \in 1..Len(loading') : loading'[k] = data_yt'[k]
    BY <1>11, ReadOn
  <2>2. pc' = "count" => Len(loading') = Start(run, section')
    BY <1>1, <1>11, <2>1 DEF Go_on, Section
  <2>3. pc' = "items" => Len(loading') + want' = Start(run, section' + 1)
    BY <1>1, <1>11, <2>1 DEF Go_on
  <2>4. pc' = "eof" => Len(loading') = Start(run, 5)
    <3>1. pc' = "eof" => array_read /\ section = 4
      BY <1>11 DEF Go_on
    <3> QED
      BY <1>11, <2>1, <3>1
  <2>5. run' = run
    BY <1>11
  <2>6. Loaded'
    BY <2>1, <2>2, <2>3, <2>4, <2>5 DEF Loaded, Start, Size
  <2> QED
    BY <1>4, <1>5, <1>11, <2>6 DEF TableInv
<1>12. CASE read_count
  <2>1. /\ UNCHANGED <<run, unwritten, data_yt, channels>> /\ pc = "count" /\ ~Ended
        /\ loading' = Append(loading, Cell)
    BY <1>12 DEF read_count, vids, files
  <2>2. Len(loading) = Start(run, section) /\ Reading
    BY <1>3, <2>1 DEF Loaded, Reading
  <2>3. Cell = [run |-> run, section |-> section, count |-> TRUE]
    <3>1. Len(loading) + 1 \in 1..Len(data_yt)
      BY <1>1, <2>1 DEF Ended
    <3>2. Cell = table[Len(loading) + 1]
      BY <1>2, <3>1 DEF File, Cell
    <3> QED
      BY <1>1, <2>2, <3>2, Layout
  <2>4. want' = Tables[run][section] /\ Go_on(want' = 0)
    BY <1>12, <2>3 DEF read_count, Empty
  <2>5. /\ Start(run, section + 1) = Start(run, section) + 1 + Tables[run][section]
        /\ Tables[run][section] \in Nat /\ Start(run, section) \in Nat
    BY <1>1, Layout
  <2>6. /\ (want' = 0) => Len(loading) + 1 = Start(run, section + 1)
        /\ ~(want' = 0) => Len(loading) + 1 + want' = Start(run, section + 1)
    BY <2>2, <2>4, <2>5
  <2> QED
    BY <1>11, <2>1, <2>2, <2>4, <2>6
<1>13. CASE read_item
  <2>1. /\ UNCHANGED <<run, unwritten, data_yt, channels>> /\ pc = "items" /\ ~Ended
        /\ loading' = Append(loading, Cell) /\ want' = want - 1 /\ Go_on(want = 1)
    BY <1>13 DEF read_item, vids, files
  <2>2. Len(loading) + want = Start(run, section + 1) /\ Reading
    BY <1>3, <2>1 DEF Loaded, Reading
  <2>3. /\ (want = 1) => Len(loading) + 1 = Start(run, section + 1)
        /\ ~(want = 1) => Len(loading) + 1 + want' = Start(run, section + 1)
    BY <1>1, <2>1, <2>2
  <2> QED
    BY <1>11, <2>1, <2>2, <2>3
<1>14. CASE eof_check
  <2>1. UNCHANGED <<run, unwritten, data_yt>> /\ ~Reading' /\ pc = "eof"
    BY <1>14 DEF eof_check, vids, files, Reading
  <2>2. LoadsWholeTable'
    <3>1. CASE Ended /\ channels' = loading
      <4>1. Len(loading) = Start(run, 5) /\ Len(loading) <= Len(data_yt)
        BY <1>3, <2>1 DEF Loaded, Reading
      <4>2. Len(table) = Start(run, 5) /\ Len(data_yt) <= Len(table)
        BY <1>1, <1>2, Layout DEF File
      <4>3. Len(loading) = Len(table) /\ Len(loading) = Len(data_yt)
        BY <1>1, <4>1, <4>2
      <4>4. \A k \in 1..Len(loading) : loading[k] = table[k]
        BY <1>2, <1>3, <2>1, <4>3 DEF File, Loaded, Reading
      <4>5. loading = table
        BY <1>1, <4>3, <4>4, SeqEqual
      <4> QED
        BY <1>1, <3>1, <4>5 DEF LoadsWholeTable, channels_write, Array, Count, Item
    <3>2. CASE UNCHANGED channels
      BY <1>5, <3>2
    <3> QED
      BY <1>14, <3>1, <3>2 DEF eof_check
  <2> QED
    BY <1>4, <2>1, <2>2 DEF TableInv
<1> QED
  BY <1>6, <1>7, <1>8, <1>9, <1>10, <1>12, <1>13, <1>14 DEF Next

-----------------------------------------------------------------------------
(* The parts together, at first. *)
LEMMA InitInv == Init => IInv
BY TypedInit, CssInit, TableInit DEF IInv

(* The parts together, by every step. *)
LEMMA NextInv == IInv /\ [Next]_vars => IInv'
<1> SUFFICES ASSUME IInv, [Next]_vars
             PROVE  IInv'
  OBVIOUS
<1>1. Typed'
  BY TypedStep DEF IInv
<1>2. CssInv'
  BY CssStep DEF IInv
<1>3. ~Overlap => TableInv'
  BY <1>1, TableStep DEF IInv
<1> QED
  BY <1>1, <1>2, <1>3 DEF IInv

(* The inductive invariant of ser_lin.c's pages and the programs that      *)
(* write their files.                                                      *)
THEOREM Invariant == Spec => []IInv
<1> QED
  BY InitInv, NextInv, PTL DEF Spec

(* Files, tables and caches keep their types in method_get, channels_load  *)
(* and channels_write, whatever counts are read from a wrong place.        *)
THEOREM TypeCorrect == Spec => []TypeOK
<1>1. IInv => TypeOK
  BY DEF IInv, Typed
<1> QED
  BY <1>1, Invariant, PTL

(* When method_get answers /style.css from its cache, and the file_stat    *)
(* that filled the cache came in a later tick than the last write it could *)
(* find, it answers with what is in the file: however many writes come     *)
(* between that file_stat and its read, or share ticks of their own.       *)
THEOREM CssFresh == Spec => []CssNotStale
<1>1. IInv => CssNotStale
  BY DEF IInv, CssInv
<1> QED
  BY <1>1, Invariant, PTL

(* Provided vids.c does not write while the server reads, channels_load    *)
(* accepts only a whole data.yt, wherever crashes of vids.c ended it: the  *)
(* counts it reads are those of its arrays, and they add up to the file's  *)
(* length in the last cell only.                                           *)
THEOREM WholeTable ==
  ASSUME Overlap = FALSE
  PROVE  Spec => []LoadsWholeTable
<1>1. IInv => LoadsWholeTable
  BY DEF IInv, TableInv
<1> QED
  BY <1>1, Invariant, PTL

=============================================================================
