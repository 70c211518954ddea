---------------------------- MODULE BuildProofs -----------------------------
(***************************************************************************)
(* Proofs about module Build, for any number of edits and any length of    *)
(* time: a program is always left, a failed compilation changes nothing,   *)
(* and the program that goes on is the one it should be.                   *)
(***************************************************************************)
EXTENDS Build, TLAPS

(* Between these steps the program is where it was started from. *)
InPlace == {"started", "compare", "remove_old", "rename", "main", "failed"}

(* Between these it is moved away, or could not be, on Windows. *)
MovedAway == {"compile", "compiling", "rename_back"}

(* It was found to be behind build.c, and still is. *)
Behind == {"remove_old", "rename", "compile", "compiling", "rename_back", "failed"}

Placed ==
  /\ pc \in InPlace => exe = running
  /\ pc \in MovedAway => (exe = NoFile /\ old = running) \/ (windows /\ exe = running)
  /\ pc = "execute" => exe # NoFile
  /\ pc = "idle" => exe # NoFile \/ old # NoFile

Timed ==
  /\ source.time <= clock
  /\ exe # NoFile => exe.time <= clock
  /\ pc = "compare" => exe_time = exe.time
  /\ pc \in Behind => source.time > running.time

(* A program that is not of the present build.c is older than it, unless   *)
(* an edit raced its compilation.                                          *)
Current == exe # NoFile => exe.ver = source.ver \/ raced \/ source.time > exe.time

(* The inductive invariant: no single step keeps ProgramKept, FailureRestores *)
(* or MainIsCurrent by itself.                                             *)
Inv == TypeOK /\ Placed /\ Timed /\ Current /\ MainIsCurrent

(* Before the first build. *)
LEMMA InitInv == Init => Inv
  <1> SUFFICES ASSUME Init PROVE Inv
    OBVIOUS
  <1> USE DEF Init
  <1>1. 0 \in Version /\ 0 \in Time
    BY BuildAssumption DEF Version, Time
  <1>2. TypeOK
    BY <1>1 DEF TypeOK, File, Source
  <1>3. exe # NoFile
    BY <1>1, BuildAssumption DEF File
  <1> QED
    BY <1>2, <1>3, BuildAssumption
    DEF Inv, Placed, Timed, Current, MainIsCurrent, InPlace, MovedAway, Behind

(* The type is kept by every step. *)
LEMMA TypeStep == TypeOK /\ [Next]_vars => TypeOK'
  <1> SUFFICES ASSUME TypeOK, [Next]_vars PROVE TypeOK'
    OBVIOUS
  <1> USE BuildAssumption DEF TypeOK, files, program, system, Ended
  <1>1. CASE exe_mod_time  BY <1>1 DEF exe_mod_time, File
  <1>2. CASE compare       BY <1>2 DEF compare, Source
  <1>3. CASE remove_old    BY <1>3 DEF remove_old, In_use
  <1>4. CASE rename        BY <1>4 DEF rename, Moved_away
  <1>5. CASE compiler_reads  BY <1>5 DEF compiler_reads
  <1>6. CASE compiler_writes
    <2>1. exe' \in File
      BY <1>6 DEF compiler_writes, Compiled, File, Source
    <2> QED BY <1>6, <2>1 DEF compiler_writes
  <1>7. CASE compiler_fails  BY <1>7 DEF compiler_fails
  <1>8. CASE rename_back   BY <1>8 DEF rename_back, Moved_back
  <1>9. CASE execute_argv  BY <1>9 DEF execute_argv, Started_from
  <1>10. CASE return       BY <1>10 DEF return
  <1>11. CASE crash        BY <1>11 DEF crash
  <1>12. CASE start        BY <1>12 DEF start
  <1>13. CASE bootstrap
    <2>1. exe' \in File
      BY <1>13 DEF bootstrap, File, Source
    <2> QED BY <1>13, <2>1 DEF bootstrap
  <1>14. CASE edit
    <2>1. source' \in Source
      BY <1>14 DEF edit, Source, Version
    <2> QED BY <1>14, <2>1 DEF edit
  <1>15. CASE tick
    <2>1. clock' \in Time
      BY <1>15 DEF tick, Time
    <2> QED BY <1>15, <2>1 DEF tick
  <1>16. CASE compile_exits  BY <1>16 DEF compile_exits
  <1>17. CASE UNCHANGED vars  BY <1>17 DEF vars
  <1> QED
    BY <1>1, <1>2, <1>3, <1>4, <1>5, <1>6, <1>7, <1>8, <1>9, <1>10, <1>11,
       <1>12, <1>13, <1>14, <1>15, <1>16, <1>17 DEF Next

(* One step of the program at a time: where the program is, what is known  *)
(* of the times, and which version it is of.                               *)
LEMMA InvStep == Inv /\ [Next]_vars => Inv'
  <1> SUFFICES ASSUME Inv, [Next]_vars PROVE Inv'
    OBVIOUS
  <1>0. TypeOK'
    BY TypeStep DEF Inv
  <1> SUFFICES (Placed /\ Timed /\ Current /\ MainIsCurrent)'
    BY <1>0 DEF Inv
  <1>a. /\ clock \in Nat /\ source.time \in Nat /\ running.time \in Nat
        /\ exe_time \in Nat
        /\ exe # NoFile => exe.time \in Nat
        /\ running # NoFile
    BY BuildAssumption DEF Inv, TypeOK, File, Source, Time
  <1> USE <1>a DEF Inv, Placed, Timed, Current, MainIsCurrent, InPlace, MovedAway, Behind,
               files, program, system, Ended
  <1>1. CASE exe_mod_time  BY <1>1 DEF exe_mod_time
  <1>2. CASE compare       BY <1>2 DEF compare, Newer
  <1>3. CASE remove_old    BY <1>3 DEF remove_old, In_use
  <1>4. CASE rename        BY <1>4 DEF rename, Moved_away
  <1>5. CASE compiler_reads  BY <1>5 DEF compiler_reads
  <1>6. CASE compiler_writes
    <2>1. exe' # NoFile /\ exe'.time = clock /\ exe'.ver = object.ver
      BY <1>6, BuildAssumption DEF compiler_writes, Compiled, File, Source, TypeOK
    <2>2. exe'.ver = source'.ver \/ raced'
      BY <1>6, <2>1 DEF compiler_writes
    <2> QED BY <1>6, <2>1, <2>2 DEF compiler_writes
  <1>7. CASE compiler_fails  BY <1>7 DEF compiler_fails
  <1>8. CASE rename_back   BY <1>8 DEF rename_back, Moved_back
  <1>9. CASE execute_argv  BY <1>9 DEF execute_argv, Started_from
  <1>10. CASE return       BY <1>10 DEF return
  <1>11. CASE crash        BY <1>11 DEF crash, TypeOK
  <1>12. CASE start        BY <1>12 DEF start
  <1>13. CASE bootstrap
    <2>1. exe' # NoFile /\ exe'.time = clock /\ exe'.ver = source.ver
      BY <1>13, BuildAssumption DEF bootstrap, File, Source, TypeOK
    <2> QED BY <1>13, <2>1 DEF bootstrap
  <1>14. CASE edit
    <2>1. /\ source'.time = clock
          /\ UNCHANGED <<exe, old, clock, windows, pc, running, exe_time, seen>>
      BY <1>14 DEF edit
    <2>2. (Placed /\ Timed /\ MainIsCurrent)'
      BY <2>1
    <2>3. exe # NoFile /\ exe.time = clock => raced'
      BY <1>14 DEF edit
    <2>4. Current'
      BY <2>1, <2>3
    <2> QED BY <2>2, <2>4
  <1>15. CASE tick         BY <1>15 DEF tick
  <1>16. CASE compile_exits  BY <1>16 DEF compile_exits
  <1>17. CASE UNCHANGED vars  BY <1>17 DEF vars
  <1> QED
    BY <1>1, <1>2, <1>3, <1>4, <1>5, <1>6, <1>7, <1>8, <1>9, <1>10, <1>11,
       <1>12, <1>13, <1>14, <1>15, <1>16, <1>17 DEF Next

(* Inv holds in every reachable state. *)
THEOREM Invariant == Spec => []Inv
  BY InitInv, InvStep, PTL DEF Spec

(* Every variable of module Build keeps its type: a version or a time out  *)
(* of range is never read from a file that is not there.                   *)
THEOREM TypeCorrect == Spec => []TypeOK
  <1>1. Inv => TypeOK
    BY DEF Inv
  <1> QED BY Invariant, <1>1, PTL

(* Between remove, rename, the compiler and rename back, whatever is       *)
(* killed and whenever: try_rebuild_self leaves a compiled program.        *)
THEOREM AlwaysAProgram == Spec => []ProgramKept
  <1>1. Inv => ProgramKept
    BY BuildAssumption
    DEF Inv, TypeOK, Placed, InPlace, MovedAway, ProgramKept
  <1> QED BY Invariant, <1>1, PTL

(* try_rebuild_self that returns the compiler's error has put the program  *)
(* back that it was started from.                                          *)
THEOREM FailureUndone == Spec => []FailureRestores
  <1>1. Inv => FailureRestores
    BY DEF Inv, Placed, InPlace, FailureRestores
  <1> QED BY Invariant, <1>1, PTL

(* The program that goes on to build the server is of the build.c it saw,  *)
(* unless an edit raced its compilation.                                   *)
THEOREM MainCurrent == Spec => []MainIsCurrent
  <1>1. Inv => MainIsCurrent
    BY DEF Inv
  <1> QED BY Invariant, <1>1, PTL

=============================================================================
