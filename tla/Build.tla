------------------------------- MODULE Build --------------------------------
(***************************************************************************)
(* The build program of build.h and build.c, which first brings itself up  *)
(* to date: try_rebuild_self compares its own modification time with that  *)
(* of build.c and, when it is behind, moves itself out of the way, has the *)
(* compiler write a new program in its place, and runs that with the same  *)
(* arguments.  With it: the user, who edits build.c at any time and starts *)
(* the program one run at a time, and crashes and signals between any two  *)
(* steps.                                                                  *)
(*                                                                         *)
(* A parent does nothing but wait for the child it executes, so only the   *)
(* innermost process of a run is modelled.  Times are whole seconds, which *)
(* is what mod_time keeps of them on Linux.  On Windows the image of a     *)
(* process cannot be removed or overwritten, but renamed, and rename does  *)
(* not replace a file.                                                     *)
(***************************************************************************)
EXTENDS Naturals

CONSTANTS
  MaxEdits,  \* bound of the model: edits of build.c
  MaxTime,   \* bound of the model: seconds
  NoFile

Version == 0..MaxEdits
Time    == 0..MaxTime
File    == [ver : Version, time : Time]

ASSUME BuildAssumption ==
  /\ MaxEdits \in Nat /\ MaxTime \in Nat
  /\ NoFile \notin File

VARIABLES
  \* the file system
  source,    \* build.c; ok: it compiles
  exe,       \* argv[0]
  old,       \* argv[0].old
  clock,
  \* the system
  windows,   \* whether it is Windows; never changes
  waiting,   \* a parent in this run was started from what is now `old`
  \* the running program
  pc,
  running,   \* the file it was started from
  exe_time,
  seen,      \* the version of build.c, and raced, when its time was read
  object,    \* what the compiler read of build.c
  \* history
  raced      \* build.c was edited while exe was compiled or in the second of its time

files   == <<source, exe, old, clock>>
system  == <<windows, waiting>>
program == <<pc, running, exe_time, seen, object>>
vars    == <<files, system, program, raced>>

Source == [ver : Version, time : Time, ok : BOOLEAN]

Init ==
  /\ source = [ver |-> 0, time |-> 0, ok |-> TRUE]
  /\ exe = [ver |-> 0, time |-> 0]
  /\ old = NoFile
  /\ clock = 0
  /\ windows \in BOOLEAN /\ waiting = FALSE
  /\ pc = "idle"
  /\ running = exe
  /\ exe_time = 0
  /\ seen = [ver |-> 0, raced |-> FALSE]
  /\ object = source
  /\ raced = FALSE

-----------------------------------------------------------------------------
(* try_rebuild_self. *)

Ended == pc' = "idle" /\ waiting' = FALSE

\* file_time_cmp(a, b) > 0
Newer_or_equal(a, b) == a >= b  \* mutant: >= 0

Newer(a, b) == a > b

(* mod_time(argv[0]) exits when there is no such file. *)
exe_mod_time ==
  /\ pc = "started"
  /\ exe # NoFile
  /\ exe_time' = exe.time
  /\ pc' = "compare"
  /\ UNCHANGED <<files, system, running, seen, object, raced>>

compare ==
  /\ pc = "compare"
  /\ seen' = [ver |-> source.ver, raced |-> raced]
  /\ pc' = IF Newer(source.time, exe_time) THEN "remove_old" ELSE "main"
  /\ UNCHANGED <<files, system, running, exe_time, object, raced>>

(* The results of remove and rename are not looked at. *)
In_use == windows /\ waiting

remove_old ==
  /\ pc = "remove_old"
  /\ old' = IF In_use THEN old ELSE NoFile
  /\ pc' = "rename"
  /\ UNCHANGED <<source, exe, clock, system, running, exe_time, seen, object, raced>>

Moved_away_lost == NoFile  \* mutant: the program is removed

Moved_away == exe

rename ==
  /\ pc = "rename"
  /\ \/ windows /\ old # NoFile /\ UNCHANGED <<exe, old>>
     \/ ~(windows /\ old # NoFile) /\ old' = Moved_away /\ exe' = NoFile
  /\ pc' = "compile"
  /\ UNCHANGED <<source, clock, system, running, exe_time, seen, object, raced>>

(* Nothing is renamed back when compile exits: the command line is longer  *)
(* than its buffer, or no process can be created.                          *)
compile_exits ==
  /\ pc = "compile"
  /\ Ended
  /\ UNCHANGED <<files, windows, running, exe_time, seen, object, raced>>

(* compile_w: the compiler reads build.c and, later, writes the program or *)
(* fails, as it does on Windows if the program could not be moved.         *)
compiler_reads ==
  /\ pc = "compile"
  /\ object' = source
  /\ pc' = "compiling"
  /\ UNCHANGED <<files, system, running, exe_time, seen, raced>>

Compiled_ahead == [ver |-> object.ver, time |-> clock + 1]  \* mutant: stamped by a clock that is ahead

Compiled == [ver |-> object.ver, time |-> clock]

compiler_writes ==
  /\ pc = "compiling"
  /\ object.ok /\ ~(windows /\ exe # NoFile)
  /\ exe' = Compiled
  /\ raced' = (object # source)
  /\ pc' = "execute"
  /\ UNCHANGED <<source, old, clock, system, running, exe_time, seen, object>>

compiler_fails ==
  /\ pc = "compiling"
  /\ pc' = "rename_back"
  /\ UNCHANGED <<files, system, running, exe_time, seen, object, raced>>

Moved_back_not == <<exe, old>>  \* mutant: the program stays moved away

Moved_back == <<old, NoFile>>

rename_back ==
  /\ pc = "rename_back"
  /\ \/ windows /\ exe # NoFile /\ UNCHANGED <<exe, old>>
     \/ ~(windows /\ exe # NoFile) /\ exe' = Moved_back[1] /\ old' = Moved_back[2]
  /\ pc' = "failed"
  /\ UNCHANGED <<source, clock, system, running, exe_time, seen, object, raced>>

(* execute_argv_w: a new process of the new program. *)
Started_from_old == old  \* mutant: the program that was moved away

Started_from == exe

execute_argv ==
  /\ pc = "execute"
  /\ Started_from # NoFile
  /\ running' = Started_from
  /\ waiting' = TRUE
  /\ pc' = "started"
  /\ UNCHANGED <<files, windows, exe_time, seen, object, raced>>

(* The rest of main, which builds the server, and the return to the shell. *)
return ==
  /\ pc \in {"main", "failed"}
  /\ Ended
  /\ UNCHANGED <<files, windows, running, exe_time, seen, object, raced>>

-----------------------------------------------------------------------------
(* The run is killed. *)
crash ==
  /\ pc # "idle"
  /\ Ended
  /\ UNCHANGED <<files, windows, running, exe_time, seen, object, raced>>

(* The user starts the program; without one, one is compiled by hand. *)
start ==
  /\ pc = "idle"
  /\ exe # NoFile
  /\ running' = exe
  /\ pc' = "started"
  /\ UNCHANGED <<files, system, exe_time, seen, object, raced>>

bootstrap ==
  /\ pc = "idle"
  /\ exe = NoFile /\ source.ok
  /\ exe' = [ver |-> source.ver, time |-> clock]
  /\ raced' = FALSE
  /\ UNCHANGED <<source, old, clock, system, program>>

(* build.c is written now; ok: what is written compiles. *)
edit ==
  /\ source.ver < MaxEdits
  /\ \E ok \in BOOLEAN :
       source' = [ver |-> source.ver + 1, time |-> clock, ok |-> ok]
  /\ raced' = (exe # NoFile /\ exe.time = clock)
  /\ UNCHANGED <<exe, old, clock, system, program>>

tick ==
  /\ clock < MaxTime
  /\ clock' = clock + 1
  /\ UNCHANGED <<source, exe, old, system, program, raced>>

-----------------------------------------------------------------------------
Program ==
  \/ exe_mod_time \/ compare \/ remove_old \/ rename
  \/ compiler_reads \/ compiler_writes \/ compiler_fails \/ rename_back
  \/ execute_argv \/ return

Next ==
  \/ exe_mod_time
  \/ compare
  \/ remove_old
  \/ rename
  \/ compile_exits
  \/ compiler_reads
  \/ compiler_writes
  \/ compiler_fails
  \/ rename_back
  \/ execute_argv
  \/ return
  \/ crash
  \/ start
  \/ bootstrap
  \/ edit
  \/ tick

Spec == Init /\ [][Next]_vars

\* The program and the compiler it waits for are scheduled.
FairSpec == Spec /\ WF_vars(Program)

-----------------------------------------------------------------------------
TypeOK ==
  /\ source \in Source
  /\ exe \in File \cup {NoFile}
  /\ old \in File \cup {NoFile}
  /\ clock \in Time
  /\ windows \in BOOLEAN /\ waiting \in BOOLEAN
  /\ pc \in {"idle", "started", "compare", "remove_old", "rename", "compile",
             "compiling", "rename_back", "execute", "main", "failed"}
  /\ running \in File
  /\ exe_time \in Time
  /\ seen \in [ver : Version, raced : BOOLEAN]
  /\ object \in Source
  /\ raced \in BOOLEAN

(* Whatever is killed, and whenever, there is a program that was compiled  *)
(* once: in its place or moved away.                                       *)
ProgramKept == exe # NoFile \/ old # NoFile

(* A run whose compilation failed leaves the program it was started from,  *)
(* with the time it had, so that the next run compiles again; on Windows   *)
(* also when the program could not be moved, because a parent of this run  *)
(* still runs from where it should go.                                     *)
FailureRestores == pc = "failed" => exe = running

(* The program that goes on to build the server was compiled from the      *)
(* build.c it compared itself with, unless that was edited while it was    *)
(* compiled or in the second in which that ended: mod_time drops the       *)
(* fraction, and the compiler's output is newer than what it read.         *)
MainIsCurrent == pc = "main" => running.ver = seen.ver \/ seen.raced

(* A run ends: a program just compiled finds itself up to date, unless     *)
(* build.c is edited again.                                                *)
Ends == pc # "idle" ~> pc = "idle"

=============================================================================
