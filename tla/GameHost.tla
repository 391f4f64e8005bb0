------------------------------ MODULE GameHost ------------------------------
(***************************************************************************)
(* The main program of src/demo/main.cpp with the code reloading of        *)
(* src/demo/game_code.cpp: it opens the window, loads a copy of the game's *)
(* library, calls Init, UpdateAndRender and Shutdown through it and loads  *)
(* it again when the library on the disk is newer, while a linker writes   *)
(* that.  The engine (job system, ImGuiManager) is a library of its own,   *)
(* whose state outlives the game's; the game's statics (game_state, with   *)
(* the injector and GL objects) live and die with the module.              *)
(***************************************************************************)
EXTENDS Naturals, FiniteSets

CONSTANTS
  MaxBuilds,  \* bound on the builds
  MaxClock    \* bound on the seconds

HostAssumption == MaxBuilds \in Nat \ {0} /\ MaxClock \in Nat \ {0}

VARIABLES
  clock,    \* seconds, the precision of the write time
  file,     \* the library on the disk: its build, write time, state and exports
  phase,    \* where main is
  window,   \* a window, with its GL context, is open
  udp,      \* the listener is started
  temp,     \* the copy of the library
  module,   \* module_: the build that is loaded, or 0
  code,     \* the build that the function pointers point into, or 0
  time,     \* last_write_time_
  statics,  \* the game's statics are set up, by Init of this module
  jobs,     \* the engine's worker threads run
  imgui,    \* ImGuiManager has state: the material manager that Init passed
  memory,   \* memory_globals are up
  raced,    \* history: a build ended at a time that was already recorded
  reloaded  \* history: reload was called

disk == <<clock, file>>
gameVars == <<temp, module, code, time, statics>>
engine == <<window, udp, jobs, imgui, memory>>
vars == <<disk, phase, gameVars, engine, raced, reloaded>>

Init ==
  /\ clock = 1
  /\ \E exports \in BOOLEAN :
       file = [build |-> 1, time |-> 0, complete |-> TRUE, exports |-> exports]
  /\ phase = "start"
  /\ window = FALSE /\ udp = FALSE
  /\ temp = file /\ module = 0 /\ code = 0 /\ time = 0 /\ statics = FALSE
  /\ jobs = FALSE /\ imgui = FALSE /\ memory = FALSE
  /\ raced = FALSE /\ reloaded = FALSE

----------------------------------------------------------------------------
(* The linker, and time.                                                   *)

Tick ==
  /\ clock < MaxClock
  /\ clock' = clock + 1
  /\ UNCHANGED <<file, phase, gameVars, engine, raced, reloaded>>

StartBuild ==
  /\ file.complete /\ file.build < MaxBuilds
  /\ file' = [file EXCEPT !.complete = FALSE, !.time = clock]
  /\ UNCHANGED <<clock, phase, gameVars, engine, raced, reloaded>>

\* A build that ends after the copy and before the write time is read, or in
\* the second that was read, looks like the one that was loaded.
EndBuild ==
  /\ ~file.complete
  /\ \E exports \in BOOLEAN :
       file' = [build |-> file.build + 1, time |-> clock, complete |-> TRUE,
                exports |-> exports]
  /\ raced' = (phase \in {"library", "write_time"} \/ time = clock)
  /\ UNCHANGED <<clock, phase, gameVars, engine, reloaded>>

----------------------------------------------------------------------------
(* load, unload and reload.                                                *)

HostStep(from, to) == phase = from /\ phase' = to /\ UNCHANGED disk

\* Mutation: a build of the second after the last one is not newer yet.
DirtyAfterASecond == file.time > time + 1

\* is_dirty
Dirty == file.time > time

\* copy_file; while the linker holds the library it may throw, which nothing
\* catches.
Copy ==
  \/ /\ HostStep("copy", "library")
     /\ temp' = file
     /\ raced' = FALSE
     /\ UNCHANGED <<module, code, time, statics, engine, reloaded>>
  \/ /\ ~file.complete
     /\ HostStep("copy", "terminated")
     /\ UNCHANGED <<gameVars, engine, raced, reloaded>>

\* LoadLibrary; the statics of the module are as new.
LoadModule ==
  /\ HostStep("library", "write_time")
  /\ module' = IF temp.complete THEN temp.build ELSE 0
  /\ statics' = FALSE
  /\ UNCHANGED <<temp, code, time, engine, raced, reloaded>>

ReadWriteTime ==
  /\ HostStep("write_time", "pointers")
  /\ time' = file.time
  /\ UNCHANGED <<temp, module, code, statics, engine, raced, reloaded>>

AfterLoad == IF reloaded THEN "frame" ELSE "init"

\* All three functions, or none.
Pointers == IF module # 0 /\ temp.exports THEN module ELSE 0

GetPointers ==
  /\ HostStep("pointers", AfterLoad)
  /\ code' = Pointers
  /\ UNCHANGED <<temp, module, time, statics, engine, raced, reloaded>>

\* unload: FreeLibrary destroys the game's statics, and with them the material
\* manager that ImGuiManager still points to.
Unload(next) ==
  /\ module' = 0
  /\ code' = 0
  /\ statics' = FALSE
  /\ phase' = next
  /\ UNCHANGED <<disk, temp, time, engine, raced>>

----------------------------------------------------------------------------
(* main.                                                                   *)

\* Initialize and InitWindow: the first of the supported versions that the
\* driver makes a window for; without any, XASSERT aborts.
Initialize ==
  \/ HostStep("start", "copy") /\ window' = TRUE
  \/ HostStep("start", "terminated") /\ window' = FALSE

\* memory_globals::init, udp_listener.Start and Initialize.
Start ==
  /\ Initialize
  /\ memory' = TRUE /\ udp' = TRUE
  /\ UNCHANGED <<gameVars, jobs, imgui, raced, reloaded>>

CallInit ==
  /\ HostStep("init", "loop")
  /\ statics' = (code # 0) /\ jobs' = (code # 0) /\ imgui' = (code # 0)
  /\ UNCHANGED <<temp, module, code, time, window, udp, memory, raced, reloaded>>

CheckDirty ==
  /\ phase = "loop"
  /\ IF Dirty THEN Unload("copy") /\ reloaded' = TRUE
              ELSE /\ phase' = "frame"
                   /\ UNCHANGED <<disk, gameVars, engine, raced, reloaded>>

\* UpdateAndRender, SwapBuffers and PollEvents.  It follows the pointer to the
\* injector in the game's statics, which only Init sets.
Frame ==
  /\ \/ /\ code = 0 \/ statics
        /\ HostStep("frame", "loop") \/ HostStep("frame", "shutdown")
     \/ /\ code # 0 /\ ~statics
        /\ HostStep("frame", "undefined")
  /\ UNCHANGED <<gameVars, engine, raced, reloaded>>

CallShutdown ==
  /\ HostStep("shutdown", "close")
  /\ jobs' = (jobs /\ code = 0) /\ imgui' = (imgui /\ code = 0)
  /\ UNCHANGED <<gameVars, window, udp, memory, raced, reloaded>>

\* udp_listener.Stop and glfwTerminate
Close ==
  /\ HostStep("close", "unload")
  /\ udp' = FALSE /\ window' = FALSE
  /\ UNCHANGED <<gameVars, jobs, imgui, memory, raced, reloaded>>

UnloadAtExit == phase = "unload" /\ Unload("memory") /\ UNCHANGED reloaded

MemoryShutdown ==
  /\ HostStep("memory", "exited")
  /\ memory' = FALSE
  /\ UNCHANGED <<gameVars, window, udp, jobs, imgui, raced, reloaded>>

HostNext ==
  \/ Start \/ Copy \/ LoadModule \/ ReadWriteTime \/ GetPointers \/ CallInit
  \/ CheckDirty \/ Frame \/ CallShutdown \/ Close \/ UnloadAtExit \/ MemoryShutdown

Next == HostNext \/ Tick \/ StartBuild \/ EndBuild

\* The host is a thread that nothing blocks.
Spec == Init /\ [][Next]_vars /\ WF_vars(HostNext)

----------------------------------------------------------------------------
Libraries == [build : Nat, time : Nat, complete : BOOLEAN, exports : BOOLEAN]

Phases == {"start", "copy", "library", "write_time", "pointers", "init", "loop", "frame",
           "shutdown", "close", "unload", "memory", "exited", "terminated", "undefined"}

TypeOK ==
  /\ clock \in Nat /\ time \in Nat
  /\ file \in Libraries /\ temp \in Libraries
  /\ phase \in Phases
  /\ module \in Nat /\ code \in Nat
  /\ {window, udp, statics, jobs, imgui, memory, raced, reloaded} \subseteq BOOLEAN

\* The function pointers only point into the module that is loaded, or are
\* null: no call goes into code that was unloaded or is of another build.
CallsLoadedCode == code \in {0, module}

\* Until a reload, UpdateAndRender finds what Init set up.  A reload calls
\* neither Shutdown nor Init: the next frame of the new code follows a pointer
\* that is null (game_code::reload, UpdateAndRender).
InitBeforeFrame == ~reloaded /\ phase = "frame" => (code # 0 <=> statics)

\* While frames are drawn and is_dirty says that nothing is newer, the code is
\* of the last build that ended, unless that ended while the host was between
\* the copy and the write time, or in the second that the host has recorded.
UpToDate ==
  phase = "frame" /\ file.complete /\ ~Dirty /\ ~raced =>
    /\ temp.build = file.build /\ temp.complete
    /\ code = IF file.exports THEN file.build ELSE 0

\* An exit without a reload leaves no worker threads and no GL objects of ImGui
\* to the destructors that run after main.
CleanExit == phase = "exited" /\ ~reloaded => ~jobs /\ ~imgui

\* What the host promises of the code it calls and of what it leaves behind.
HostInStep == CallsLoadedCode /\ InitBeforeFrame /\ UpToDate /\ CleanExit

\* A build that ended is copied, or another one follows, or the host ends,
\* unless its write time is the recorded one.
BuildsAreLoaded ==
  \A b \in 1 .. MaxBuilds :
    file.build = b /\ file.complete ~>
      \/ temp.build = b \/ file.build # b \/ ~file.complete \/ raced
      \/ phase \in {"shutdown", "terminated", "undefined", "exited"}
=============================================================================
