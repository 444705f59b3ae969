------------------------------- MODULE Closure -------------------------------
(***************************************************************************)
(* What loader_main promises of the objects it has in memory when it calls *)
(* reloc_all: some object to start with, and with every object the objects *)
(* it needs.  Nothing is said of the order in which objects are found, of  *)
(* the directories that are searched, or of how the linker remembers what  *)
(* it has done.  Loader implements this specification.                     *)
(***************************************************************************)
CONSTANTS
    Path,         \* the path names <<directory, file name>>
    FileSystems,  \* the file systems under consideration
    Programs,     \* the programs the kernel may start
    Arguments,    \* the file names the linker may be started with
    Absent,       \* what a file system has where there is no file
    Main,         \* the name of the program the kernel has mapped
    Itself        \* the linker as a loaded object

VARIABLES
    fs,      \* the file system
    status,  \* "start", "loading", "closed" or "failed"
    loaded   \* the objects in memory: records of a name and a file

Names == {o.name : o \in loaded}

(* The file names some object of the set needs. *)
Needs(objects) == UNION {{o.file.needed[d] : d \in DOMAIN o.file.needed} : o \in objects}

Provided(soname) == \E p \in Path : p[2] = soname /\ p \in Names

Init ==
    /\ fs \in FileSystems
    /\ status = "start"
    /\ loaded = {}

(* The linker is given a program by the kernel, or loads one on its own. *)
Begin ==
    /\ status = "start"
    /\ status' = "loading"
    /\ \/ \E program \in Programs : loaded' = {[name |-> Main, file |-> program]}
       \/ \E p \in Path :
             /\ p[2] \in Arguments
             /\ fs[p] # Absent
             /\ loaded' = {Itself, [name |-> p, file |-> fs[p]]}
    /\ UNCHANGED fs

(* A file is loaded only if it is needed, and never twice. *)
Load ==
    /\ status = "loading"
    /\ \E p \in Path :
          /\ p \notin Names
          /\ p[2] \in Needs(loaded)
          /\ fs[p] # Absent
          /\ loaded' = loaded \cup {[name |-> p, file |-> fs[p]]}
    /\ UNCHANGED <<fs, status>>

(* The linker goes on to relocate when nothing is missing. *)
Finish ==
    /\ status = "loading"
    /\ \A soname \in Needs(loaded) : Provided(soname)
    /\ status' = "closed"
    /\ UNCHANGED <<fs, loaded>>

(* It may give up at any time before, never after. *)
Fail ==
    /\ status \in {"start", "loading"}
    /\ status' = "failed"
    /\ UNCHANGED <<fs, loaded>>

Next == Begin \/ Load \/ Finish \/ Fail

Spec == Init /\ [][Next]_<<fs, status, loaded>>
=============================================================================
