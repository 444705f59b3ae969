------------------------------ MODULE MCLoader ------------------------------
(***************************************************************************)
(* Instances of Loader for TLC.                                            *)
(***************************************************************************)
EXTENDS Loader, SequencesExt

File(needed, dir) == [needed |-> needed, rpath |-> dir, sane |-> TRUE]
BadFile == [needed |-> <<>>, rpath |-> NoPath, sane |-> FALSE]

(* A file system given by the files it has. *)
Disk(files) == [p \in Path |-> IF p \in DOMAIN files THEN files[p] ELSE Absent]

(* The directories searched from the start. *)
FirstPath == <<"/lib", ".">>

(***************************************************************************)
(* Graphs: a program and three libraries in one directory, with every      *)
(* dependency graph (cycles, repeated entries, libraries that need the     *)
(* program, files that are missing) the bounds on DT_NEEDED allow.         *)
(***************************************************************************)
Needing(names, n) == {File(s, NoPath) : s \in BoundedSeq(names, n)}

GraphPrograms == {File(<<>>, NoPath), File(<<"a">>, NoPath), File(<<"b", "a">>, NoPath)}

GraphDisks ==
    {Disk(<<"/lib", "prog">> :> p @@ <<"/lib", "a">> :> a @@
          <<"/lib", "b">> :> b @@ <<"/lib", "c">> :> c) :
        p \in GraphPrograms,
        a \in Needing({"prog", "b", "c"}, 2) \cup {Absent},
        b \in Needing({"prog", "a", "b", "c"}, 1) \cup {Absent, BadFile},
        c \in Needing({"prog", "a", "b", "c"}, 1) \cup {Absent}}

(***************************************************************************)
(* Directories: the same names in several directories, two of which are    *)
(* only searched once an object with that DT_RPATH is mapped.              *)
(***************************************************************************)
Variants(name) ==
    {File(needed, dir) : needed \in {<<>>, <<name>>}, dir \in {NoPath, "/opt", "/alt"}}

SearchPrograms ==
    {File(<<"a">>, NoPath), File(<<"a", "b">>, NoPath), File(<<"b", "a">>, "/opt")}

SearchDisks ==
    {Disk(<<".", "prog">> :> p @@ <<".", "a">> :> a1 @@ <<"/opt", "a">> :> a2 @@
          <<"/lib", "b">> :> b1 @@ <<"/opt", "b">> :> b2 @@ <<"/alt", "b">> :> b3) :
        p  \in SearchPrograms \cup {BadFile},
        a1 \in Variants("b") \cup {Absent},
        a2 \in Variants("b") \cup {Absent, BadFile},
        b1 \in {File(<<"a">>, "/opt"), Absent},
        b2 \in {File(<<"a">>, NoPath), File(<<"a">>, "/alt"), Absent},
        b3 \in {File(<<>>, NoPath), Absent}}

AllDisks == GraphDisks \cup SearchDisks
AllPrograms == GraphPrograms \cup SearchPrograms
=============================================================================
