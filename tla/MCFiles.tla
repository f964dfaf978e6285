----------------------------- MODULE MCFiles -----------------------------
(***************************************************************************)
(* Files for TLC, in two situations: tasks that share files of one name,   *)
(* and a task alone with directories of several entries.                   *)
(***************************************************************************)
EXTENDS Files

VARIABLE shared   \* the first of the two situations

Abs(parts) == [abs |-> TRUE, parts |-> parts]
Rel(parts) == [abs |-> FALSE, parts |-> parts]

\* The tasks are alike.
Symmetry == Permutations(Tasks)

\* A name as file or directory at two depths, reached from either; three names of different lengths.
MCPaths == {Rel(<<1>>), Rel(<<DOTDOT, DOT>>), Abs(<<DOT, 1>>),
            Abs(<<2>>), Abs(<<3>>), Abs(<<3, 1>>)}

MCFlags ==
  {[mode |-> 0, opts |-> {}],
   [mode |-> 0, opts |-> {"O_DIRECTORY"}],
   [mode |-> 2, opts |-> {"O_CREAT"}],
   [mode |-> 1, opts |-> {"O_CREAT", "O_TRUNC", "O_APPEND"}],
   [mode |-> 1, opts |-> {"O_APPEND"}]}

\* Files and directories of one name, and descriptors of files only.
OneName == /\ DOMAIN tree \subseteq {<<>>, <<1>>, <<1, 1>>}
           /\ \A t \in Tasks, fd \in Fd : fds[t][fd].kind # "Directory"

\* Descriptors of a single task, and empty files.
OneTask == /\ Cardinality({t \in Tasks : fds[t] # NewTable}) <= 1
           /\ \A t \in Tasks : cwd[t] = <<>>
           /\ \A p \in DOMAIN tree : tree[p].data = <<>>

MCInit == Init /\ shared \in BOOLEAN

MCNext ==
  /\ Next
  /\ IF shared THEN OneName' ELSE OneTask'
  /\ UNCHANGED shared

MCSpec == MCInit /\ [][MCNext]_<<vars, shared>>
=============================================================================
