------------------------------- MODULE Paths -------------------------------
(***************************************************************************)
(* Paths as vfs/mod.rs treats them. A path is the sequence of its parts; a *)
(* part is a name (a positive number) or one of the two special parts. The *)
(* empty part between two slashes is dropped like ".".                     *)
(***************************************************************************)
EXTENDS Integers, SequencesExt

DOT == 0
DOTDOT == -1

normalize_path(parts) ==
  FoldLeft(LAMBDA done, part :
             CASE part = DOT    -> done
               [] part = DOTDOT -> IF done = <<>> THEN <<>> ELSE Front(done)
               [] OTHER         -> Append(done, part),
           <<>>, parts)

\* A path that a task passes is [abs, parts]; dir is its working directory.
resolve_path(path, dir) ==
  normalize_path(IF path.abs THEN path.parts ELSE dir \o path.parts)
=============================================================================
