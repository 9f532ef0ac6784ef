------------------------------- MODULE MCFiles -------------------------------
(* A ramdisk with a directory, a program, and a file that cannot be made,  *)
(* because it has its directory's name; one in which that file has data,   *)
(* which end the archive, are no header, or read as a link and a file;     *)
(* and one with a directory below a file and a name that begins with a dot. *)
EXTENDS Files, TLC

CONSTANTS p1, p2

E(type, names, size) == [type |-> type, names |-> names, size |-> size]
Abs(names) == [abs |-> TRUE, names |-> names]

MCImages ==
  {<<E("Directory", <<"d">>, 0), E("File", <<"f">>, 5), E("File", <<"d", "d">>, 0)>>,
   <<E("Directory", <<"d">>, 0), E("File", <<"d", "d">>, 5), E("File", <<"f">>, 5)>>,
   <<E("File", <<"f">>, 5), E("Directory", <<"f", "d">>, 0), E("Directory", <<".h">>, 0)>>}
MCInner ==
  {<<>>, <<E("Other", <<>>, 0)>>, <<E("Symlink", <<"l">>, 0), E("File", <<"g">>, 3)>>}
MCProgPath == Abs(<<"f">>)
MCPaths == {Abs(<<"f">>), Abs(<<"d", "f">>), Abs(<<"x", "f">>), Abs(<<"f", "d">>),
            Abs(<<"dev", "tty0">>), [abs |-> FALSE, names |-> <<"f">>]}

MCLookupNames ==
  {<<"f">>, <<"d", "f">>, <<"f", "f">>, <<"x", "f">>, <<"d", "x", "f">>, <<"x", "x", "f">>,
   <<".h">>, <<".h", "f">>, <<"d", ".h">>}

Sym == Permutations(Proc)
=============================================================================
