---------------------------- MODULE MCFileSystem ----------------------------
(* Model-checking instances of FileSystem.  The tree is /, /d, /d/f, /g and *)
(* /h (top, sub, file, link and torn).  /d/f and /g are one file under two *)
(* names; /h cannot be read.                                               *)
EXTENDS FileSystem, TLC

CONSTANTS top, sub, file, link, torn

\* the user's threads do the same, and every address is as good as another
Symmetry == Permutations(Users) \cup Permutations(Files)

MCParent == (sub :> top) @@ (file :> sub) @@ (link :> top) @@ (torn :> top)
MCName == (sub :> "d") @@ (file :> "f") @@ (link :> "g") @@ (torn :> "h")
MCINodeOf == (top :> 2) @@ (sub :> 3) @@ (file :> 4) @@ (link :> 4) @@ (torn :> 5)

Ask(volume, steps, flags) == [volume |-> volume, steps |-> steps, flags |-> flags]

MCRequests ==
  {Ask("label", <<"d", "f">>, {}),
   Ask("none", <<"..", "g">>, {"truncate"}),
   Ask("none", <<"d", "x">>, {}),
   Ask("number", <<"d">>, {"directory"}),
   Ask("none", <<"g">>, {"directory"}),
   Ask("none", <<"d", "..">>, {"directory"}),
   Ask("number", <<"h", "..", ".", "h">>, {}),
   Ask("number", <<"g">>, {"append"}),
   Ask("uuid", <<"g">>, {})}
=============================================================================
