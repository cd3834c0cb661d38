---------------------------- MODULE MCFileSystem ----------------------------
(* Instances of FileSystem for TLC. *)
EXTENDS FileSystem, TLC

CONSTANTS P0, P1

C(op, path, new, mode) == [op |-> op, path |-> path, new |-> new, mode |-> mode]
Creat(path) == C("open", path, <<>>, "create")
Open(path) == C("open", path, <<>>, "read")
OpenW(path) == C("open", path, <<>>, "write")
Mkdir(path) == C("mkdir", path, <<>>, "")
Mknod(path) == C("mknod", path, <<>>, "")
Unlink(path) == C("unlink", path, <<>>, "")
Link(old, new) == C("link", old, new, "")
Chdir(path) == C("chdir", path, <<>>, "")
Exec(path) == C("exec", path, <<>>, "")
Do(op) == C(op, <<>>, <<>>, "")

MCProcs == {P0, P1}
MCSymmetry == Permutations(MCProcs)

(* Two processes create, link and remove the same names, in the root and in *)
(* a directory, or from inside a directory that the other one removes, with *)
(* the directory above it or without.                                       *)
DirMenu == {Mkdir(<<"/", "a">>), Unlink(<<"/", "a">>), Mknod(<<"/", "a", "b">>),
            Unlink(<<"/", "a", "b">>), Chdir(<<"/", "a", "b">>)}
CwdMenu == {Mkdir(<<"/", "a">>), Chdir(<<"a">>), Chdir(<<"..">>), Unlink(<<"/", "a">>),
            Mknod(<<"b">>)}
NestMenu == {Mkdir(<<"/", "a">>), Mkdir(<<"/", "a", "b">>),
             Unlink(<<"/", "a", "b", "..", "b">>), Unlink(<<"/", "a">>)}
LinkMenu == {Mknod(<<"/", "a">>), Link(<<"/", "a">>, <<"/", "b">>),
             Link(<<"/">>, <<"/", "b">>), Link(<<"/", "a">>, <<"/", "a", "b">>),
             Unlink(<<"/", "a">>), Unlink(<<"/", "b">>), Unlink(<<"/", ".">>)}

(* They link to names that every directory has. *)
DotMenu == {Mknod(<<"/", "a">>), Mkdir(<<"/", "b">>), Unlink(<<"/", "b">>),
            Link(<<"/", "a">>, <<"/", ".">>), Link(<<"/", "a">>, <<"/", "b", "..">>)}

(* They open, share and close a file whose name comes and goes. *)
ForkMenu == {Creat(<<"/", "a">>), Unlink(<<"/", "a">>), Do("fork"), Do("exit"),
             Do("write")}
TableMenu == {Do("pipe"), Do("dup"), Do("close"), Do("read"),
              Open(<<"/">>), OpenW(<<"/">>), Exec(<<"/">>), Creat(<<"/">>)}
MCMenus == {DirMenu, CwdMenu, NestMenu, LinkMenu, DotMenu, ForkMenu, TableMenu}

(* linkunlink of usertests.c. *)
LinkunlinkMenus == {{Creat(<<"a">>), Do("close"), Unlink(<<"a">>)}}
(* Two descriptors of a file without a name, closed together. *)
CloseMenus == {{Creat(<<"a">>), Unlink(<<"a">>), Do("close")}}
=============================================================================
