----------------------------- MODULE MCUpgrade -----------------------------
(***************************************************************************)
(* Small boards for TLC: sectors of two cells, an app partition of two     *)
(* sectors, room for two packages in none of the partitions.               *)
(***************************************************************************)
EXTENDS UpgradeProgress

Fw(v, pkg, raw) ==
    [ver |-> v, part_name |-> "app", algo |-> TRUE, algo2 |-> "crc",
     raw_crc |-> TRUE, pkg_size |-> pkg, raw_size |-> raw]

FileOf(f) == [i \in 1 .. f.pkg_size + 1 |-> IF i = 1 THEN Hdr(f) ELSE Pkg(f, i - 1)]

McPartLen == [app |-> 4, download |-> 6, factory |-> 4]

\* The same without room behind the sign of a package.
McTight == [app |-> 4, download |-> 4, factory |-> 4]

\* Two good packages of one size, whose code differs in size.
V1 == Fw(1, 2, 2)
V2 == Fw(2, 2, 3)

McGood == {V1, V2}

\* A package that passes the header and body checks, but unpacks to wrong code.
Wrong == [Fw(3, 2, 1) EXCEPT !.raw_crc = FALSE]

McAny == {V1, V2, Wrong}

\* What turns up where: sticks with any of them or garbage, or always the same.
McStick == [download |-> {FileOf(V1), FileOf(V2), FileOf(Wrong), <<Junk, Junk>>},
            factory |-> {}, tftp |-> {}]
McSame  == [download |-> {FileOf(V2)}, factory |-> {}, tftp |-> {}]
McTftp  == [download |-> {}, factory |-> {}, tftp |-> {FileOf(V1), FileOf(V2)}]

\* A short and a longer package; the factory one comes on a stick, the other by TFTP.
Short    == Fw(1, 1, 1)
McSizes  == {Short, V2}
McMixed  == [download |-> {}, factory |-> {FileOf(Short)}, tftp |-> {FileOf(V2)}]

\* Packages that end where a sector ends: their sign is in the next one.
Flush1 == Fw(1, 1, 2)
Flush2 == Fw(2, 1, 3)

McFlush      == {Flush1, Flush2}
McFlushFiles == [download |-> {FileOf(Flush1), FileOf(Flush2)}, factory |-> {}, tftp |-> {}]
=============================================================================
