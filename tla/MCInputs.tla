------------------------------ MODULE MCInputs ------------------------------
(* Values for Inputs: one database's name, AB, begins with another's, A, and  *)
(* one list of names is longer than the buffer it is read into.               *)
EXTENDS Inputs

Info == <<10>>  List == <<11>>
A == <<12>>  AB == <<12, 13>>  AC == <<12, 15>>  B == <<14>>
Id == <<20>>  Type == <<21>>  Ip == <<22>>  Port == <<23>>
Host == << <<30>> >>  HostPercent == << <<31>> >>  Damaged == << <<32>> >>
Digit(d) == << <<d>> >>

MCName == {Info, List, A, AB, AC, B, Id, Type, Ip, Port}
MCPlace == {Ip, Port}
MCValue == {Host, HostPercent, Digit(0), Digit(1), Digit(9)}
            \cup {<<A>>, <<A, B>>, <<AB, A>>, <<B, AB, A>>}
MCPercent == {HostPercent}

Portless(x, d) == <<Header(x), Entry(Id, Digit(d)), Entry(Type, Digit(d)), Entry(Ip, Host)>>
Database(x, d) == Append(Portless(x, d), Entry(Port, Digit(d)))
Listing(names) == <<Header(Info), Entry(List, names)>>

MCFiles == {<<>>,
            Listing(<<A, B>>) \o <<Other>> \o Database(A, 0) \o Database(B, 1),
            Listing(<<AB, A>>) \o Database(A, 0) \o Database(AB, 1),
            Listing(<<AB, A>>) \o Portless(AB, 0) \o Database(A, 1)}
MCSettable == {<<Info, List, <<A, B>> >>, <<Info, List, <<B, AB, A>> >>,
               <<A, Id, Digit(1)>>, <<A, Ip, HostPercent>>, <<AB, Ip, HostPercent>>,
               <<AB, Type, Digit(9)>>, <<B, Id, Digit(9)>>}

\* '0' '7' ',' '.' ':' '-' newline; then ASCII, and bytes of GBK and UTF-8.
MCAlphabets == {{48, 55, 44, 46, 58, 45, 10}, {65, 127, 128, 159, 195, 228, 254}}
MCUnset == <<57>>
MCSubs == {<<55>>, <<45, 48>>, <<55, 55, 48>>, <<44, 48>>}
=============================================================================
