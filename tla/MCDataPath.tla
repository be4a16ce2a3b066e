----------------------------- MODULE MCDataPath -----------------------------
(* Programs for the caches: one that moves data, one that rewrites its own    *)
(* code and one that is stepped back.                                         *)
EXTENDS DataPath

LoadOf(pc, a, n)  == [pc |-> pc, addr |-> a, n |-> n, writes |-> << >>, vector |-> FALSE]
StoreOf(pc, ws)   == [pc |-> pc, addr |-> 0, n |-> 0, writes |-> ws, vector |-> FALSE]
AmoOf(pc, a, v)   == [pc |-> pc, addr |-> a, n |-> 1, writes |-> <<<<a, <<v>>>>>>, vector |-> FALSE]
Vector(ins)       == [ins EXCEPT !.vector = TRUE]

\* Three lines for two ways; a load and a store that cross lines; an AMO; a vector load, which
\* meets the data cache also where scalar accesses do not.
DataProgram  == {LoadOf(6, a, 1) : a \in {2, 4}} \cup {LoadOf(6, 1, 2), AmoOf(6, 0, 1), StoreOf(6, <<<<1, <<1, 1>>>>>>),
                 Vector(LoadOf(6, 0, 1))}
\* Code that rewrites itself and runs from three lines.
FetchProgram == {StoreOf(pc, <<<<2, <<1, 0>>>>>>) : pc \in {0, 2, 4}} \cup {LoadOf(2, 2, 1)}
\* Vector stores that hit the same byte twice.
UndoProgram  == {LoadOf(6, 0, 1), Vector(StoreOf(6, <<<<0, <<1>>>>, <<0, <<0>>>>>>)),
                 Vector(StoreOf(6, <<<<1, <<1>>>>, <<0, <<1, 0>>>>>>)), StoreOf(6, <<<<1, <<0, 1>>>>>>)}

SomeProgram == DataProgram \cup FetchProgram \cup UndoProgram
ProgramOf   == [data |-> DataProgram, fetch |-> FetchProgram, undo |-> UndoProgram]
Ticks       == [data |-> TickMax, fetch |-> TickMax, undo |-> (TickMax + 1) \div 2]
SomeBehind  == {<<0, <<1, 1>>>>}
=============================================================================
