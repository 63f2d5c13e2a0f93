---------------------------- MODULE MCInterrupts ----------------------------
(* Interrupts, for the builds of the library. *)
EXTENDS Interrupts

Gcc(conv) == [host : {"gcc"}, conv : {conv}, far : BOOLEAN, small : {conv = "regparmcall"},
              imm : BOOLEAN, bc : BOOLEAN]
GccBuilds == Gcc("regparmcall") \union Gcc("stdcall") \union Gcc("cdecl")
             \union [host : {"gcc"}, conv : {"regparmcall"}, far : {FALSE}, small : {FALSE},
                     imm : {TRUE}, bc : {FALSE}]
Ack(bc) == [host |-> "ack", conv |-> "cdecl", far |-> FALSE, small |-> FALSE, imm |-> FALSE, bc |-> bc]
GoodBuilds == GccBuilds \union {Ack(FALSE)}
AckBorland == {Ack(TRUE)}
SomeNumbers == {-1, 33, 37, 289}
=============================================================================
