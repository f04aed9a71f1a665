------------------------------- MODULE MCTrap -------------------------------
(* Trap for TLC: programs of a few instructions that loop. *)
EXTENDS Trap

MCProcs == {1, 2}

Op(op, rd, rs, rt, imm) == [op |-> op, rd |-> rd, rs |-> rs, rt |-> rt, imm |-> imm]

MCPrograms ==
    {<<Op("addiu", "s0", "v0", "v0", 3),
       Op("div", "v0", "v0", "s0", 0),
       Op("mfhi", "ra", "v0", "v0", 0),
       Op("syscall", "v0", "v0", "v0", 0),
       Op("j", "v0", "v0", "v0", 0)>>,
     <<Op("ori", "v0", "v0", "v0", 2),
       Op("sw", "v0", "s0", "v0", 0),
       Op("lbu", "s0", "s0", "s0", 1),
       Op("syscall", "v0", "v0", "v0", 0),
       Op("bne", "s0", "s0", "v0", 2),
       Op("j", "v0", "v0", "v0", 0)>>,
     <<Op("jal", "v0", "v0", "v0", 2),
       Op("j", "v0", "v0", "v0", 0),
       Op("sltiu", "s0", "v0", "v0", 1),
       Op("sb", "v0", "s0", "v0", 3),
       Op("lb", "s0", "s0", "v0", 3),
       Op("mult", "v0", "v0", "s0", 0),
       Op("syscall", "v0", "v0", "v0", 0),
       Op("jr", "v0", "ra", "v0", 0)>>}

MCReadOnly == 12..15

MCResults == {5}
=============================================================================
