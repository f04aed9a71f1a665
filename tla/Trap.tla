-------------------------------- MODULE Trap --------------------------------
(***************************************************************************)
(* The emulated CPU (Cpu) under the kernel's exception entry and exit      *)
(* (kern/trap/trapentry.S), the dispatch of exceptions (kern/trap/trap.c,  *)
(* ri.h, kern/syscall/syscall.c) and the switch between processes          *)
(* (kern/process/switch.S, proc_run, copy_thread, forkret, kernel_thread,  *)
(* kernel_execve).                                                         *)
(*                                                                         *)
(* An action is an instruction of a user program or a stretch of kernel    *)
(* code; the clock may interrupt after every one, if Status lets it.  The  *)
(* pc is a number of a user program or the label of a stretch.  sp is      *)
(* <<p, n>> on the kernel stack of process p below n trap frames, and USP  *)
(* on a user stack.  What a system call does is module Proc's and Files'   *)
(* business: here it touches user memory, blocks, yields, forks, execs,    *)
(* exits or returns a value.                                               *)
(***************************************************************************)
EXTENDS Cpu

CONSTANTS Procs,     \* user processes, numbers from 1; process 0 is idle
          ReadOnly,  \* the addresses of the text's page, which have no D bit
          Programs,  \* sequences of instructions
          Results    \* bound: what system calls return

VARIABLES cpu,      \* the CPU
          cur,      \* current
          kstack_sp,\* where a trap from user mode finds the kernel stack
          stack,    \* per process, the trap frames on its kernel stack
          context,  \* per process, struct context and the saved intr_flag
          resched,  \* processes with need_resched set
          live,     \* user processes that exist
          prog,     \* per process, its program; <<>> without one
          mem,      \* per process, its user memory
          mapped,   \* the user pages the TLB maps
          ideal     \* history: per process, the CPU its program ought to see

vars == <<cpu, cur, kstack_sp, stack, context, resched, live, prog, mem, mapped, ideal>>

All == Procs \cup {0}

Regs == {"v0", "s0", "ra"}

USP == <<-1, -1>>

(* labels of kernel code; VECTOR is the first *)
PUSH == -2
LEAVE == -3
DISPATCH == -4
SYSCALL == -5
TRAPEND == -6
TRAPRET == -7
POP == -8
UNSWITCH == -9
ERET == -10
IDLE == -11
KEXEC == -20

Zero == [r \in Regs |-> 0]

View(c) == [pc |-> c.pc, reg |-> c.reg, hi |-> c.hi, lo |-> c.lo]

Fresh == [pc |-> 0, reg |-> Zero, hi |-> 0, lo |-> 0]

NoContext == [sp |-> USP, s0 |-> 0, ra |-> IDLE, intr |-> FALSE]

(* load_icode's trap frame: Status is 0x13 *)
UserFrame == [reg |-> Zero, hi |-> 0, lo |-> 0, sp |-> USP,
              um |-> TRUE, ie |-> TRUE, exl |-> TRUE, exc |-> "none", epc |-> 0,
              bad |-> "text"]

(* kernel_thread's, with the bits copy_thread adds *)
KernelFrame == [UserFrame EXCEPT !.um = FALSE, !.epc = KEXEC]

(* struct context of a process that has not run: forkret, on the frame *)
ForkContext(p) == [sp |-> <<p, 1>>, s0 |-> 0, ra |-> TRAPRET, intr |-> FALSE]

(* cpu_idle is running and user_main has been created *)
Init ==
    /\ cpu = [pc |-> IDLE, sp |-> <<0, 0>>, reg |-> Zero, hi |-> 0, lo |-> 0,
              k0 |-> FALSE, k1 |-> USP, um |-> FALSE, ie |-> TRUE, exl |-> FALSE,
              epc |-> 0, exc |-> "none", bad |-> "text"]
    /\ cur = 0
    /\ kstack_sp = <<0, 0>>
    /\ stack = [p \in All |-> IF p = 1 THEN <<KernelFrame>> ELSE <<>>]
    /\ context = [p \in All |-> IF p = 1 THEN ForkContext(1) ELSE NoContext]
    /\ resched = {}
    /\ live = {1}
    /\ prog = [p \in All |-> <<>>]
    /\ mem = [p \in All |-> [x \in Word |-> 0]]
    /\ mapped = {}
    /\ ideal = [p \in All |-> Fresh]
-----------------------------------------------------------------------------
(* user programs *)

Running == cpu.pc >= 0

Instr == prog[cur][cpu.pc + 1]

Kernel == <<cur, kstack_sp, stack, context, resched, live, prog, mapped>>

(* the clock may interrupt after the step *)
Then(c) == cpu' \in Retired(c)

Page(x) == IF x \in ReadOnly THEN "text" ELSE "data"

Fault(page, code) ==
    /\ cpu' = Exception([cpu EXCEPT !.bad = page], code)
    /\ UNCHANGED <<Kernel, mem, ideal>>

FetchFault == Running /\ "text" \notin mapped /\ Fault("text", "TLBL")

Fetched == Running /\ "text" \in mapped

Target == Address(cpu, Instr)

Raised == Raises(cpu, Instr, Page(Target) \in mapped, Target \notin ReadOnly)

Raise == Fetched /\ Raised # "none" /\ Fault(Page(Target), Raised)

Quiet == Fetched /\ Raised = "none"

Compute ==
    /\ Quiet /\ Instr.op \notin LoadOps \cup StoreOps
    /\ Then(Execute(cpu, Instr))
    /\ ideal' = [ideal EXCEPT ![cur] = Execute(@, Instr)]
    /\ UNCHANGED <<Kernel, mem>>

Load(c) == SetReg(c, Instr.rd, Loaded(Instr.op, mem[cur], Address(c, Instr)))

LoadWord ==
    /\ Quiet /\ Instr.op \in LoadOps
    /\ Then(Load(cpu))
    /\ ideal' = [ideal EXCEPT ![cur] = Load(@)]
    /\ UNCHANGED <<Kernel, mem>>

StoreWord ==
    /\ Quiet /\ Instr.op \in StoreOps
    /\ Then([cpu EXCEPT !.pc = @ + 1])
    /\ mem' = [mem EXCEPT ![cur] = Stored(Instr.op, @, Address(cpu, Instr),
                                          cpu.reg[Instr.rt])]
    /\ ideal' = [ideal EXCEPT ![cur].pc = @ + 1]
    /\ UNCHANGED Kernel

-----------------------------------------------------------------------------
(* __alltraps *)

(* the kernel stack is loaded whatever the mode *)
AlwaysSwitchStack(c) == [c EXCEPT !.k1 = c.sp, !.sp = kstack_sp, !.pc = PUSH]

SwitchStack(c) ==
    [c EXCEPT !.k0 = c.um, !.k1 = c.sp,
              !.sp = IF c.um THEN kstack_sp ELSE @,
              !.pc = PUSH]

Vector ==
    /\ cpu.pc = VECTOR
    /\ Then(SwitchStack(cpu))
    /\ UNCHANGED <<Kernel, mem, ideal>>

FrameOf(c) ==
    [reg |-> c.reg, hi |-> c.hi, lo |-> c.lo, sp |-> c.k1,
     um |-> c.um, ie |-> c.ie, exl |-> c.exl, exc |-> c.exc, epc |-> c.epc,
     bad |-> c.bad]

Depth(c) == c.sp[2]

Push ==
    /\ cpu.pc = PUSH
    /\ stack' = [stack EXCEPT ![cpu.sp[1]] = Append(SubSeq(@, 1, Depth(cpu)), FrameOf(cpu))]
    /\ Then([cpu EXCEPT !.sp[2] = @ + 1, !.pc = LEAVE])
    /\ UNCHANGED <<cur, kstack_sp, context, resched, live, prog, mem, mapped, ideal>>

(* what the frame holds is dead in the CPU, and set to a fixed value here *)
Dead(c) ==
    [c EXCEPT !.reg = Zero, !.hi = 0, !.lo = 0, !.k0 = FALSE, !.k1 = USP,
              !.epc = 0, !.exc = "none", !.bad = "text"]

LeaveException(c) ==
    [Dead(c) EXCEPT !.um = FALSE, !.ie = FALSE, !.exl = FALSE, !.pc = DISPATCH]

Leave ==
    /\ cpu.pc = LEAVE
    /\ Then(LeaveException(cpu))
    /\ UNCHANGED <<Kernel, mem, ideal>>

-----------------------------------------------------------------------------
(* the scheduler, seen from the CPU *)

Frame == stack[cur][Depth(cpu)]

FromUser == Frame.um

SetFrame(f) == stack' = [stack EXCEPT ![cur][Depth(cpu)] = f]

At(label) == [cpu EXCEPT !.pc = label]

(* proc_run and switch_to: the callee-saved registers, sp and ra; then
   local_intr_restore.  load_pgdir empties the TLB *)
SwitchTo(q) ==
    [cpu EXCEPT !.sp = context[q].sp,
                !.reg = [Zero EXCEPT !["s0"] = context[q].s0],
                !.pc = context[q].ra,
                !.ie = context[q].intr]

Schedule(ra, q) ==
    /\ q \in live \cup {0}
    /\ resched' = resched \ {cur}
    /\ IF q = cur
       THEN /\ Then(At(ra))
            /\ UNCHANGED <<cur, kstack_sp, context, mapped>>
       ELSE /\ context' = [context EXCEPT ![cur] = [sp |-> cpu.sp, s0 |-> cpu.reg["s0"],
                                                    ra |-> ra, intr |-> cpu.ie]]
            /\ Then(SwitchTo(q))
            /\ cur' = q
            /\ kstack_sp' = <<q, 0>>
            /\ mapped' = {}

(* do_exit; the stack is freed once the parent has waited *)
Die(q) ==
    /\ q \in (live \ {cur}) \cup {0}
    /\ Then(SwitchTo(q))
    /\ cur' = q
    /\ kstack_sp' = <<q, 0>>
    /\ live' = live \ {cur}
    /\ resched' = resched \ {cur}
    /\ context' = [context EXCEPT ![cur] = NoContext]
    /\ stack' = [stack EXCEPT ![cur] = <<>>]
    /\ prog' = [prog EXCEPT ![cur] = <<>>]
    /\ mem' = [mem EXCEPT ![cur] = [x \in Word |-> 0]]
    /\ mapped' = {}
    /\ ideal' = [ideal EXCEPT ![cur] = Fresh]
-----------------------------------------------------------------------------
(* trap_dispatch *)

(* divmod, on ints of W bits *)
ToInt(n) == Signed(Wrap(n))

DivStart(a, b) ==
    [a |-> IF Signed(a) < 0 THEN ToInt(-Signed(a)) ELSE Signed(a),
     b |-> IF Signed(b) < 0 THEN ToInt(-Signed(b)) ELSE Signed(b),
     r |-> 0, q |-> 0]

DivShift(s) ==
    [s EXCEPT !.r = ToInt(2 * @ + (Wrap(s.a) \div 2 ^ (W - 1))),
              !.a = ToInt(2 * @), !.q = ToInt(2 * @)]

DivSubtract(s) ==
    IF s.r >= s.b THEN [s EXCEPT !.q = @ + 1, !.r = ToInt(@ - s.b)] ELSE s

RECURSIVE DivLoop(_, _)
DivLoop(s, n) == IF n = 0 THEN s ELSE DivLoop(DivSubtract(DivShift(s)), n - 1)

DivSigns(a, b, s) ==
    [lo |-> Wrap(IF (Signed(a) < 0) # (Signed(b) < 0) THEN -s.q ELSE s.q),
     hi |-> Wrap(IF Signed(a) < 0 THEN -s.r ELSE s.r)]

divmod(a, b) == DivSigns(a, b, DivLoop(DivStart(a, b), W))

(* what the div of MIPS32 leaves in lo and hi: the quotient, truncated, and
   the remainder *)
Abs(n) == IF n < 0 THEN -n ELSE n

Quotient(a, b) ==
    IF (a < 0) # (b < 0) THEN -(Abs(a) \div Abs(b)) ELSE Abs(a) \div Abs(b)

Division(a, b) ==
    [lo |-> Wrap(Quotient(Signed(a), Signed(b))),
     hi |-> Wrap(Signed(a) - Signed(b) * Quotient(Signed(a), Signed(b)))]

(* the most negative int has no negation, and divmod is wrong for it: with
   such an operand the ideal CPU is taken to divide as the kernel does *)
HasNegation(a) == Signed(a) # -(2 ^ (W - 1))

Ideally(a, b) ==
    IF HasNegation(a) /\ HasNegation(b) THEN Division(a, b) ELSE divmod(a, b)

(* the division the kernel does for a program is that of MIPS32, where an
   int has a negation *)
ASSUME DivmodExact ==
    \A a, b \in Word :
        b # 0 /\ HasNegation(a) /\ HasNegation(b) => divmod(a, b) = Division(a, b)

Dispatching(codes) == cpu.pc = DISPATCH /\ Frame.exc \in codes

(* every TICK_NUM ticks the process has used up its slice *)
TimerInterrupt ==
    /\ Dispatching({"Int"})
    /\ resched' \in {resched, resched \cup {cur}}
    /\ Then(At(TRAPEND))
    /\ UNCHANGED <<cur, kstack_sp, stack, context, live, prog, mem, mapped, ideal>>

(* tlb_miss_handler; the entry may replace another *)
TlbMiss ==
    /\ Dispatching({"TLBL", "TLBS"})
    /\ mapped' \in {mapped \cup {Frame.bad}, {Frame.bad}}
    /\ Then(At(TRAPEND))
    /\ UNCHANGED <<cur, kstack_sp, stack, context, resched, live, prog, mem, ideal>>

Faulty == prog[cur][Frame.epc + 1]

(* the operands, from the frame.  There is no register 0 here: its slot of
   the frame is never written (trapentry.S:21), and a div that names $zero
   as an operand divides what the stack happens to hold *)
Dividend == Frame.reg[Faulty.rs]

Divisor == Frame.reg[Faulty.rt]

(* ri_handler: div is done in the frame *)
EmulateDiv ==
    /\ Dispatching({"RI"}) /\ Faulty.op = "div" /\ Divisor # 0
    /\ SetFrame([Frame EXCEPT !.lo = divmod(Dividend, Divisor).lo,
                              !.hi = divmod(Dividend, Divisor).hi,
                              !.epc = @ + 1])
    /\ ideal' = [ideal EXCEPT ![cur].lo = Ideally(Dividend, Divisor).lo,
                              ![cur].hi = Ideally(Dividend, Divisor).hi,
                              ![cur].pc = @ + 1]
    /\ Then(At(TRAPEND))
    /\ UNCHANGED <<cur, kstack_sp, context, resched, live, prog, mem, mapped>>

(* a division by zero, another reserved instruction, an address error, a
   store to a read-only page, a fault outside the vmas; at the end of trap,
   PF_EXITING set by do_kill *)
Killed(q) ==
    /\ \/ Dispatching({"RI"}) /\ (Faulty.op # "div" \/ Divisor = 0)
       \/ Dispatching({"AdEL", "AdES", "Mod"})
       \/ Dispatching({"TLBL", "TLBS"}) /\ FromUser
       \/ cpu.pc = TRAPEND /\ FromUser
    /\ Die(q)

(* a value a C function keeps in a callee-saved register *)
LOCAL_VALUE == 2 ^ W - 1

(* syscall: the return address moves past the instruction *)
Syscall ==
    /\ Dispatching({"Sys"})
    /\ SetFrame([Frame EXCEPT !.epc = @ + 1])
    /\ Then([At(SYSCALL) EXCEPT !.reg = [Zero EXCEPT !["s0"] = LOCAL_VALUE]])
    /\ UNCHANGED <<cur, kstack_sp, context, resched, live, prog, mem, mapped, ideal>>

InSyscall == cpu.pc = SYSCALL

(* copy_from_user and copy_to_user, through the TLB *)
SysTouch ==
    /\ InSyscall /\ FromUser /\ "data" \notin mapped
    /\ Fault("data", "TLBL")

(* do_wait, do_sleep and the read of the keyboard call schedule asleep *)
SysBlock(q) ==
    /\ InSyscall /\ FromUser
    /\ q # cur
    /\ Schedule(SYSCALL, q)
    /\ UNCHANGED <<stack, live, prog, mem, ideal>>

(* the frame and the ideal CPU after a system call that returns x *)
Returns(x) ==
    /\ SetFrame([Frame EXCEPT !.reg["v0"] = x])
    /\ ideal' = [ideal EXCEPT ![cur].reg["v0"] = x, ![cur].pc = @ + 1]
    /\ Then(At(TRAPEND))

(* do_yield returns 0; the end of trap gives up the CPU *)
SysYield ==
    /\ InSyscall /\ FromUser
    /\ resched' = resched \cup {cur}
    /\ Returns(0)
    /\ UNCHANGED <<cur, kstack_sp, context, live, prog, mem, mapped>>

(* do_fork, copy_thread: the child's frame is the parent's, with v0 = 0 *)
SysFork(q) ==
    /\ InSyscall /\ FromUser
    /\ q \in Procs \ live
    /\ live' = live \cup {q}
    /\ stack' = [stack EXCEPT ![q] = <<[Frame EXCEPT !.reg["v0"] = 0, !.ie = TRUE, !.exl = TRUE]>>,
                              ![cur][Depth(cpu)].reg["v0"] = q]
    /\ context' = [context EXCEPT ![q] = ForkContext(q)]
    /\ prog' = [prog EXCEPT ![q] = prog[cur]]
    /\ mem' = [mem EXCEPT ![q] = mem[cur]]
    /\ ideal' = [ideal EXCEPT ![q] = [ideal[cur] EXCEPT !.reg["v0"] = 0, !.pc = @ + 1],
                              ![cur] = [@ EXCEPT !.reg["v0"] = q, !.pc = @ + 1]]
    /\ Then(At(TRAPEND))
    /\ UNCHANGED <<cur, kstack_sp, resched, mapped>>

(* do_execve, load_icode: a new program on a new frame; syscall stores the
   result 0 in v0.  trap has asked before whether it came from user mode *)
SysExec(code) ==
    /\ InSyscall
    /\ SetFrame(UserFrame)
    /\ prog' = [prog EXCEPT ![cur] = code]
    /\ mem' = [mem EXCEPT ![cur] = [x \in Word |-> 0]]
    /\ mapped' = {}
    /\ ideal' = [ideal EXCEPT ![cur] = Fresh]
    /\ Then(At(IF FromUser THEN TRAPEND ELSE TRAPRET))
    /\ UNCHANGED <<cur, kstack_sp, context, resched, live>>

SysExit(q) == InSyscall /\ FromUser /\ Die(q)

SysReturn(x) ==
    /\ InSyscall /\ FromUser
    /\ Returns(x)
    /\ UNCHANGED <<cur, kstack_sp, context, resched, live, prog, mem, mapped>>

(* the end of trap: only a trap from user mode gives up the CPU *)
TrapEnd ==
    /\ cpu.pc = TRAPEND
    /\ ~(FromUser /\ cur \in resched)
    /\ Then(At(TRAPRET))
    /\ UNCHANGED <<Kernel, mem, ideal>>

TrapSchedule(q) ==
    /\ cpu.pc = TRAPEND /\ FromUser /\ cur \in resched
    /\ Schedule(TRAPRET, q)
    /\ UNCHANGED <<stack, live, prog, mem, ideal>>

-----------------------------------------------------------------------------
(* __trapret *)

(* exception level is not entered before the registers are restored *)
RestoreAtNormalLevel(c, f) == [c EXCEPT !.um = f.um, !.ie = f.ie, !.pc = POP]

RestoreStatus(c, f) ==
    [c EXCEPT !.um = f.um, !.ie = f.ie, !.exl = f.exl, !.pc = POP]

TrapRet ==
    /\ cpu.pc = TRAPRET
    /\ Then(RestoreStatus(cpu, Frame))
    /\ UNCHANGED <<Kernel, mem, ideal>>

RestoreRegs(c, f) ==
    [c EXCEPT !.reg = f.reg, !.hi = f.hi, !.lo = f.lo, !.k1 = f.sp,
              !.epc = f.epc, !.sp[2] = @ - 1, !.pc = UNSWITCH]

Pop ==
    /\ cpu.pc = POP
    /\ Then(RestoreRegs(cpu, Frame))
    /\ stack' = [stack EXCEPT ![cur] = SubSeq(@, 1, Depth(cpu) - 1)]
    /\ UNCHANGED <<cur, kstack_sp, context, resched, live, prog, mem, mapped, ideal>>

Unswitch ==
    /\ cpu.pc = UNSWITCH
    /\ Then([cpu EXCEPT !.k0 = cpu.um, !.sp = IF cpu.um THEN cpu.k1 ELSE @, !.pc = ERET])
    /\ UNCHANGED <<Kernel, mem, ideal>>

Eret ==
    /\ cpu.pc = ERET
    /\ Then([exe_eret(cpu) EXCEPT !.k0 = FALSE, !.k1 = USP, !.epc = 0])
    /\ UNCHANGED <<Kernel, mem, ideal>>

-----------------------------------------------------------------------------
(* kernel threads run with interrupts enabled *)

Idle ==
    /\ cpu.pc = IDLE /\ 0 \notin resched
    /\ Then(cpu)
    /\ UNCHANGED <<Kernel, mem, ideal>>

IdleSchedule(q) ==
    /\ cpu.pc = IDLE /\ 0 \in resched
    /\ Schedule(IDLE, q)
    /\ UNCHANGED <<stack, live, prog, mem, ideal>>

(* kernel_execve's syscall instruction *)
KernelExecve ==
    /\ cpu.pc = KEXEC
    /\ cpu' = Exception(cpu, "Sys")
    /\ UNCHANGED <<Kernel, mem, ideal>>

Next ==
    \/ FetchFault
    \/ Raise
    \/ Compute
    \/ LoadWord
    \/ StoreWord
    \/ Vector
    \/ Push
    \/ Leave
    \/ TimerInterrupt
    \/ TlbMiss
    \/ EmulateDiv
    \/ \E q \in All : Killed(q)
    \/ Syscall
    \/ SysTouch
    \/ \E q \in All : SysBlock(q)
    \/ SysYield
    \/ \E q \in Procs : SysFork(q)
    \/ \E code \in Programs : SysExec(code)
    \/ \E q \in All : SysExit(q)
    \/ \E x \in Results : SysReturn(x)
    \/ TrapEnd
    \/ \E q \in All : TrapSchedule(q)
    \/ TrapRet
    \/ Pop
    \/ Unswitch
    \/ Eret
    \/ Idle
    \/ \E q \in All : IdleSchedule(q)
    \/ KernelExecve

Spec == Init /\ [][Next]_vars

-----------------------------------------------------------------------------
(* Properties *)

(* A user program never notices the traps it takes: whenever one of its
   instructions is about to run, pc, registers, hi, lo and sp are those of
   a CPU that runs the program alone, executes every instruction once, has
   a div and is handed the results of system calls.  This holds for
   interrupts after any instruction, faults that restart one, traps nested
   in a system call, switches to other processes, fork and exec
   (trapentry.S, switch.S, ri.h, syscall.c, cpu.h), for programs that
   divide neither $zero nor by it; of a div with the most negative word it
   only says that the program gets what divmod computes. *)
UserContextKept ==
    Running => /\ View(cpu) = ideal[cur]
               /\ cpu.sp = USP
               /\ cpu.um /\ cpu.ie /\ ~cpu.exl

(* Kernel code keeps its own registers and stack across the faults and
   switches it takes, and two frames is all a kernel stack ever holds: the
   kernel runs traps with interrupts disabled, and only a fault on user
   memory nests. *)
KernelContextKept ==
    /\ InSyscall => cpu.reg["s0"] = LOCAL_VALUE /\ cpu.sp = <<cur, 1>> /\ ~cpu.ie
    /\ cpu.pc = IDLE => cpu.sp = <<0, 0>> /\ cpu.ie
    /\ cpu.pc < 0 => cpu.sp = USP \/ cpu.sp[1] = cur
    /\ \A p \in All : Len(stack[p]) <= 2
=============================================================================
