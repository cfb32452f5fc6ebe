------------------------------ MODULE Emulator ------------------------------
(***************************************************************************)
(* The x86 instruction emulator (hypervisor/src/arch/x86/emulator) and the *)
(* exits of a Microsoft Hypervisor vCPU that use it                        *)
(* (hypervisor/src/mshv/mod.rs): an instruction that touches an address    *)
(* without memory is decoded and carried out by the VMM.                   *)
(*                                                                         *)
(* dev is the vCPU, guest the memory, host the devices and what is         *)
(* remembered of the last instruction.  A 64-bit value is the sequence of  *)
(* its eight bytes, lowest first.                                          *)
(***************************************************************************)
EXTENDS Integers, Sequences, FiniteSets, TLC

CONSTANTS
    Values,        \* contents of the registers the guest starts with
    Modes,         \* CPU modes, a subset of {"Real", "Protected", "Long"}
    SegmentTypes,  \* types of the data segment
    Codes,         \* the instructions the guest uses
    MaxExits

VARIABLES dev, guest, host

Now == [dev |-> dev, guest |-> guest, host |-> host]
Become(s) == dev' = s.dev /\ guest' = s.guest /\ host' = s.host

PageBytes == 8
Ram == 0 .. 2 * PageBytes - 1                  \* physical addresses with memory
PageTable == 0 :> 0 @@ 1 :> 1 @@ 2 :> 2        \* virtual page to physical page; 2 has no memory
Num(v) == v[1] + 256 * v[2]
Zero == [i \in 1 .. 8 |-> 0]
Limit == 23                                    \* of the data segment
MaxCount == 2                                  \* of a repeated instruction

Reg(r, size) == [kind |-> "reg", reg |-> r, size |-> size, high |-> FALSE, at |-> 0, base |-> "none",
                 val |-> Zero]
High(r) == [Reg(r, 1) EXCEPT !.high = TRUE]
Mem(base, at) == [Reg("none", 0) EXCEPT !.kind = "mem", !.base = base, !.at = at]
Imm(v) == [Reg("none", 0) EXCEPT !.kind = "imm", !.val = v]
Insn(code, dst, src, op0, op1) ==
    [code |-> code, dst |-> dst, src |-> src, op |-> <<op0, op1>>, rep |-> FALSE, len |-> 3]

NoFlags == [cf |-> 0, pf |-> 0, af |-> 0, zf |-> 0, sf |-> 0, of |-> 0, df |-> 0]

New ==
    /\ \E m \in Modes, t \in SegmentTypes, a, c \in Values, d \in {0, 1} :
          dev = [regs |-> [r \in {"rax", "rcx", "rsi", "rdi"} |->
                             CASE r = "rax" -> a [] r = "rcx" -> c
                               [] r = "rsi" -> [Zero EXCEPT ![1] = 4]
                               [] r = "rdi" -> [Zero EXCEPT ![1] = 8]],
                 pe |-> m # "Real", lma |-> m = "Long", type |-> t, base |-> 0, rip |-> 0,
                 flags |-> [NoFlags EXCEPT !.df = d], at |-> "guest"]
    /\ guest = [mem |-> [p \in Ram |-> p + 100]]
    /\ host = [log |-> <<>>, last |-> <<>>, exits |-> 0]

-----------------------------------------------------------------------------
(* Registers and addresses.                                                *)

Low(v, n) == [i \in 1 .. 8 |-> IF i <= n THEN v[i] ELSE 0]

\* The second byte of a register is a register of its own.
read_reg(d, o) ==
    IF o.high THEN [Zero EXCEPT ![1] = d.regs[o.reg][2]] ELSE Low(d.regs[o.reg], o.size)

\* An 8-bit or 16-bit result leaves the rest of the register, a 32-bit one clears it.
write_reg(d, o, v) ==
    [d EXCEPT !.regs[o.reg] =
        [i \in 1 .. 8 |-> IF o.high THEN (IF i = 2 THEN v[1] ELSE @[i])
                          ELSE IF i <= o.size THEN v[i]
                          ELSE IF o.size = 4 THEN 0 ELSE @[i]]]

mode(d) == IF d.lma THEN "Long" ELSE IF d.pe THEN "Protected" ELSE "Real"

Bit(n, i) == (n \div 2 ^ i) % 2
segment_type_code(t) == Bit(t, 3) = 1
segment_type_ro(t) == t \in {0, 2}
segment_type_expand_down(t) == ~segment_type_code(t) /\ Bit(t, 2) = 1

\* The linear address, or -1.
linearize(d, addr, write) ==
    CASE mode(d) = "Long" -> addr + d.base
      [] mode(d) # "Long" /\ segment_type_ro(d.type) /\ write -> -1
      [] mode(d) # "Long" /\ segment_type_expand_down(d.type) ->
            IF addr >= Limit THEN -1 ELSE addr + d.base
      [] OTHER -> IF addr > Limit THEN -1 ELSE addr + d.base

memory_operand_address(d, o, write) ==
    linearize(d, o.at + (IF o.base = "none" THEN 0 ELSE Num(d.regs[o.base])), write)

-----------------------------------------------------------------------------
(* The platform: memory of the VM, or a device.                            *)

\* The address of the access that trapped is known, any other is translated.
translate(gva) ==
    IF gva \div PageBytes \in DOMAIN PageTable
    THEN PageTable[gva \div PageBytes] * PageBytes + (gva % PageBytes) ELSE -1

\* A step of an instruction: the state, whether it goes on, and a value.
Going(s, v) == [s |-> s, ok |-> TRUE, v |-> v]
Failed(s) == [s |-> s, ok |-> FALSE, v |-> Zero]
Access(write, gpa, n, v) == [write |-> write, at |-> gpa, size |-> n, v |-> v]

\* A device answers with its own bytes.
Answer(n) == [i \in 1 .. 8 |-> IF i <= n THEN 200 + i ELSE 0]

read_memory(s, gva, n) ==
    LET gpa == translate(gva) IN
    CASE gpa < 0 -> Failed(s)
      [] gpa >= 0 /\ gpa + n - 1 \in Ram ->
            Going(s, [i \in 1 .. 8 |-> IF i <= n THEN s.guest.mem[gpa + i - 1] ELSE 0])
      [] OTHER -> Going([s EXCEPT !.host.log = Append(@, Access(FALSE, gpa, n, Answer(n)))], Answer(n))

write_memory(s, gva, n, v) ==
    LET gpa == translate(gva) IN
    CASE gpa < 0 -> Failed(s)
      [] gpa >= 0 /\ gpa + n - 1 \in Ram ->
            Going([s EXCEPT !.guest.mem =
                     [p \in Ram |-> IF p \in gpa .. gpa + n - 1 THEN v[p - gpa + 1] ELSE @[p]]], v)
      [] OTHER -> Going([s EXCEPT !.host.log = Append(@, Access(TRUE, gpa, n, Low(v, n)))], v)

get_op(s, o, size) ==
    CASE o.kind = "reg" -> Going(s, read_reg(s.dev, o))
      [] o.kind = "imm" -> Going(s, o.val)
      [] o.kind = "mem" -> LET a == memory_operand_address(s.dev, o, FALSE)
                           IN IF a < 0 THEN Failed(s) ELSE read_memory(s, a, size)

set_op(s, o, size, v) ==
    CASE o.kind = "reg" -> Going([s EXCEPT !.dev = write_reg(@, o, v)], v)
      [] o.kind = "mem" -> LET a == memory_operand_address(s.dev, o, TRUE)
                           IN IF a < 0 THEN Failed(s) ELSE write_memory(s, a, size, v)

-----------------------------------------------------------------------------
(* Instructions.                                                           *)

\* MOV and MOVZX: the source as its size has it, into the destination.
movzx(s, i) ==
    LET src == get_op(s, i.op[2], i.src)
    IN IF src.ok THEN set_op(src.s, i.op[1], i.dst, src.v) ELSE src

mov_rm_r(s, i) ==
    LET src == get_op(s, i.op[2], i.dst)
    IN IF src.ok THEN set_op(src.s, i.op[1], i.dst, src.v) ELSE src

mov_r_rm(s, i) == mov_rm_r(s, i)

mov_rm_imm(s, i) == set_op(s, i.op[1], i.dst, get_op(s, i.op[2], i.dst).v)

mov_r_imm(s, i) == Going([s EXCEPT !.dev = write_reg(@, i.op[1], i.op[2].val)], Zero)

\* The bits of a value, and the difference of two values, which wraps.
BitOf(v, i) == Bit(v[(i \div 8) + 1], i % 8)
Xor(a, b) == (a + b) % 2
wrapping_sub(a, b) ==
    [k \in 1 .. 8 |->
        LET borrow == \E j \in 1 .. k - 1 : a[j] < b[j] /\ \A h \in j + 1 .. k - 1 : a[h] = b[h]
        IN (a[k] - b[k] - (IF borrow THEN 1 ELSE 0)) % 256]

\* Mutant: the borrow is taken from the result as if it were a sum.
Cout_sum(a, b, r) == IF (a = 1 /\ b = 1) \/ (a # b /\ r = 0) THEN 1 ELSE 0

\* The borrow out of one bit, from the operands and the result.
Cout(a, b, r) == IF (a = 0 /\ b = 1) \/ (a = b /\ r = 1) THEN 1 ELSE 0

ParityTable == 38505        \* 0x9669

calc_rflags_cpazso(a, b, size, df) ==
    LET msb == size * 8 - 1
        d == wrapping_sub(a, b)
        r(i) == BitOf(d, i)
        cout(i) == Cout(BitOf(a, i), BitOf(b, i), r(i))
        nibble == Xor(r(0), r(4)) + 2 * Xor(r(1), r(5)) + 4 * Xor(r(2), r(6)) + 8 * Xor(r(3), r(7))
    IN [cf |-> cout(msb), pf |-> Bit(ParityTable, nibble), af |-> cout(3),
        zf |-> IF \A i \in 0 .. msb : r(i) = 0 THEN 1 ELSE 0, sf |-> r(msb),
        of |-> Xor(BitOf(a, msb), BitOf(b, msb)) * Xor(BitOf(a, msb), r(msb)), df |-> df]

cmp(s, i) ==
    LET op0 == get_op(s, i.op[1], i.dst)
        op1 == get_op(op0.s, i.op[2], i.src)
    IN CASE ~op0.ok -> op0
         [] op0.ok /\ ~op1.ok -> op1
         [] OTHER -> Going([op1.s EXCEPT !.dev.flags =
                              calc_rflags_cpazso(op0.v, op1.v, i.dst, @.df)], Zero)

Or(a, b) == LET or(i) == 2 ^ i * (IF Bit(a, i) + Bit(b, i) > 0 THEN 1 ELSE 0)
            IN or(0) + or(1) + or(2) + or(3) + or(4) + or(5) + or(6) + or(7)

or_rm_r(s, i) ==
    LET src == get_op(s, i.op[2], i.src)
        dst == get_op(src.s, i.op[1], i.dst)
    IN CASE ~src.ok -> src
         [] src.ok /\ ~dst.ok -> dst
         [] OTHER -> set_op(dst.s, i.op[1], i.dst, [k \in 1 .. 8 |-> Or(src.v[k], dst.v[k])])

\* MOVSD, as often as ECX says with a REP prefix, up or down.
Movsd_m32_m32(s, i) ==
    LET df == s.dev.flags.df = 1
        count == IF i.rep THEN Num(s.dev.regs["rcx"]) ELSE 1
        step == IF df THEN -4 ELSE 4
        from(k) == Num(s.dev.regs["rsi"]) + step * k
        to(k) == Num(s.dev.regs["rdi"]) + step * k
        run[k \in 0 .. MaxCount] ==
          IF k = 0 THEN Going(s, Zero)
          ELSE LET p == run[k - 1]
                   a == linearize(s.dev, from(k - 1), FALSE)
                   b == linearize(s.dev, to(k - 1), TRUE)
               IN IF ~p.ok \/ a < 0 \/ b < 0 THEN Failed(p.s)
                  ELSE LET m == read_memory(p.s, a, 4)
                       IN IF m.ok THEN write_memory(m.s, b, 4, m.v) ELSE m
        moved(r) == LET n == Num(s.dev.regs[r]) + step * count
                    IN [k \in 1 .. 8 |-> CASE k = 1 -> n % 256 [] k = 2 -> (n \div 256) % 256
                                           [] OTHER -> IF n < 0 THEN 255 ELSE 0]
    IN IF ~run[count].ok THEN run[count]
       ELSE Going([run[count].s EXCEPT
                     !.dev.regs["rsi"] = moved("rsi"), !.dev.regs["rdi"] = moved("rdi"),
                     !.dev.regs["rcx"] = IF i.rep THEN Zero ELSE @], Zero)

get_handler(s, i) ==
    CASE i.code = "movzx" -> movzx(s, i)
      [] i.code = "mov_rm_r" -> mov_rm_r(s, i)
      [] i.code = "mov_r_rm" -> mov_r_rm(s, i)
      [] i.code \in {"mov_rm_imm", "mov_rm64_imm32"} -> mov_rm_imm(s, i)
      [] i.code = "mov_r_imm" -> mov_r_imm(s, i)
      [] i.code \in {"cmp_rm_r", "cmp_rm_imm"} -> cmp(s, i)
      [] i.code = "or" -> or_rm_r(s, i)
      [] i.code = "movsd" -> Movsd_m32_m32(s, i)
      [] OTHER -> Failed(s)

\* Mutant: the registers an instruction wrote before it failed are set.
emulate_insn_stream_partly(s, i, whole) ==
    LET r == get_handler(s, i)
    IN IF ~whole THEN Failed(s)
       ELSE [r EXCEPT !.s.dev.rip = @ + i.len]

\* The first instruction of the stream: it must be whole, for more bytes cannot be fetched
\* on this platform.  It works on a copy of the CPU state; memory and devices are not
\* a copy.
emulate_insn_stream(s, i, whole) ==
    LET r == get_handler(s, i)
    IN IF ~whole THEN Failed(s)
       ELSE IF r.ok THEN Going([r.s EXCEPT !.dev.rip = @ + i.len], Zero)
       ELSE [r EXCEPT !.s.dev = s.dev]

emulate_first_insn(s, i, whole) == emulate_insn_stream(s, i, whole)

\* The state of the vCPU, read before the instruction and set after it.
set_cpu_state(s, d) == [s EXCEPT !.dev = d]

-----------------------------------------------------------------------------
(* What the guest runs: an operand in memory, in RAM or at a device.       *)

Places == {Mem("none", 0), Mem("none", 3), Mem("rsi", 12), Mem("none", 30)}
Mixed == <<255, 128, 1, 0, 127, 255, 0, 128>>
Instructions ==
    {Insn("mov_rm_r", r.size, r.size, m, r) :
        m \in Places, r \in {Reg("rax", n) : n \in {1, 2, 4, 8}} \cup {High("rcx")}}
    \cup {Insn("mov_r_rm", r.size, r.size, r, m) :
        m \in Places, r \in {Reg("rax", n) : n \in {1, 2, 4, 8}} \cup {High("rcx")}}
    \cup {Insn("movzx", 4, n, Reg("rax", 4), m) : m \in Places, n \in {1, 2}}
    \cup {Insn("mov_rm_imm", n, n, m, Imm(Low(Mixed, n))) : m \in Places, n \in {1, 2, 4}}
    \cup {Insn("mov_r_imm", n, n, Reg("rax", n), Imm(Low(Mixed, n))) : n \in {1, 2, 4, 8}}
    \cup {Insn("mov_rm64_imm32", 4, 4, m, Imm(Mixed)) : m \in Places}
    \cup {Insn("cmp_rm_r", n, n, m, Reg("rax", n)) : m \in Places, n \in {1, 4, 8}}
    \cup {Insn("cmp_rm_imm", 4, 4, m, Imm(Low(Mixed, 4))) : m \in Places}
    \cup {Insn("or", 1, 1, m, r) : m \in Places, r \in {Reg("rax", 1), High("rcx")}}
    \cup {[Insn("movsd", 4, 4, Mem("rdi", 0), Mem("rsi", 0)) EXCEPT !.rep = rep] : rep \in BOOLEAN}
    \cup {Insn("xchg", 4, 4, Mem("none", 0), Reg("rax", 4))}

Addr(d, o) == o.at + (IF o.base = "none" THEN 0 ELSE Num(d.regs[o.base]))

\* The guest's operands lie within a page: only their first byte is translated.
InPage(d, i) ==
    \A k \in {1, 2} : i.op[k].kind = "mem" =>
        (Addr(d, i.op[k]) % PageBytes) + (IF k = 1 THEN i.dst ELSE i.src) <= PageBytes

Exit(s, after, ok, i) ==
    [after EXCEPT !.dev.at = IF ok THEN "guest" ELSE "error",
                  !.host.exits = @ + 1,
                  !.host.last = <<[insn |-> i, ok |-> ok, dev |-> s.dev, mem |-> s.guest.mem,
                                   log |-> Len(s.host.log)]>>]

\* An access to an address without memory: the instruction is emulated.
UnmappedGpa ==
    /\ dev.at = "guest" /\ host.exits < MaxExits
    /\ \E i \in {j \in Instructions : j.code \in Codes}, whole \in BOOLEAN :
          /\ InPage(dev, i)
          /\ i.rep => /\ Num(dev.regs["rcx"]) <= MaxCount
                      /\ \A k \in 3 .. 8 : dev.regs["rcx"][k] = 0
          /\ LET r == emulate_first_insn(Now, i, whole)
             IN Become(Exit(Now, IF r.ok THEN set_cpu_state(r.s, r.s.dev) ELSE r.s, r.ok, i))

\* Preserve high bits in EAX but clear out high bits in RAX.
InResult(rax, n) ==
    [k \in 1 .. 8 |-> IF k <= n THEN Answer(n)[k] ELSE IF k <= 4 THEN rax[k] ELSE 0]

IoPort(n, write) == Insn(IF write THEN "out" ELSE "in", n, n, Reg("rax", n), Reg("rax", n))

\* An access to an I/O port.  Some ports are skipped, string accesses to others panic.
IoPortIntercept ==
    /\ dev.at = "guest" /\ host.exits < MaxExits
    /\ \E n \in {1, 2, 4}, write, ignored, string \in BOOLEAN :
          LET i == IF ignored THEN [IoPort(n, TRUE) EXCEPT !.code = "skip"] ELSE IoPort(n, write)
              next == [Now EXCEPT !.dev.rip = @ + i.len]
              rax == dev.regs["rax"]
          IN Become(
               CASE ignored -> Exit(Now, next, TRUE, i)
                 [] ~ignored /\ string -> Exit(Now, Now, FALSE, i)
                 [] ~ignored /\ ~string /\ write ->
                      Exit(Now, [next EXCEPT !.host.log = Append(@, Access(TRUE, 1000, n, Low(rax, n)))],
                           TRUE, i)
                 [] OTHER ->
                      Exit(Now, [next EXCEPT !.host.log = Append(@, Access(FALSE, 1000, n, Answer(n))),
                                             !.dev.regs["rax"] = InResult(rax, n)], TRUE, i))

\* Exits that only return to the guest, and those that end it.
OtherExit ==
    /\ dev.at = "guest" /\ host.exits < MaxExits
    /\ \E to \in {"guest", "reset", "shutdown", "error"} :
          Become([Now EXCEPT !.dev.at = to, !.host.exits = @ + 1, !.host.last = <<>>])

Next == UnmappedGpa \/ IoPortIntercept \/ OtherExit

Spec == New /\ [][Next]_<<dev, guest, host>>

-----------------------------------------------------------------------------
(* Properties: the instruction as the architecture defines it, stated on   *)
(* bytes.                                                                  *)

Frame(l) == /\ \A r \in DOMAIN dev.regs \ {l.insn.op[1].reg} : dev.regs[r] = l.dev.regs[r]
            /\ l.insn.op[1].kind = "reg" => guest.mem = l.mem

\* The byte k of the operand as it was before the instruction.
Source(l, o, k, n) ==
    CASE k > n -> 0
      [] k <= n /\ o.kind = "imm" -> o.val[k]
      [] k <= n /\ o.kind = "reg" -> l.dev.regs[o.reg][IF o.high THEN 2 ELSE k]
      [] OTHER -> IF Addr(l.dev, o) \in Ram THEN l.mem[Addr(l.dev, o) + k - 1] ELSE 200 + k

\* What a byte of register r, or the memory at p, holds once v was stored in o.
RegisterHolds(l, o, n, V(_)) ==
    \A k \in 1 .. 8 :
        dev.regs[o.reg][k] = CASE o.high -> IF k = 2 THEN V(1) ELSE l.dev.regs[o.reg][k]
                               [] ~o.high /\ k <= n -> V(k)
                               [] OTHER -> IF n = 4 THEN 0 ELSE l.dev.regs[o.reg][k]
MemoryHolds(l, o, n, V(_)) ==
    LET a == Addr(l.dev, o) IN
    IF a \in Ram
    THEN \A p \in Ram : guest.mem[p] = IF p \in a .. a + n - 1 THEN V(p - a + 1) ELSE l.mem[p]
    ELSE /\ guest.mem = l.mem
         /\ host.log[Len(host.log)] = Access(TRUE, a, n, [k \in 1 .. 8 |-> IF k <= n THEN V(k) ELSE 0])
Stored(l, o, n, V(_)) == IF o.kind = "reg" THEN RegisterHolds(l, o, n, V) ELSE MemoryHolds(l, o, n, V)

\* A comparison by magnitude, byte by byte from the top.
Below(A(_), B(_), n) ==
    \E k \in 1 .. n : A(k) < B(k) /\ \A j \in k + 1 .. n : A(j) = B(j)
FlagsAre(f, A(_), B(_), n) ==
    LET low == (A(1) - B(1)) % 256
        carry == IF Below(A, B, n - 1) THEN 1 ELSE 0
        negative == (A(n) - B(n) - carry) % 256 >= 128
        flip(x) == (x + 128) % 256
        less == Below(LAMBDA k : IF k = n THEN flip(A(k)) ELSE A(k),
                      LAMBDA k : IF k = n THEN flip(B(k)) ELSE B(k), n)
    IN /\ f.cf = 1 <=> Below(A, B, n)
       /\ f.zf = 1 <=> \A k \in 1 .. n : A(k) = B(k)
       /\ f.sf = 1 <=> negative
       /\ f.of = 1 <=> (less # negative)
       /\ f.af = 1 <=> A(1) % 16 < B(1) % 16
       /\ f.pf = 1 <=> Cardinality({j \in 0 .. 7 : Bit(low, j) = 1}) % 2 = 0

\* An emulated instruction does what the processor would have done: the source goes to the
\* destination in the destination's width with the rest of the register kept or cleared, a
\* comparison sets the flags of the exact difference, and nothing else changes.
ResultIsExact ==
    \A j \in 1 .. Len(host.last) :
        LET l == host.last[j]
            i == l.insn
            V(k) == Source(l, i.op[2], k, i.src)
            D(k) == Source(l, i.op[1], k, i.dst)
            n == IF i.code = "mov_rm64_imm32" THEN 8 ELSE i.dst
        IN l.ok /\ i.code \in {"mov_rm_r", "mov_r_rm", "movzx", "mov_r_imm", "mov_rm_imm", "mov_rm64_imm32", "or",
                               "cmp_rm_r", "cmp_rm_imm"}
           => /\ Frame(l)
              /\ dev.rip = l.dev.rip + i.len
              /\ IF i.code \in {"cmp_rm_r", "cmp_rm_imm"}
                 THEN /\ dev.regs = l.dev.regs /\ guest.mem = l.mem
                      /\ FlagsAre(dev.flags, D, V, i.dst)
                 ELSE /\ dev.flags = l.dev.flags
                      /\ IF i.code = "or"
                         THEN Stored(l, i.op[1], 1, LAMBDA k : Or(D(k), V(k)))
                         ELSE Stored(l, i.op[1], IF i.code = "mov_rm64_imm32" THEN 8 ELSE n,
                                     LAMBDA k : Source(l, i.op[2], k, IF n = 8 THEN 8 ELSE i.src))

\* A device sees each access of the guest once and in its width, and an instruction that fails
\* leaves registers, memory and devices as they were (a string move only the registers).
AccessIsExact ==
    \A j \in 1 .. Len(host.last) :
        LET l == host.last[j]
            i == l.insn
            seen == Len(host.log) - l.log
            device(o) == o.kind = "mem" /\ Addr(l.dev, o) \notin Ram
        IN /\ ~l.ok => /\ dev.regs = l.dev.regs /\ dev.flags = l.dev.flags /\ dev.rip = l.dev.rip
                       /\ i.code # "movsd" => guest.mem = l.mem /\ seen = 0
           /\ l.ok /\ i.code \notin {"movsd", "in", "out", "skip"} =>
                 seen = Cardinality({k \in {1, 2} : device(i.op[k])})
                        + (IF i.code = "or" /\ device(i.op[1]) THEN 1 ELSE 0)
           /\ l.ok /\ i.code \in {"in", "out"} =>
                 /\ seen = 1 /\ host.log[Len(host.log)].size = i.dst
                 /\ \A k \in 1 .. 4 : dev.regs["rax"][k] =
                       IF i.code = "in" /\ k <= i.dst THEN 200 + k ELSE l.dev.regs["rax"][k]

\* Memory is reached only as the segment allows: outside long mode a write needs a segment
\* that can be written, and an address lies within the limit, or beyond it when the
\* segment expands down.
SegmentIsObeyed ==
    \A j \in 1 .. Len(host.last) :
        LET l == host.last[j]
            i == l.insn
            writable == Bit(l.dev.type, 3) = 0 /\ Bit(l.dev.type, 1) = 1
            down == Bit(l.dev.type, 3) = 0 /\ Bit(l.dev.type, 2) = 1
            within(a) == IF down THEN a > Limit ELSE a <= Limit
            used == {k \in {1, 2} : i.op[k].kind = "mem"}
            allowed == \A k \in used : within(Addr(l.dev, i.op[k])) /\ (k = 1 /\ i.code # "cmp_rm_r"
                                        /\ i.code # "cmp_rm_imm" => writable)
        IN mode(l.dev) # "Long" /\ l.ok /\ i.code # "movsd" => allowed

EmulationIsExact == ResultIsExact /\ AccessIsExact /\ SegmentIsObeyed
=============================================================================
