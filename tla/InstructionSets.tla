--------------------------- MODULE InstructionSets ---------------------------
(***************************************************************************)
(* The tables of operators of libsnap/src/InstructionSets.h and their      *)
(* merge into one table per instruction set, each on top of the one before *)
(* (Assembler.c, createFullInstructionSetTables).  A table is a function   *)
(* from operators to entries: sorting and bsearch find an operator in it   *)
(* whatever the case of its letters.  An entry has a handler of its own or *)
(* opcodes, one for each addressing mode the instruction has.              *)
(***************************************************************************)
EXTENDS Integers

(* The opcodes of MVP and MVN mark what an entry has not, and a mode whose *)
(* absolute counterpart has a long address.                                *)
XX == \h44
LL == \h54

Entry(handler, codes, longA, longXY) ==
    [handler |-> handler, codes |-> codes, longA |-> longA, longXY |-> longXY]

(* OpCodeEntry: the opcode of a mode. *)
Opcode(entry, mode) ==
    IF mode \in DOMAIN entry.codes THEN entry.codes[mode] ELSE XX

Handlers(handlers) ==
    [op \in DOMAIN handlers |-> Entry(handlers[op], << >>, FALSE, FALSE)]

(* Entries with one mode only. *)
Only(mode, codes) ==
    [op \in DOMAIN codes |->
        Entry("opcode", [m \in {mode} |-> codes[op]], FALSE, FALSE)]

Instructions(codes) ==
    [op \in DOMAIN codes |-> Entry("opcode", codes[op],
                                   op = "LDA", op \in {"LDX", "LDY"})]

(* The entries of two tables without a common operator. *)
Joined(table1, table2) ==
    [op \in DOMAIN table1 \cup DOMAIN table2 |->
        IF op \in DOMAIN table1 THEN table1[op] ELSE table2[op]]

-----------------------------------------------------------------------------
(* Directives that this model is about; the others are in other modules.   *)
Directives6502 == Handlers(
    [ASC |-> "ASC", REV |-> "REV", HEX |-> "HEX", DA |-> "DA", DW |-> "DA",
     DB |-> "DB", DFB |-> "DB", DS |-> "DS", XC |-> "XC", MX |-> "ignore",
     LST |-> "ignore", LSTDO |-> "ignore", TR |-> "ignore"])

Implied6502 == Only("impl",
    [BRK |-> \h00, CLC |-> \h18, CLD |-> \hD8, CLI |-> \h58, CLV |-> \hB8,
     DEX |-> \hCA, DEY |-> \h88, INX |-> \hE8, INY |-> \hC8, NOP |-> \hEA,
     PHA |-> \h48, PHP |-> \h08, PLA |-> \h68, PLP |-> \h28, RTI |-> \h40,
     RTS |-> \h60, SEC |-> \h38, SED |-> \hF8, SEI |-> \h78, TAX |-> \hAA,
     TAY |-> \hA8, TSX |-> \hBA, TXA |-> \h8A, TXS |-> \h9A, TYA |-> \h98])

Branches6502 == Only("rel",
    [BCC |-> \h90, BCS |-> \hB0, BEQ |-> \hF0, BGE |-> \hB0, BLT |-> \h90,
     BMI |-> \h30, BNE |-> \hD0, BPL |-> \h10, BVC |-> \h50, BVS |-> \h70])

Operations6502 == Instructions(
    [ADC |-> [imm |-> \h69, abs |-> \h6D, zp |-> \h65, izx |-> \h61,
              izy |-> \h71, zpx |-> \h75, abx |-> \h7D, aby |-> \h79],
     AND |-> [imm |-> \h29, abs |-> \h2D, zp |-> \h25, izx |-> \h21,
              izy |-> \h31, zpx |-> \h35, abx |-> \h3D, aby |-> \h39],
     ASL |-> [abs |-> \h0E, zp |-> \h06, impl |-> \h0A, zpx |-> \h16,
              abx |-> \h1E],
     BIT |-> [abs |-> \h2C, zp |-> \h24],
     CMP |-> [imm |-> \hC9, abs |-> \hCD, zp |-> \hC5, izx |-> \hC1,
              izy |-> \hD1, zpx |-> \hD5, abx |-> \hDD, aby |-> \hD9],
     CPX |-> [imm |-> \hE0, abs |-> \hEC, zp |-> \hE4],
     CPY |-> [imm |-> \hC0, abs |-> \hCC, zp |-> \hC4],
     DEC |-> [abs |-> \hCE, zp |-> \hC6, zpx |-> \hD6, abx |-> \hDE],
     EOR |-> [imm |-> \h49, abs |-> \h4D, zp |-> \h45, izx |-> \h41,
              izy |-> \h51, zpx |-> \h55, abx |-> \h5D, aby |-> \h59],
     INC |-> [abs |-> \hEE, zp |-> \hE6, zpx |-> \hF6, abx |-> \hFE],
     JMP |-> [abs |-> \h4C, ind |-> \h6C],
     JSR |-> [abs |-> \h20],
     LDA |-> [imm |-> \hA9, abs |-> \hAD, zp |-> \hA5, izx |-> \hA1,
              izy |-> \hB1, zpx |-> \hB5, abx |-> \hBD, aby |-> \hB9],
     LDX |-> [imm |-> \hA2, abs |-> \hAE, zp |-> \hA6, zpy |-> \hB6,
              aby |-> \hBE],
     LDY |-> [imm |-> \hA0, abs |-> \hAC, zp |-> \hA4, zpx |-> \hB4,
              abx |-> \hBC],
     LSR |-> [abs |-> \h4E, zp |-> \h46, impl |-> \h4A, zpx |-> \h56,
              abx |-> \h5E],
     ORA |-> [imm |-> \h09, abs |-> \h0D, zp |-> \h05, izx |-> \h01,
              izy |-> \h11, zpx |-> \h15, abx |-> \h1D, aby |-> \h19],
     ROL |-> [abs |-> \h2E, zp |-> \h26, impl |-> \h2A, zpx |-> \h36,
              abx |-> \h3E],
     ROR |-> [abs |-> \h6E, zp |-> \h66, impl |-> \h6A, zpx |-> \h76,
              abx |-> \h7E],
     SBC |-> [imm |-> \hE9, abs |-> \hED, zp |-> \hE5, izx |-> \hE1,
              izy |-> \hF1, zpx |-> \hF5, abx |-> \hFD, aby |-> \hF9],
     STA |-> [abs |-> \h8D, zp |-> \h85, izx |-> \h81, izy |-> \h91,
              zpx |-> \h95, abx |-> \h9D, aby |-> \h99],
     STX |-> [abs |-> \h8E, zp |-> \h86, zpy |-> \h96],
     STY |-> [abs |-> \h8C, zp |-> \h84, zpx |-> \h94]])

Operations65C02 == Instructions(
    [ADC |-> [izp |-> \h72], AND |-> [izp |-> \h32],
     BIT |-> [imm |-> \h89, zpx |-> \h34, abx |-> \h3C],
     BRA |-> [rel |-> \h80], CMP |-> [izp |-> \hD2], DEA |-> [impl |-> \h3A],
     EOR |-> [izp |-> \h52], INA |-> [impl |-> \h1A], JMP |-> [iax |-> \h7C],
     LDA |-> [izp |-> \hB2], ORA |-> [izp |-> \h12], PHX |-> [impl |-> \hDA],
     PHY |-> [impl |-> \h5A], PLX |-> [impl |-> \hFA], PLY |-> [impl |-> \h7A],
     SBC |-> [izp |-> \hF2], STA |-> [izp |-> \h92],
     STZ |-> [abs |-> \h9C, zp |-> \h64, zpx |-> \h74, abx |-> \h9E],
     TRB |-> [abs |-> \h1C, zp |-> \h14], TSB |-> [abs |-> \h0C, zp |-> \h04]])

Operations65816 == Instructions(
    [DEC |-> [impl |-> \h3A], INC |-> [impl |-> \h1A],
     LDAL |-> [abs |-> \hAF, zp |-> LL, izx |-> LL, zpx |-> LL, zpy |-> LL,
               abx |-> \hBF, izp |-> LL],
     PHB |-> [impl |-> \h8B], PLB |-> [impl |-> \hAB],
     STAL |-> [abs |-> \h8F, zp |-> LL, izx |-> LL, zpx |-> LL, zpy |-> LL,
               abx |-> \h9F, izp |-> LL]])

Directives65816 == Handlers(
    [MX |-> "MX", REP |-> "REP", SEP |-> "SEP", XCE |-> "XCE",
     MVN |-> "MVN", MVP |-> "MVP"])

-----------------------------------------------------------------------------
(* Mutant: a field the additional entry has not is taken from it, too. *)
UpdateEveryField(entry, additional) ==
    [entry EXCEPT !.codes = additional.codes,
                  !.longA = additional.longA,
                  !.longXY = additional.longXY]

(* updateInstructionEntry: opcodes are added or replaced, the flags are    *)
(* those of the additional entry, the handler stays.                       *)
UpdateInstructionEntry(entry, additional) ==
    [entry EXCEPT
        !.codes = [mode \in DOMAIN entry.codes \cup DOMAIN additional.codes |->
                      IF mode \in DOMAIN additional.codes
                      THEN additional.codes[mode]
                      ELSE entry.codes[mode]],
        !.longA = additional.longA,
        !.longXY = additional.longXY]

(* What countNewInstructionMnemonics counts: a new set grows by these. *)
NewInstructionMnemonics(base, add) == DOMAIN add \ DOMAIN base

(* mergeInstructionSets *)
Merge(base, add) ==
    [op \in DOMAIN base \cup NewInstructionMnemonics(base, add) |->
        IF op \notin DOMAIN base THEN add[op]
        ELSE IF op \in DOMAIN add THEN UpdateInstructionEntry(base[op], add[op])
             ELSE base[op]]

Set6502 ==
    Joined(Joined(Directives6502, Implied6502), Joined(Branches6502, Operations6502))

Set65C02 == Merge(Set6502, Operations65C02)

Set65816 == Merge(Set65C02, Joined(Directives65816, Operations65816))

(* INSTRUCTION_SET_6502, INSTRUCTION_SET_65C02 and INSTRUCTION_SET_65816. *)
InstructionSetTable == <<Set6502, Set65C02, Set65816>>
=============================================================================
