------------------------------ MODULE Processor ------------------------------
(***************************************************************************)
(* The reference that snap's machine code is held against: how a 6502, a   *)
(* 65C02 or a 65816 reads its instructions.  Most opcodes are three bits   *)
(* of operation, three of addressing mode and two of group.                *)
(***************************************************************************)
EXTENDS Integers, Sequences, FiniteSets

Operation(byte) == byte \div 32
ModeBits(byte) == (byte \div 4) % 8
Group(byte) == byte % 4

NoInstruction == [op |-> "???", mode |-> "impl"]

Instruction(op, mode) == [op |-> op, mode |-> mode]

(* The operations and modes of a group, in the order of their bits.        *)
Accumulator == <<"ORA", "AND", "EOR", "ADC", "STA", "LDA", "CMP", "SBC">>
AccumulatorModes == <<"izx", "zp", "imm", "abs", "izy", "zpx", "aby", "abx">>

Shifts == <<"ASL", "ROL", "LSR", "ROR", "STX", "LDX", "DEC", "INC">>
Registers == <<"TSB", "BIT", "JMP", "JMP", "STY", "LDY", "CPY", "CPX">>
DirectModes == <<"imm", "zp", "impl", "abs", "", "zpx", "", "abx">>

(* The x registers are indexed by y. *)
ByY(mode) == CASE mode = "zpx" -> "zpy" [] mode = "abx" -> "aby" [] OTHER -> mode

Branches == <<"BPL", "BMI", "BVC", "BVS", "BCC", "BCS", "BNE", "BEQ">>

(* Instructions outside of the groups. *)
Singles6502 ==
    [BRK |-> \h00, PHP |-> \h08, CLC |-> \h18, PLP |-> \h28, SEC |-> \h38,
     RTI |-> \h40, PHA |-> \h48, CLI |-> \h58, RTS |-> \h60, PLA |-> \h68,
     SEI |-> \h78, DEY |-> \h88, TXA |-> \h8A, TYA |-> \h98, TXS |-> \h9A,
     TAY |-> \hA8, TAX |-> \hAA, CLV |-> \hB8, TSX |-> \hBA, INY |-> \hC8,
     DEX |-> \hCA, CLD |-> \hD8, INX |-> \hE8, NOP |-> \hEA, SED |-> \hF8]

Singles65C02 ==
    [INC |-> \h1A, DEC |-> \h3A, PHY |-> \h5A, PLY |-> \h7A, PHX |-> \hDA,
     PLX |-> \hFA]

Singles65816 == [PHB |-> \h8B, PLB |-> \hAB, XCE |-> \hFB]

Named(table, byte) ==
    IF \E op \in DOMAIN table : table[op] = byte
    THEN Instruction(CHOOSE op \in DOMAIN table : table[op] = byte, "impl")
    ELSE NoInstruction

Decode6502(byte) ==
    LET a == Operation(byte) + 1
        m == DirectModes[ModeBits(byte) + 1]
    IN  CASE byte = \h20 -> Instruction("JSR", "abs")
          [] byte = \h6C -> Instruction("JMP", "ind")
          [] byte = \h4C -> Instruction("JMP", "abs")
          [] byte % 32 = 16 -> Instruction(Branches[a], "rel")
          [] Group(byte) = 1 /\ byte # \h89 ->
                Instruction(Accumulator[a], AccumulatorModes[ModeBits(byte) + 1])
          [] Group(byte) = 2 /\ m \in {"zp", "abs", "zpx", "abx"} /\ byte # \h9E ->
                Instruction(Shifts[a], IF a \in {5, 6} THEN ByY(m) ELSE m)
          [] Group(byte) = 2 /\ m = "impl" /\ a <= 4 -> Instruction(Shifts[a], m)
          [] byte = \hA2 -> Instruction("LDX", "imm")
          [] Group(byte) = 0 /\ m = "imm" /\ a \in 6 .. 8 -> Instruction(Registers[a], m)
          [] Group(byte) = 0 /\ m \in {"zp", "abs"} /\ a \in {2, 5, 6, 7, 8} ->
                Instruction(Registers[a], m)
          [] Group(byte) = 0 /\ m = "zpx" /\ a \in {5, 6} -> Instruction(Registers[a], m)
          [] byte = \hBC -> Instruction("LDY", "abx")
          [] OTHER -> Named(Singles6502, byte)

Decode65C02(byte) ==
    LET a == Operation(byte) + 1
        m == DirectModes[ModeBits(byte) + 1]
    IN  CASE byte = \h80 -> Instruction("BRA", "rel")
          [] byte = \h89 -> Instruction("BIT", "imm")
          [] byte = \h7C -> Instruction("JMP", "iax")
          [] byte = \h34 -> Instruction("BIT", "zpx")
          [] byte = \h3C -> Instruction("BIT", "abx")
          [] byte = \h64 -> Instruction("STZ", "zp")
          [] byte = \h74 -> Instruction("STZ", "zpx")
          [] byte = \h9C -> Instruction("STZ", "abs")
          [] byte = \h9E -> Instruction("STZ", "abx")
          [] byte \in {\h04, \h0C} -> Instruction("TSB", m)
          [] byte \in {\h14, \h1C} -> Instruction("TRB", IF byte = \h14 THEN "zp" ELSE "abs")
          [] byte % 32 = 18 -> Instruction(Accumulator[a], "izp")
          [] OTHER -> Named(Singles65C02, byte)

Decode65816(byte) ==
    CASE byte = \hAF -> Instruction("LDA", "long")
      [] byte = \hBF -> Instruction("LDA", "longx")
      [] byte = \h8F -> Instruction("STA", "long")
      [] byte = \h9F -> Instruction("STA", "longx")
      [] byte \in {\hC2, \hE2} -> Instruction(IF byte = \hC2 THEN "REP" ELSE "SEP", "imm")
      [] OTHER -> Named(Singles65816, byte)

(* What a processor of the set does with the opcode: each has the          *)
(* instructions of the one before.                                         *)
Decode(byte, set) ==
    CASE Decode6502(byte) # NoInstruction -> Decode6502(byte)
      [] set >= 2 /\ Decode6502(byte) = NoInstruction
                  /\ Decode65C02(byte) # NoInstruction -> Decode65C02(byte)
      [] set >= 3 /\ Decode6502(byte) = NoInstruction
                  /\ Decode65C02(byte) = NoInstruction -> Decode65816(byte)
      [] OTHER -> NoInstruction

Length(mode) ==
    CASE mode = "impl" -> 1
      [] mode \in {"imm", "zp", "zpx", "zpy", "izx", "izy", "izp", "rel"} -> 2
      [] mode \in {"abs", "abx", "aby", "ind", "iax"} -> 3
      [] mode \in {"long", "longx"} -> 4

(* The number in the bytes behind the opcode, the least byte first. *)
OperandOf(code) ==
    CASE Len(code) = 1 -> 0
      [] Len(code) = 2 -> code[2]
      [] Len(code) = 3 -> code[2] + 256 * code[3]
      [] Len(code) = 4 -> code[2] + 256 * code[3] + 65536 * code[4]

(* Where a branch at the address goes. *)
Target(address, byte) ==
    (address + 2 + (IF byte < 128 THEN byte ELSE byte - 256)) % 65536
=============================================================================
